--------------------- MODULE InMemorySessionStoreProofs ---------------------
(***************************************************************************)
(* The in-memory store implements the contract of SessionStore for any     *)
(* number of sessions, callers and turns: comparing version numbers is     *)
(* enough to detect every overwrite of a session that was never deleted.   *)
(***************************************************************************)
EXTENDS InMemorySessionStore, TLAPS

Row  == Contract!Row
Copy == Contract!Copy

\* Ids in use have been given out, so that Open cannot meet a stored session.
IdsMinted ==
    /\ \A s \in Sessions : rows[s] # Absent => s \in minted
    /\ \A c \in Callers : held[c] # None => held[c].session \in minted

\* Staleness is about a copy somebody holds.
OnlyHoldersStale == \A c \in stale : held[c] # None

Inv == TypeOK /\ IdsMinted /\ OnlyHoldersStale /\ VersionsTellStaleness

LEMMA InitInv == Init => Inv
<1> SUFFICES ASSUME Init PROVE Inv
  OBVIOUS
<1>1. TypeOK
  BY DEF Init, TypeOK, Contract!TypeOK
<1>2. IdsMinted
  BY DEF Init, IdsMinted
<1>3. VersionsTellStaleness
  BY DEF Init, VersionsTellStaleness
<1> QED
  BY <1>1, <1>2, <1>3 DEF Inv, Init, OnlyHoldersStale

LEMMA OpenInv ==
  ASSUME Inv, NEW c \in Callers, NEW s \in Sessions, Open(c, s) PROVE Inv'
<1> USE SentinelAssumption DEF Inv, Open, Contract!Open
<1>1. /\ held' \in [Callers -> Copy \cup {None}]
      /\ held'[c] = [session |-> s, version |-> 0, doc |-> {}]
      /\ \A d \in Callers \ {c} : held'[d] = held[d]
  BY DEF TypeOK, Contract!TypeOK, Contract!Copy, Copy
<1>2. TypeOK'
  BY <1>1 DEF TypeOK, Contract!TypeOK, Copy
<1>3. IdsMinted'
  BY <1>1 DEF IdsMinted
<1>4. rows[s] = Absent
  BY DEF IdsMinted
<1>5. OnlyHoldersStale'
  BY <1>1 DEF OnlyHoldersStale
<1>6. VersionsTellStaleness'
  <2> SUFFICES ASSUME NEW d \in Callers, held'[d] # None
               PROVE  /\ d \notin stale => UpToDate(d)'
                      /\ d \in stale => Overtaken(d)' \/ held'[d].session \in deleted
    BY DEF VersionsTellStaleness
  <2>1. CASE d = c
    BY <2>1, <1>1, <1>4 DEF OnlyHoldersStale, UpToDate
  <2>2. CASE d # c
    BY <2>2, <1>1 DEF VersionsTellStaleness, UpToDate, Overtaken
  <2> QED
    BY <2>1, <2>2
<1> QED
  BY <1>2, <1>3, <1>5, <1>6

LEMMA GetInv ==
  ASSUME Inv, NEW c \in Callers, NEW s \in Sessions, get(c, s) PROVE Inv'
<1> USE SentinelAssumption DEF Inv, get
<1>1. rows[s] \in Row
  BY DEF TypeOK, Contract!TypeOK, Row
<1>2. /\ held' \in [Callers -> Copy \cup {None}]
      /\ held'[c].session = s
      /\ held'[c].version = rows[s].version
      /\ \A d \in Callers \ {c} : held'[d] = held[d]
  BY <1>1 DEF TypeOK, Contract!TypeOK, Contract!Copy, Copy, Row, Contract!Row
<1>3. TypeOK'
  BY <1>2 DEF TypeOK, Contract!TypeOK, Copy
<1>4. IdsMinted'
  BY <1>2 DEF IdsMinted
<1>5. OnlyHoldersStale'
  BY <1>2 DEF OnlyHoldersStale
<1>6. VersionsTellStaleness'
  <2> SUFFICES ASSUME NEW d \in Callers, held'[d] # None
               PROVE  /\ d \notin stale => UpToDate(d)'
                      /\ d \in stale => Overtaken(d)' \/ held'[d].session \in deleted
    BY DEF VersionsTellStaleness
  <2>1. CASE d = c
    BY <2>1, <1>2 DEF OnlyHoldersStale, UpToDate
  <2>2. CASE d # c
    BY <2>2, <1>2 DEF VersionsTellStaleness, UpToDate, Overtaken
  <2> QED
    BY <2>1, <2>2
<1> QED
  BY <1>3, <1>4, <1>5, <1>6

LEMMA WorkInv ==
  ASSUME Inv, NEW c \in Callers, NEW t \in Turns, Contract!Work(c, t)
  PROVE  Inv'
<1> USE SentinelAssumption DEF Inv, Contract!Work
<1>1. held[c] \in Copy
  BY DEF TypeOK, Contract!TypeOK, Copy
<1>2. /\ held' \in [Callers -> Copy \cup {None}]
      /\ held'[c].session = held[c].session
      /\ held'[c].version = held[c].version
      /\ \A d \in Callers \ {c} : held'[d] = held[d]
  BY <1>1 DEF TypeOK, Contract!TypeOK, Contract!Copy, Copy
<1>3. TypeOK'
  BY <1>2 DEF TypeOK, Contract!TypeOK, Copy
<1>4. IdsMinted'
  BY <1>2 DEF IdsMinted
<1>5. OnlyHoldersStale'
  BY <1>1, <1>2 DEF OnlyHoldersStale, TypeOK, Contract!TypeOK, Contract!Copy, Copy
<1>6. VersionsTellStaleness'
  BY <1>2 DEF VersionsTellStaleness, UpToDate, Overtaken
<1> QED
  BY <1>3, <1>4, <1>5, <1>6

LEMMA ReleaseInv ==
  ASSUME Inv, NEW c \in Callers, Contract!Release(c) PROVE Inv'
<1> USE DEF Inv, Contract!Release
<1>1. /\ held' \in [Callers -> Copy \cup {None}]
      /\ held'[c] = None
      /\ \A d \in Callers \ {c} : held'[d] = held[d]
  BY DEF TypeOK, Contract!TypeOK, Copy
<1>2. TypeOK'
  BY <1>1 DEF TypeOK, Contract!TypeOK, Copy
<1>3. IdsMinted' /\ OnlyHoldersStale'
  BY <1>1 DEF IdsMinted, OnlyHoldersStale, TypeOK, Contract!TypeOK
<1>4. VersionsTellStaleness'
  BY <1>1 DEF VersionsTellStaleness, UpToDate, Overtaken
<1> QED
  BY <1>2, <1>3, <1>4

\* An accepted put moves the row to a version above every other copy of it.
LEMMA AcceptedInv ==
  ASSUME Inv, NEW c \in Callers, held[c] # None, SameVersion(c),
         Contract!Accepted(c)
  PROVE  Inv'
<1> USE SentinelAssumption, MaxVersionAssumption DEF Inv, Contract!Accepted, Contract!Written
<1> DEFINE s == held[c].session
<1>1. held[c] \in Copy /\ s \in Sessions /\ held[c].version \in Nat
  BY DEF TypeOK, Contract!TypeOK, Copy, Contract!Copy
<1>2. [version |-> held[c].version + 1, doc |-> held[c].doc] \in Row
  BY <1>1 DEF Row, Contract!Row, Copy, Contract!Copy
<1>3. /\ rows' \in [Sessions -> Row \cup {Absent}]
      /\ rows'[s] # Absent
      /\ rows'[s].version = held[c].version + 1
      /\ \A x \in Sessions \ {s} : rows'[x] = rows[x]
  BY <1>1, <1>2 DEF TypeOK, Contract!TypeOK, Row, Contract!Row
<1>4. /\ held' \in [Callers -> Copy \cup {None}]
      /\ held'[c] # None
      /\ held'[c].session = s
      /\ held'[c].version = held[c].version + 1
      /\ \A d \in Callers \ {c} : held'[d] = held[d]
  BY <1>1 DEF TypeOK, Contract!TypeOK, Copy, Contract!Copy
<1>5. acked' \in [Sessions -> SUBSET Turns]
  BY <1>1 DEF TypeOK, Contract!TypeOK, Copy, Contract!Copy
<1>6. TypeOK'
  BY <1>3, <1>4, <1>5 DEF TypeOK, Contract!TypeOK, Contract!Holders, Row, Copy
<1>7. IdsMinted'
  BY <1>1, <1>3, <1>4 DEF IdsMinted
<1>8. OnlyHoldersStale'
  BY <1>4 DEF OnlyHoldersStale, Contract!Holders
<1>9. VersionsTellStaleness'
  <2> SUFFICES ASSUME NEW d \in Callers, held'[d] # None
               PROVE  /\ d \notin stale' => UpToDate(d)'
                      /\ d \in stale' => Overtaken(d)' \/ held'[d].session \in deleted'
    BY DEF VersionsTellStaleness
  <2>1. CASE d = c
    BY <2>1, <1>3, <1>4 DEF UpToDate
  <2>2. CASE d # c /\ held[d].session = s
    <3>1. held'[d] = held[d] /\ held[d].version \in Nat
      BY <2>2, <1>4 DEF TypeOK, Contract!TypeOK, Copy, Contract!Copy
    <3>2. d \in stale'
      BY <2>2, <3>1 DEF Contract!Holders
    <3>3. held[d].version <= held[c].version \/ s \in deleted
      BY <2>2, <3>1, <1>1
         DEF VersionsTellStaleness, UpToDate, Overtaken, SameVersion
    <3>4. Overtaken(d)' \/ s \in deleted
      BY <2>2, <3>1, <3>3, <1>1, <1>3 DEF Overtaken
    <3> QED
      BY <2>2, <3>1, <3>2, <3>4
  <2>3. CASE d # c /\ held[d].session # s
    <3>1. /\ held'[d] = held[d]
          /\ rows'[held[d].session] = rows[held[d].session]
          /\ (d \in stale') <=> (d \in stale)
          /\ deleted' = deleted
      BY <2>3, <1>3, <1>4
         DEF TypeOK, Contract!TypeOK, Copy, Contract!Copy, Contract!Holders
    <3> HIDE DEF Contract!Accepted
    <3> QED
      BY <3>1 DEF VersionsTellStaleness, UpToDate, Overtaken
  <2> QED
    BY <2>1, <2>2, <2>3
<1> QED
  BY <1>6, <1>7, <1>8, <1>9

LEMMA PutInv ==
  ASSUME Inv, NEW c \in Callers, put(c) PROVE Inv'
<1>1. CASE SameVersion(c)
  BY <1>1, AcceptedInv DEF put
<1>2. CASE ~ SameVersion(c)
  BY <1>2 DEF put, Contract!Refused, Inv, TypeOK, Contract!TypeOK, IdsMinted,
              OnlyHoldersStale, VersionsTellStaleness, UpToDate, Overtaken
<1> QED
  BY <1>1, <1>2

LEMMA DeleteInv ==
  ASSUME Inv, NEW s \in Sessions, delete(s) PROVE Inv'
<1> USE SentinelAssumption DEF Inv, delete, Contract!Delete
<1>1. /\ rows' \in [Sessions -> Row \cup {Absent}]
      /\ rows'[s] = Absent
      /\ \A x \in Sessions \ {s} : rows'[x] = rows[x]
  BY DEF TypeOK, Contract!TypeOK, Row
<1>2. TypeOK'
  BY <1>1 DEF TypeOK, Contract!TypeOK, Contract!Holders, Row
<1>3. IdsMinted' /\ OnlyHoldersStale'
  BY <1>1 DEF IdsMinted, OnlyHoldersStale, Contract!Holders
<1>4. VersionsTellStaleness'
  <2> SUFFICES ASSUME NEW d \in Callers, held[d] # None
               PROVE  /\ d \notin stale' => UpToDate(d)'
                      /\ d \in stale' => Overtaken(d)' \/ held[d].session \in deleted'
    BY DEF VersionsTellStaleness
  <2>1. CASE held[d].session = s
    BY <2>1 DEF Contract!Holders
  <2>2. CASE held[d].session # s
    <3>1. rows'[held[d].session] = rows[held[d].session]
      BY <2>2, <1>1 DEF TypeOK, Contract!TypeOK, Contract!Copy
    <3>2. d \in stale' <=> d \in stale
      BY <2>2 DEF Contract!Holders
    <3> QED
      BY <3>1, <3>2 DEF VersionsTellStaleness, UpToDate, Overtaken
  <2> QED
    BY <2>1, <2>2
<1> QED
  BY <1>2, <1>3, <1>4

LEMMA NextInv == Inv /\ [Next]_vars => Inv'
<1> SUFFICES ASSUME Inv, [Next]_vars PROVE Inv'
  OBVIOUS
<1>1. CASE Next
  BY <1>1, OpenInv, GetInv, WorkInv, PutInv, ReleaseInv, DeleteInv DEF Next
<1>2. CASE UNCHANGED vars
  BY <1>2 DEF vars, Inv, TypeOK, Contract!TypeOK, IdsMinted, OnlyHoldersStale,
              VersionsTellStaleness, UpToDate, Overtaken
<1> QED
  BY <1>1, <1>2

THEOREM InvHolds == Spec => []Inv
  BY InitInv, NextInv, PTL DEF Spec

\* Version numbers tell who was overwritten, on every session never deleted.
THEOREM VersionsSuffice == Spec => []VersionsTellStaleness
<1>1. Inv => VersionsTellStaleness
  BY DEF Inv
<1> QED
  BY <1>1, InvHolds, PTL

\* Every reachable state of the store is well typed.
THEOREM TypeCorrect == Spec => []TypeOK
<1>1. Inv => TypeOK
  BY DEF Inv
<1> QED
  BY <1>1, InvHolds, PTL

-----------------------------------------------------------------------------
\* No lost update.

\* A copy nobody overwrote contains what is stored.
CurrentCopiesExtendRows ==
    \A c \in Callers :
        held[c] # None /\ c \notin stale /\ rows[held[c].session] # Absent
            => rows[held[c].session].doc \subseteq held[c].doc

Kept == CurrentCopiesExtendRows /\ AckedTurnsKept

\* The steps that leave the store alone, and the acknowledged turns with it.
LEMMA CopyStepKept ==
  ASSUME Inv, Kept, NEW c \in Callers,
         \/ \E s \in Sessions : Open(c, s) \/ get(c, s)
         \/ \E t \in Turns : Contract!Work(c, t)
         \/ Contract!Release(c)
  PROVE  Kept'
<1> USE SentinelAssumption DEF Kept
<1>1. rows' = rows /\ acked' = acked /\ deleted' = deleted
  BY DEF Open, Contract!Open, get, Contract!Work, Contract!Release
<1>2. AckedTurnsKept'
  BY <1>1 DEF AckedTurnsKept, Contract!AckedTurnsKept, Contract!Exists
<1>3. \A d \in Callers \ {c} : held'[d] = held[d] /\ (d \in stale' <=> d \in stale)
  BY DEF Inv, TypeOK, Contract!TypeOK, Open, Contract!Open, get, Contract!Work,
         Contract!Release
<1>4. ASSUME held'[c] # None, c \notin stale', rows[held'[c].session] # Absent
      PROVE  rows[held'[c].session].doc \subseteq held'[c].doc
  <2>1. ASSUME NEW s \in Sessions, Open(c, s)
        PROVE  rows[held'[c].session] = Absent
    BY <2>1 DEF Inv, TypeOK, Contract!TypeOK, IdsMinted, Open, Contract!Open
  <2>2. ASSUME NEW s \in Sessions, get(c, s)
        PROVE  rows[held'[c].session].doc \subseteq held'[c].doc
    BY <2>2 DEF Inv, TypeOK, Contract!TypeOK, get
  <2>3. ASSUME NEW t \in Turns, Contract!Work(c, t)
        PROVE  rows[held'[c].session].doc \subseteq held'[c].doc
    <3>1. held[c] \in Copy /\ c \notin stale
      BY <2>3, <1>4 DEF Inv, TypeOK, Contract!TypeOK, Copy, Contract!Work
    <3>2. held'[c].session = held[c].session /\ held[c].doc \subseteq held'[c].doc
      BY <2>3, <3>1 DEF Inv, TypeOK, Contract!TypeOK, Copy, Contract!Copy, Contract!Work
    <3> QED
      BY <1>4, <3>1, <3>2, <2>3 DEF CurrentCopiesExtendRows, Contract!Work
  <2>4. ASSUME Contract!Release(c) PROVE held'[c] = None
    BY <2>4 DEF Inv, TypeOK, Contract!TypeOK, Contract!Release
  <2> QED
    BY <1>4, <2>1, <2>2, <2>3, <2>4
<1>5. CurrentCopiesExtendRows'
  BY <1>1, <1>3, <1>4 DEF CurrentCopiesExtendRows
<1> QED
  BY <1>2, <1>5

\* An accepted put replaces the row by a copy that contains it, unless the session
\* was deleted.
LEMMA AcceptedKept ==
  ASSUME Inv, Kept, NEW c \in Callers, held[c] # None, SameVersion(c),
         Contract!Accepted(c)
  PROVE  Kept'
<1> USE SentinelAssumption DEF Kept, Inv, Contract!Accepted
<1> DEFINE s == held[c].session
<1>1. held[c] \in Copy /\ s \in Sessions
  BY DEF TypeOK, Contract!TypeOK, Copy, Contract!Copy
<1>2. /\ rows'[s].doc = held[c].doc
      /\ rows'[s] # Absent
      /\ \A x \in Sessions \ {s} : rows'[x] = rows[x]
  <2>1. [version |-> held[c].version + 1, doc |-> held[c].doc] \in Row
    BY <1>1 DEF Row, Contract!Row, Copy, Contract!Copy
  <2> QED
    BY <2>1, <1>1 DEF TypeOK, Contract!TypeOK, Contract!Written, Row, Contract!Row
<1>3. /\ held'[c].session = s
      /\ held'[c].doc = held[c].doc
      /\ \A d \in Callers \ {c} : held'[d] = held[d]
  BY <1>1 DEF TypeOK, Contract!TypeOK, Copy, Contract!Copy
<1>4. CurrentCopiesExtendRows'
  <2> SUFFICES ASSUME NEW d \in Callers, held'[d] # None, d \notin stale',
                      rows'[held'[d].session] # Absent
               PROVE  rows'[held'[d].session].doc \subseteq held'[d].doc
    BY DEF CurrentCopiesExtendRows
  <2>1. CASE d = c
    BY <2>1, <1>2, <1>3
  <2>2. CASE d # c
    <3>1. held'[d] = held[d] /\ held[d].session # s /\ d \notin stale
      BY <2>2, <1>3 DEF Contract!Holders
    <3>2. held[d].session \in Sessions \ {s}
      BY <3>1 DEF TypeOK, Contract!TypeOK, Contract!Copy
    <3> QED
      BY <3>1, <3>2, <1>2 DEF CurrentCopiesExtendRows
  <2> QED
    BY <2>1, <2>2
<1>5. s \notin deleted /\ rows[s] # Absent => c \notin stale
  BY <1>1 DEF VersionsTellStaleness, Overtaken, SameVersion, Copy, Contract!Copy
<1>6. AckedTurnsKept'
  <2> SUFFICES ASSUME NEW x \in Sessions \ deleted', acked'[x] # {}
               PROVE  rows'[x] # Absent /\ acked'[x] \subseteq rows'[x].doc
    BY DEF AckedTurnsKept, Contract!AckedTurnsKept, Contract!Exists
  <2>1. CASE x = s
    <3>1. acked'[s] = acked[s] \cup held[c].doc
      BY <1>1 DEF TypeOK, Contract!TypeOK
    <3>2. acked[s] \subseteq held[c].doc
      BY <2>1, <1>1, <1>5
         DEF AckedTurnsKept, Contract!AckedTurnsKept, Contract!Exists, CurrentCopiesExtendRows
    <3> QED
      BY <2>1, <3>1, <3>2, <1>2
  <2>2. CASE x # s
    <3>1. acked'[x] = acked[x]
      BY <2>2 DEF TypeOK, Contract!TypeOK
    <3> QED
      BY <3>1, <2>2, <1>2 DEF AckedTurnsKept, Contract!AckedTurnsKept, Contract!Exists
  <2> QED
    BY <2>1, <2>2
<1> QED
  BY <1>4, <1>6

LEMMA DeleteKept ==
  ASSUME Inv, Kept, NEW s \in Sessions, delete(s) PROVE Kept'
<1> USE SentinelAssumption DEF Kept, Inv, delete, Contract!Delete
<1>1. rows'[s] = Absent /\ \A x \in Sessions \ {s} : rows'[x] = rows[x]
  BY DEF TypeOK, Contract!TypeOK
<1>2. CurrentCopiesExtendRows'
  <2> SUFFICES ASSUME NEW d \in Callers, held[d] # None, d \notin stale',
                      rows'[held[d].session] # Absent
               PROVE  rows'[held[d].session].doc \subseteq held[d].doc
    BY DEF CurrentCopiesExtendRows
  <2>1. held[d].session \in Sessions \ {s} /\ d \notin stale
    BY <1>1 DEF TypeOK, Contract!TypeOK, Contract!Copy
  <2> QED
    BY <2>1, <1>1 DEF CurrentCopiesExtendRows
<1>3. AckedTurnsKept'
  BY <1>1 DEF AckedTurnsKept, Contract!AckedTurnsKept, Contract!Exists, TypeOK, Contract!TypeOK
<1> QED
  BY <1>2, <1>3

LEMMA NextKept == Inv /\ Kept /\ [Next]_vars => Kept'
<1> SUFFICES ASSUME Inv, Kept, [Next]_vars PROVE Kept'
  OBVIOUS
<1>1. ASSUME NEW c \in Callers, put(c), ~ SameVersion(c) PROVE Kept'
  BY <1>1 DEF put, Contract!Refused, Kept, CurrentCopiesExtendRows, AckedTurnsKept,
              Contract!AckedTurnsKept, Contract!Exists
<1>2. CASE Next
  BY <1>1, <1>2, CopyStepKept, AcceptedKept, DeleteKept DEF Next, put
<1>3. CASE UNCHANGED vars
  BY <1>3 DEF vars, Kept, CurrentCopiesExtendRows, AckedTurnsKept,
              Contract!AckedTurnsKept, Contract!Exists
<1> QED
  BY <1>2, <1>3

\* Of the handlers that read one version, work and put, none overwrites a turn the
\* client of another was told is saved.
THEOREM NoLostUpdate == Spec => []AckedTurnsKept
<1>1. Init => Kept
  BY DEF Init, Kept, CurrentCopiesExtendRows, AckedTurnsKept, Contract!AckedTurnsKept
<1>2. Kept => AckedTurnsKept
  BY DEF Kept
<1> QED
  BY <1>1, <1>2, InvHolds, NextKept, PTL DEF Spec

-----------------------------------------------------------------------------
\* The refinement.

LEMMA InitImplements == Init => Contract!Init
<1> SUFFICES ASSUME Init PROVE Contract!Init
  OBVIOUS
<1> DEFINE legacy == {}
<1>1. /\ legacy \in SUBSET Sessions
      /\ rows = [s \in Sessions |->
                    IF s \in legacy THEN [version |-> 0, doc |-> {}] ELSE Absent]
      /\ minted = legacy
  BY DEF Init
<1> QED
  BY <1>1 DEF Init, Contract!Init

\* A put that finds its version is one the contract accepts, and one that does
\* not is one the contract lets it refuse.
LEMMA PutImplements ==
  ASSUME Inv, NEW c \in Callers, put(c)
  PROVE  Contract!PutOk(c) \/ Contract!PutConflict(c)
<1> USE DEF put
<1> held[c] \in Copy
  BY DEF Inv, TypeOK, Contract!TypeOK, Copy
<1>1. CASE SameVersion(c)
  <2>1. ~ Overtaken(c)
    BY <1>1 DEF SameVersion, Overtaken, Copy, Contract!Copy
  <2>2. \/ ~ Contract!Exists(held[c].session)
        \/ c \notin stale
        \/ held[c].session \in deleted
    BY <2>1 DEF Inv, VersionsTellStaleness
  <2> QED
    BY <1>1, <2>2 DEF Contract!PutOk
<1>2. CASE ~ SameVersion(c)
  <2>1. ~ UpToDate(c)
    BY <1>2 DEF SameVersion, UpToDate
  <2>2. c \in stale
    BY <2>1 DEF Inv, VersionsTellStaleness
  <2> QED
    BY <1>2, <2>2 DEF Contract!PutConflict
<1> QED
  BY <1>1, <1>2

LEMMA NextImplements == Inv /\ [Next]_vars => [Contract!Next]_(Contract!vars)
<1> SUFFICES ASSUME Inv, [Next]_vars PROVE [Contract!Next]_(Contract!vars)
  OBVIOUS
<1>1. ASSUME NEW c \in Callers, NEW s \in Sessions, Open(c, s)
      PROVE  Contract!CallerStep(c)
  BY <1>1 DEF Open, Contract!CallerStep
<1>2. ASSUME NEW c \in Callers, NEW s \in Sessions, get(c, s)
      PROVE  Contract!CallerStep(c)
  BY <1>2 DEF get, Contract!Get, Contract!Exists, Contract!CallerStep
<1>3. ASSUME NEW c \in Callers, NEW t \in Turns, Contract!Work(c, t)
      PROVE  Contract!CallerStep(c)
  BY <1>3 DEF Contract!CallerStep
<1>4. ASSUME NEW c \in Callers, put(c) PROVE Contract!CallerStep(c)
  BY <1>4, PutImplements DEF Contract!CallerStep
<1>5. ASSUME NEW c \in Callers, Contract!Release(c) PROVE Contract!CallerStep(c)
  BY <1>5 DEF Contract!CallerStep
<1>6. CASE Next
  BY <1>1, <1>2, <1>3, <1>4, <1>5, <1>6 DEF Next, delete, Contract!Next
<1>7. CASE UNCHANGED vars
  BY <1>7 DEF vars, Contract!vars
<1> QED
  BY <1>6, <1>7

\* InMemorySessionStore implements the session-store contract.
THEOREM Implements == Spec => ImplementsContract
<1>1. Spec => Contract!Init /\ [][Contract!Next]_(Contract!vars)
  BY InitImplements, NextImplements, InvHolds, PTL DEF Spec
<1> QED
  BY <1>1, PTL DEF ImplementsContract, Contract!Spec
=============================================================================
