--------------------- MODULE PostgresSessionStoreProofs ---------------------
(***************************************************************************)
(* The contract of the session store loses no acknowledged turn, and the   *)
(* Postgres store, whose put is several statements of a transaction,       *)
(* implements that contract: for any number of sessions, callers and turns.*)
(*                                                                         *)
(* The first part is about the contract alone.  Its invariant is carried   *)
(* over to the store by the refinement, so that the second part has to     *)
(* look only at where each transaction stands.                             *)
(***************************************************************************)
EXTENDS PostgresSessionStore, TLAPS

-----------------------------------------------------------------------------
\* The contract

\* Ids in use have been given out.
IdsMinted ==
    /\ \A s \in Sessions : Contract!Exists(s) => s \in minted
    /\ \A c \in Callers : held[c] # None => held[c].session \in minted

\* A copy nobody overwrote contains what is stored.
CurrentCopiesExtendRows ==
    \A c \in Callers :
        held[c] # None /\ c \notin stale /\ Contract!Exists(held[c].session)
            => rows[held[c].session].doc \subseteq held[c].doc

\* The inductive invariant behind AckedTurnsKept.
ContractInv == Contract!TypeOK /\ IdsMinted /\ CurrentCopiesExtendRows /\ Contract!AckedTurnsKept

LEMMA ContractInit == Contract!Init => ContractInv
<1> SUFFICES ASSUME Contract!Init PROVE ContractInv
  OBVIOUS
<1> USE SentinelAssumption DEF Contract!Init, Contract!Row, Contract!Copy, Contract!Exists
<1>1. Contract!TypeOK
  BY DEF Contract!TypeOK
<1>2. IdsMinted
  BY DEF IdsMinted
<1>3. CurrentCopiesExtendRows
  BY DEF CurrentCopiesExtendRows
<1>4. Contract!AckedTurnsKept
  BY DEF Contract!AckedTurnsKept
<1> QED
  BY <1>1, <1>2, <1>3, <1>4 DEF ContractInv

\* The effect of a write on the stored conversation, whichever put made it.
LEMMA WrittenEffect ==
  ASSUME Contract!TypeOK, NEW c \in Callers, held[c] # None, Contract!Written(c)
  PROVE  LET s == held[c].session
         IN  /\ s \in Sessions
             /\ rows' \in [Sessions -> Contract!Row \cup {Absent}]
             /\ rows'[s] \in Contract!Row
             /\ rows'[s] # Absent
             /\ rows'[s].doc = held[c].doc
             /\ \A x \in Sessions \ {s} : rows'[x] = rows[x]
<1> USE SentinelAssumption, MaxVersionAssumption
<1>1. held[c] \in Contract!Copy
  BY DEF Contract!TypeOK
<1>2. [version |-> held[c].version + 1, doc |-> held[c].doc] \in Contract!Row
  BY <1>1 DEF Contract!Copy, Contract!Row
<1> QED
  BY <1>1, <1>2 DEF Contract!TypeOK, Contract!Written, Contract!Copy

\* The step lemmas: one for each action of the specification.

LEMMA ContractOpen ==
  ASSUME ContractInv, NEW c \in Callers, NEW s \in Sessions, Contract!Open(c, s) PROVE ContractInv'
<1> USE SentinelAssumption DEF ContractInv, Contract!Open, Contract!Exists
<1>1. held' \in [Callers -> Contract!Copy \cup {None}]
  BY DEF Contract!TypeOK, Contract!Copy
<1>2. Contract!TypeOK'
  BY <1>1 DEF Contract!TypeOK
<1>3. IdsMinted'
  BY DEF IdsMinted, Contract!TypeOK
<1>4. CurrentCopiesExtendRows'
  BY DEF CurrentCopiesExtendRows, IdsMinted, Contract!TypeOK
<1>5. Contract!AckedTurnsKept'
  BY DEF Contract!AckedTurnsKept
<1> QED
  BY <1>2, <1>3, <1>4, <1>5

LEMMA ContractGet ==
  ASSUME ContractInv, NEW c \in Callers, NEW s \in Sessions, Contract!Get(c, s) PROVE ContractInv'
<1> USE SentinelAssumption DEF ContractInv, Contract!Get, Contract!Exists
<1>1. rows[s] \in Contract!Row
  BY DEF Contract!TypeOK
<1>2. held' \in [Callers -> Contract!Copy \cup {None}]
  BY <1>1 DEF Contract!TypeOK, Contract!Copy, Contract!Row
<1>3. Contract!TypeOK'
  BY <1>2 DEF Contract!TypeOK
<1>4. IdsMinted'
  BY DEF IdsMinted, Contract!TypeOK
<1>5. CurrentCopiesExtendRows'
  BY DEF CurrentCopiesExtendRows, Contract!TypeOK
<1>6. Contract!AckedTurnsKept'
  BY DEF Contract!AckedTurnsKept
<1> QED
  BY <1>3, <1>4, <1>5, <1>6

LEMMA ContractWork ==
  ASSUME ContractInv, NEW c \in Callers, NEW t \in Turns, Contract!Work(c, t) PROVE ContractInv'
<1> USE SentinelAssumption DEF ContractInv, Contract!Work, Contract!Exists
<1>1. held[c] \in Contract!Copy
  BY DEF Contract!TypeOK
<1>2. /\ held'[c] \in Contract!Copy
      /\ held'[c].session = held[c].session
      /\ held[c].doc \subseteq held'[c].doc
      /\ \A d \in Callers \ {c} : held'[d] = held[d]
      /\ held' \in [Callers -> Contract!Copy \cup {None}]
  BY <1>1 DEF Contract!TypeOK, Contract!Copy
<1>3. Contract!TypeOK'
  BY <1>2 DEF Contract!TypeOK
<1>4. IdsMinted'
  BY <1>2 DEF IdsMinted
<1>5. CurrentCopiesExtendRows'
  BY <1>2 DEF CurrentCopiesExtendRows
<1>6. Contract!AckedTurnsKept'
  BY DEF Contract!AckedTurnsKept
<1> QED
  BY <1>3, <1>4, <1>5, <1>6

LEMMA ContractRelease ==
  ASSUME ContractInv, NEW c \in Callers, Contract!Release(c) PROVE ContractInv'
<1> USE SentinelAssumption DEF ContractInv, Contract!Release, Contract!Exists
<1>1. Contract!TypeOK'
  BY DEF Contract!TypeOK
<1>2. IdsMinted'
  BY DEF IdsMinted, Contract!TypeOK
<1>3. CurrentCopiesExtendRows'
  BY DEF CurrentCopiesExtendRows, Contract!TypeOK
<1>4. Contract!AckedTurnsKept'
  BY DEF Contract!AckedTurnsKept
<1> QED
  BY <1>1, <1>2, <1>3, <1>4

\* An acknowledged put: every acknowledged turn of the session is in the copy
\* that replaces the row.
LEMMA ContractPutOk ==
  ASSUME ContractInv, NEW c \in Callers, Contract!PutOk(c) PROVE ContractInv'
<1> USE SentinelAssumption DEF ContractInv, Contract!PutOk, Contract!Accepted
<1> DEFINE s == held[c].session
<1>1. held[c] \in Contract!Copy /\ s \in Sessions
  BY DEF Contract!TypeOK, Contract!Copy
<1>2. /\ rows' \in [Sessions -> Contract!Row \cup {Absent}]
      /\ rows'[s] # Absent
      /\ rows'[s].doc = held[c].doc
      /\ \A x \in Sessions \ {s} : rows'[x] = rows[x]
  BY WrittenEffect
<1>3. /\ held'[c] \in Contract!Copy
      /\ held'[c] # None
      /\ held'[c].session = s
      /\ held'[c].doc = held[c].doc
      /\ \A d \in Callers \ {c} : held'[d] = held[d]
      /\ held' \in [Callers -> Contract!Copy \cup {None}]
  BY <1>1 DEF Contract!TypeOK, Contract!Copy
<1>4. acked' \in [Sessions -> SUBSET Turns]
  BY <1>1 DEF Contract!TypeOK, Contract!Copy
<1>5. Contract!TypeOK'
  BY <1>2, <1>3, <1>4 DEF Contract!TypeOK, Contract!Holders
<1>6. IdsMinted'
  BY <1>1, <1>2, <1>3 DEF IdsMinted, Contract!Exists
<1>7. CurrentCopiesExtendRows'
  <2> SUFFICES ASSUME NEW d \in Callers, held'[d] # None, d \notin stale',
                      rows'[held'[d].session] # Absent
               PROVE  rows'[held'[d].session].doc \subseteq held'[d].doc
    BY DEF CurrentCopiesExtendRows, Contract!Exists
  <2>1. CASE d = c
    BY <2>1, <1>2, <1>3
  <2>2. CASE d # c
    <3>1. held'[d] = held[d] /\ held[d].session # s /\ d \notin stale
      BY <2>2, <1>3 DEF Contract!Holders
    <3>2. held[d].session \in Sessions \ {s}
      BY <3>1 DEF Contract!TypeOK, Contract!Copy
    <3> QED
      BY <3>1, <3>2, <1>2 DEF CurrentCopiesExtendRows, Contract!Exists
  <2> QED
    BY <2>1, <2>2
<1>8. Contract!AckedTurnsKept'
  <2> SUFFICES ASSUME NEW x \in Sessions \ deleted', acked'[x] # {}
               PROVE  rows'[x] # Absent /\ acked'[x] \subseteq rows'[x].doc
    BY DEF Contract!AckedTurnsKept, Contract!Exists
  <2>1. CASE x = s
    <3>1. acked'[s] = acked[s] \cup held[c].doc
      BY <1>1 DEF Contract!TypeOK
    <3>2. acked[s] \subseteq held[c].doc
      BY <2>1, <1>1 DEF Contract!AckedTurnsKept, CurrentCopiesExtendRows, Contract!Exists
    <3> QED
      BY <2>1, <3>1, <3>2, <1>2
  <2>2. CASE x # s
    <3>1. acked'[x] = acked[x]
      BY <2>2 DEF Contract!TypeOK
    <3> QED
      BY <3>1, <2>2, <1>2 DEF Contract!AckedTurnsKept, Contract!Exists
  <2> QED
    BY <2>1, <2>2
<1> QED
  BY <1>5, <1>6, <1>7, <1>8

LEMMA ContractPutConflict ==
  ASSUME ContractInv, NEW c \in Callers, Contract!PutConflict(c) PROVE ContractInv'
<1> USE DEF ContractInv, Contract!PutConflict, Contract!Refused
<1>1. Contract!TypeOK'
  BY DEF Contract!TypeOK
<1> QED
  BY <1>1 DEF IdsMinted, CurrentCopiesExtendRows, Contract!AckedTurnsKept, Contract!Exists

\* A put that raised, with the write done or not.
LEMMA ContractPutError ==
  ASSUME ContractInv, NEW c \in Callers, Contract!PutError(c) PROVE ContractInv'
<1> USE SentinelAssumption DEF ContractInv, Contract!PutError
<1> DEFINE s == held[c].session
<1>1. CASE UNCHANGED <<rows, stale>>
  <2>1. Contract!TypeOK'
    BY <1>1 DEF Contract!TypeOK
  <2> QED
    BY <2>1, <1>1 DEF IdsMinted, CurrentCopiesExtendRows, Contract!AckedTurnsKept, Contract!Exists
<1>2. CASE /\ ~ Contract!Exists(s) \/ c \notin stale \/ s \in deleted
           /\ Contract!Written(c)
           /\ stale' = stale \cup Contract!Holders(s)
  <2>1. held[c] \in Contract!Copy /\ s \in Sessions
    BY DEF Contract!TypeOK, Contract!Copy
  <2>2. /\ rows' \in [Sessions -> Contract!Row \cup {Absent}]
        /\ rows'[s] # Absent
        /\ rows'[s].doc = held[c].doc
        /\ \A x \in Sessions \ {s} : rows'[x] = rows[x]
    BY <1>2, WrittenEffect
  <2>3. Contract!TypeOK'
    BY <1>2, <2>2 DEF Contract!TypeOK, Contract!Holders
  <2>4. IdsMinted'
    BY <2>2 DEF IdsMinted, Contract!Exists
  <2>5. CurrentCopiesExtendRows'
    <3> SUFFICES ASSUME NEW d \in Callers, held[d] # None, d \notin stale',
                        rows'[held[d].session] # Absent
                 PROVE  rows'[held[d].session].doc \subseteq held[d].doc
      BY DEF CurrentCopiesExtendRows, Contract!Exists
    <3>1. held[d].session \in Sessions \ {s} /\ d \notin stale
      BY <1>2 DEF Contract!Holders, Contract!TypeOK, Contract!Copy
    <3> QED
      BY <3>1, <2>2 DEF CurrentCopiesExtendRows, Contract!Exists
  <2>6. Contract!AckedTurnsKept'
    <3> SUFFICES ASSUME NEW x \in Sessions \ deleted, acked[x] # {}
                 PROVE  rows'[x] # Absent /\ acked[x] \subseteq rows'[x].doc
      BY DEF Contract!AckedTurnsKept, Contract!Exists
    <3>1. CASE x = s
      BY <3>1, <1>2, <2>1, <2>2
         DEF Contract!AckedTurnsKept, CurrentCopiesExtendRows, Contract!Exists
    <3>2. CASE x # s
      BY <3>2, <2>2 DEF Contract!AckedTurnsKept, Contract!Exists
    <3> QED
      BY <3>1, <3>2
  <2> QED
    BY <2>3, <2>4, <2>5, <2>6
<1> QED
  BY <1>1, <1>2

LEMMA ContractDelete ==
  ASSUME ContractInv, NEW s \in Sessions, Contract!Delete(s) PROVE ContractInv'
<1> USE SentinelAssumption DEF ContractInv, Contract!Delete
<1>1. Contract!TypeOK'
  BY DEF Contract!TypeOK, Contract!Holders
<1>2. IdsMinted'
  BY DEF IdsMinted, Contract!Exists, Contract!TypeOK
<1>3. CurrentCopiesExtendRows'
  BY DEF CurrentCopiesExtendRows, Contract!Exists, Contract!TypeOK, Contract!Copy
<1>4. Contract!AckedTurnsKept'
  BY DEF Contract!AckedTurnsKept, Contract!Exists, Contract!TypeOK
<1> QED
  BY <1>1, <1>2, <1>3, <1>4

LEMMA ContractNext == ContractInv /\ [Contract!Next]_(Contract!vars) => ContractInv'
<1> SUFFICES ASSUME ContractInv, [Contract!Next]_(Contract!vars) PROVE ContractInv'
  OBVIOUS
<1>1. ASSUME NEW c \in Callers, Contract!CallerStep(c) PROVE ContractInv'
  BY <1>1, ContractOpen, ContractGet, ContractWork, ContractPutOk, ContractPutConflict, ContractPutError,
     ContractRelease DEF Contract!CallerStep
<1>2. ASSUME NEW s \in Sessions, Contract!Delete(s) PROVE ContractInv'
  BY <1>2, ContractDelete
<1>3. CASE UNCHANGED Contract!vars
  BY <1>3 DEF Contract!vars, ContractInv, Contract!TypeOK, IdsMinted, CurrentCopiesExtendRows,
              Contract!AckedTurnsKept, Contract!Exists
<1> QED
  BY <1>1, <1>2, <1>3 DEF Contract!Next

\* Optimistic locking loses no update: by the contract, an acknowledged turn stays
\* stored until its session is deleted.
THEOREM ContractKeepsAckedTurns == Contract!Spec => []Contract!AckedTurnsKept
<1>1. ContractInv => Contract!AckedTurnsKept
  BY DEF ContractInv
<1> QED
  BY <1>1, ContractInit, ContractNext, PTL DEF Contract!Spec

-----------------------------------------------------------------------------
\* The versions of the contract: what a store can tell from them

\* The copy carries the version of the row (0 if there is none yet), or is behind.
UpToDate(c) ==
    LET row == rows[held[c].session]
    IN  held[c].version = IF row = Absent THEN 0 ELSE row.version

Overtaken(c) ==
    LET row == rows[held[c].session]
    IN  row # Absent /\ held[c].version < row.version

OnlyHoldersStale == \A c \in stale : held[c] # None

\* On a session that was never deleted, the version tells who was overwritten.
VersionsTellStaleness ==
    \A c \in Callers : held[c] # None =>
        /\ c \notin stale => UpToDate(c)
        /\ c \in stale => Overtaken(c) \/ held[c].session \in deleted

VersionInv == OnlyHoldersStale /\ VersionsTellStaleness

LEMMA VersionInit == Contract!Init => VersionInv
<1> SUFFICES ASSUME Contract!Init PROVE VersionInv
  OBVIOUS
<1>1. held = [c \in Callers |-> None] /\ stale = {}
  BY DEF Contract!Init
<1> QED
  BY <1>1 DEF VersionInv, OnlyHoldersStale, VersionsTellStaleness

\* The steps of a caller that leave the rows alone.
LEMMA VersionCopyStep ==
  ASSUME ContractInv, VersionInv, NEW c \in Callers,
         \/ \E s \in Sessions : Contract!Open(c, s) \/ Contract!Get(c, s)
         \/ \E t \in Turns : Contract!Work(c, t)
         \/ Contract!Release(c)
  PROVE  VersionInv'
<1> USE SentinelAssumption DEF ContractInv, VersionInv
<1>1. rows' = rows /\ deleted' = deleted
  BY DEF Contract!Open, Contract!Get, Contract!Work, Contract!Release
<1>2. \A d \in Callers \ {c} : held'[d] = held[d] /\ (d \in stale' <=> d \in stale)
  BY DEF Contract!TypeOK, Contract!Open, Contract!Get, Contract!Work, Contract!Release
<1>3. ASSUME NEW s \in Sessions, Contract!Open(c, s)
      PROVE  /\ c \notin stale'
             /\ held'[c].session = s /\ held'[c].version = 0 /\ rows[s] = Absent
  BY <1>3 DEF Contract!TypeOK, Contract!Open, OnlyHoldersStale, IdsMinted, Contract!Exists
<1>4. ASSUME NEW s \in Sessions, Contract!Get(c, s)
      PROVE  /\ c \notin stale'
             /\ held'[c].session = s /\ rows[s] # Absent
             /\ held'[c].version = rows[s].version
  BY <1>4 DEF Contract!TypeOK, Contract!Get, OnlyHoldersStale, Contract!Exists
<1>5. ASSUME NEW t \in Turns, Contract!Work(c, t)
      PROVE  /\ stale' = stale /\ held[c] # None /\ held'[c] # None
             /\ held'[c].session = held[c].session
             /\ held'[c].version = held[c].version
  <2>1. held[c] \in Contract!Copy /\ held[c] # None
    BY <1>5 DEF Contract!TypeOK, Contract!Work
  <2>2. [held[c] EXCEPT !.doc = @ \cup {t}] \in Contract!Copy
    BY <2>1 DEF Contract!Copy
  <2>3. held'[c] = [held[c] EXCEPT !.doc = @ \cup {t}]
    BY <1>5 DEF Contract!TypeOK, Contract!Work
  <2> QED
    BY <1>5, <2>1, <2>2, <2>3 DEF Contract!Work, Contract!Copy
<1>6. ASSUME Contract!Release(c)
      PROVE  held'[c] = None /\ c \notin stale'
  BY <1>6 DEF Contract!TypeOK, Contract!Release
<1>7. stale' \subseteq stale
  BY DEF Contract!Open, Contract!Get, Contract!Work, Contract!Release
<1>8. OnlyHoldersStale'
  <2> SUFFICES ASSUME NEW d \in stale' PROVE held'[d] # None
    BY DEF OnlyHoldersStale
  <2>1. d \in Callers /\ held[d] # None
    BY <1>7 DEF Contract!TypeOK, OnlyHoldersStale
  <2>2. CASE d # c
    BY <1>2, <2>1, <2>2
  <2>3. CASE d = c
    BY <1>3, <1>4, <1>5, <1>6, <2>3
  <2> QED
    BY <2>2, <2>3
<1>9. ASSUME NEW d \in Callers, held'[d] # None
      PROVE  /\ d \notin stale' => UpToDate(d)'
             /\ d \in stale' => Overtaken(d)' \/ held'[d].session \in deleted'
  <2>1. CASE d # c
    BY <1>1, <1>2, <1>9, <2>1 DEF VersionsTellStaleness, UpToDate, Overtaken
  <2>2. CASE d = c
    <3>1. ASSUME NEW s \in Sessions, Contract!Open(c, s) \/ Contract!Get(c, s)
          PROVE  c \notin stale' /\ UpToDate(c)'
      BY <1>1, <1>3, <1>4, <3>1 DEF UpToDate
    <3>2. ASSUME NEW t \in Turns, Contract!Work(c, t)
          PROVE  /\ c \notin stale' => UpToDate(c)'
                 /\ c \in stale' => Overtaken(c)' \/ held'[c].session \in deleted'
      BY <1>1, <1>5, <3>2 DEF VersionsTellStaleness, UpToDate, Overtaken
    <3> QED
      BY <1>6, <1>9, <2>2, <3>1, <3>2
  <2> QED
    BY <2>1, <2>2
<1> QED
  BY <1>8, <1>9 DEF VersionsTellStaleness

\* A write the contract allows moves the row above every other copy of it.
LEMMA WrittenOvertakes ==
  ASSUME ContractInv, VersionInv, NEW c \in Callers, held[c] # None, Contract!Written(c),
         \/ ~ Contract!Exists(held[c].session)
         \/ c \notin stale
         \/ held[c].session \in deleted
  PROVE  /\ rows'[held[c].session] # Absent
         /\ rows'[held[c].session].version = held[c].version + 1
         /\ \A x \in Sessions \ {held[c].session} : rows'[x] = rows[x]
         /\ \A d \in Callers : held[d] # None /\ held[d].session = held[c].session =>
               \/ held[d].version < held[c].version + 1
               \/ held[c].session \in deleted
<1> USE SentinelAssumption, MaxVersionAssumption DEF ContractInv, VersionInv
<1> DEFINE s == held[c].session
<1>1. held[c] \in Contract!Copy /\ s \in Sessions /\ held[c].version \in Nat
  BY DEF Contract!TypeOK, Contract!Copy
<1>2. [version |-> held[c].version + 1, doc |-> held[c].doc] \in Contract!Row
  BY <1>1 DEF Contract!Row, Contract!Copy
<1>3. /\ rows'[s] = [version |-> held[c].version + 1, doc |-> held[c].doc]
      /\ \A x \in Sessions \ {s} : rows'[x] = rows[x]
  BY <1>1 DEF Contract!TypeOK, Contract!Written
<1>4. /\ rows'[s] # Absent
      /\ rows'[s].version = held[c].version + 1
  BY <1>2, <1>3 DEF Contract!Row
<1>5. ASSUME NEW d \in Callers, held[d] # None, held[d].session = s, s \notin deleted
      PROVE  held[d].version < held[c].version + 1
  <2>1. held[d].version \in Nat
    BY <1>5 DEF Contract!TypeOK, Contract!Copy
  <2>2. CASE rows[s] = Absent
    BY <1>1, <1>5, <2>2 DEF VersionsTellStaleness, UpToDate, Overtaken
  <2>3. CASE rows[s] # Absent
    <3>1. rows[s].version \in Nat
      BY <1>1, <2>3 DEF Contract!TypeOK, Contract!Row
    <3>2. held[c].version = rows[s].version
      BY <1>1, <1>5, <2>3 DEF VersionsTellStaleness, UpToDate, Contract!Exists
    <3>3. held[d].version <= rows[s].version
      BY <1>1, <1>5, <2>1, <2>3, <3>1 DEF VersionsTellStaleness, UpToDate, Overtaken
    <3> QED
      BY <1>1, <2>1, <3>1, <3>2, <3>3
  <2> QED
    BY <2>2, <2>3
<1> QED
  BY <1>3, <1>4, <1>5

LEMMA VersionPutOk ==
  ASSUME ContractInv, VersionInv, NEW c \in Callers, Contract!PutOk(c)
  PROVE  VersionInv'
<1> USE DEF VersionInv
<1> DEFINE s == held[c].session
<1>1. /\ held[c] \in Contract!Copy /\ held[c] # None
      /\ s \in Sessions /\ held[c].version \in Nat
  BY DEF Contract!PutOk, ContractInv, Contract!TypeOK, Contract!Copy
<1>2. /\ rows'[s] # Absent
      /\ rows'[s].version = held[c].version + 1
      /\ \A x \in Sessions \ {s} : rows'[x] = rows[x]
      /\ \A d \in Callers : held[d] # None /\ held[d].session = s =>
            held[d].version < held[c].version + 1 \/ s \in deleted
  BY WrittenOvertakes DEF Contract!PutOk, Contract!Accepted
<1>3. /\ held'[c] \in Contract!Copy
      /\ held'[c].session = s
      /\ held'[c].version = held[c].version + 1
      /\ \A d \in Callers \ {c} : held'[d] = held[d]
  BY <1>1 DEF Contract!PutOk, Contract!Accepted, ContractInv, Contract!TypeOK, Contract!Copy
<1>4. /\ stale' = (stale \cup Contract!Holders(s)) \ {c}
      /\ deleted' = deleted
  BY DEF Contract!PutOk, Contract!Accepted
<1>5. OnlyHoldersStale'
  <2> SUFFICES ASSUME NEW d \in stale' PROVE held'[d] # None
    BY DEF OnlyHoldersStale
  <2>1. d \in Callers \ {c} /\ held[d] # None
    BY <1>4 DEF OnlyHoldersStale, Contract!Holders, ContractInv, Contract!TypeOK
  <2> QED
    BY <1>3, <2>1
<1>6. ASSUME NEW d \in Callers, held'[d] # None
      PROVE  /\ d \notin stale' => UpToDate(d)'
             /\ d \in stale' => Overtaken(d)' \/ held'[d].session \in deleted'
  <2>1. CASE d = c
    BY <1>2, <1>3, <1>4, <2>1 DEF UpToDate
  <2>2. CASE d # c /\ held[d].session = s
    <3>1. held'[d] = held[d] /\ d \in stale'
      BY <1>3, <1>4, <1>6, <2>2 DEF Contract!Holders
    <3>2. held[d].version < held[c].version + 1 \/ s \in deleted
      BY <1>2, <1>6, <2>2, <3>1
    <3> QED
      BY <1>2, <1>4, <2>2, <3>1, <3>2 DEF Overtaken
  <2>3. CASE d # c /\ held[d].session # s
    <3>1. held'[d] = held[d] /\ (d \in stale' <=> d \in stale)
      BY <1>3, <1>4, <2>3 DEF Contract!Holders
    <3>2. held[d].session \in Sessions \ {s}
      BY <1>6, <2>3, <3>1 DEF ContractInv, Contract!TypeOK, Contract!Copy
    <3>3. rows'[held[d].session] = rows[held[d].session]
      BY <1>2, <3>2
    <3> QED
      BY <1>4, <1>6, <3>1, <3>3 DEF VersionsTellStaleness, UpToDate, Overtaken
  <2> QED
    BY <2>1, <2>2, <2>3
<1> QED
  BY <1>5, <1>6 DEF VersionsTellStaleness

LEMMA VersionPutError ==
  ASSUME ContractInv, VersionInv, NEW c \in Callers, Contract!PutError(c)
  PROVE  VersionInv'
<1> USE DEF VersionInv
<1> DEFINE s == held[c].session
<1>1. held' = held /\ deleted' = deleted
  BY DEF Contract!PutError
<1>2. CASE UNCHANGED <<rows, stale>>
  BY <1>1, <1>2 DEF OnlyHoldersStale, VersionsTellStaleness, UpToDate, Overtaken
<1>3. CASE /\ ~ Contract!Exists(s) \/ c \notin stale \/ s \in deleted
           /\ Contract!Written(c)
           /\ stale' = stale \cup Contract!Holders(s)
  <2>1. held[c] # None
    BY DEF Contract!PutError
  <2>2. /\ rows'[s] # Absent
        /\ rows'[s].version = held[c].version + 1
        /\ \A x \in Sessions \ {s} : rows'[x] = rows[x]
        /\ \A d \in Callers : held[d] # None /\ held[d].session = s =>
              held[d].version < held[c].version + 1 \/ s \in deleted
    BY <1>3, <2>1, WrittenOvertakes
  <2>3. OnlyHoldersStale'
    BY <1>1, <1>3 DEF OnlyHoldersStale, Contract!Holders
  <2>4. ASSUME NEW d \in Callers, held[d] # None
        PROVE  /\ d \notin stale' => UpToDate(d)'
               /\ d \in stale' => Overtaken(d)' \/ held[d].session \in deleted
    <3>1. CASE held[d].session = s
      <4>1. d \in stale'
        BY <1>3, <2>4, <3>1 DEF Contract!Holders
      <4> QED
        BY <1>1, <2>2, <2>4, <3>1, <4>1 DEF Overtaken
    <3>2. CASE held[d].session # s
      <4>1. d \in stale' <=> d \in stale
        BY <1>3, <3>2 DEF Contract!Holders
      <4>2. held[d].session \in Sessions \ {s}
        BY <2>4, <3>2 DEF ContractInv, Contract!TypeOK, Contract!Copy
      <4>3. rows'[held[d].session] = rows[held[d].session]
        BY <2>2, <4>2
      <4> QED
        BY <1>1, <2>4, <4>1, <4>3 DEF VersionsTellStaleness, UpToDate, Overtaken
    <3> QED
      BY <3>1, <3>2
  <2> QED
    BY <1>1, <2>3, <2>4 DEF VersionsTellStaleness
<1> QED
  BY <1>2, <1>3 DEF Contract!PutError

LEMMA VersionDelete ==
  ASSUME ContractInv, VersionInv, NEW s \in Sessions, Contract!Delete(s)
  PROVE  VersionInv'
<1> USE DEF VersionInv, Contract!Delete
<1>1. \A x \in Sessions \ {s} : rows'[x] = rows[x]
  BY DEF ContractInv, Contract!TypeOK
<1>2. OnlyHoldersStale'
  BY DEF OnlyHoldersStale, Contract!Holders
<1>3. ASSUME NEW d \in Callers, held[d] # None
      PROVE  /\ d \notin stale' => UpToDate(d)'
             /\ d \in stale' => Overtaken(d)' \/ held[d].session \in deleted'
  <2>1. CASE held[d].session = s
    BY <1>3, <2>1 DEF Contract!Holders
  <2>2. CASE held[d].session # s
    <3>1. d \in stale' <=> d \in stale
      BY <2>2 DEF Contract!Holders
    <3>2. held[d].session \in Sessions \ {s}
      BY <1>3, <2>2 DEF ContractInv, Contract!TypeOK, Contract!Copy
    <3> QED
      BY <1>1, <1>3, <3>1, <3>2 DEF VersionsTellStaleness, UpToDate, Overtaken
  <2> QED
    BY <2>1, <2>2
<1> QED
  BY <1>2, <1>3 DEF VersionsTellStaleness

LEMMA VersionNext ==
  ContractInv /\ VersionInv /\ [Contract!Next]_(Contract!vars) => VersionInv'
<1> SUFFICES ASSUME ContractInv, VersionInv, [Contract!Next]_(Contract!vars)
             PROVE  VersionInv'
  OBVIOUS
<1>1. ASSUME NEW c \in Callers, Contract!PutConflict(c) PROVE VersionInv'
  BY <1>1 DEF Contract!PutConflict, Contract!Refused, VersionInv, OnlyHoldersStale,
              VersionsTellStaleness, UpToDate, Overtaken
<1>2. ASSUME NEW c \in Callers, Contract!CallerStep(c) PROVE VersionInv'
  BY <1>1, <1>2, VersionCopyStep, VersionPutOk, VersionPutError DEF Contract!CallerStep
<1>3. ASSUME NEW s \in Sessions, Contract!Delete(s) PROVE VersionInv'
  BY <1>3, VersionDelete
<1>4. CASE UNCHANGED Contract!vars
  BY <1>4 DEF Contract!vars, VersionInv, OnlyHoldersStale, VersionsTellStaleness,
              UpToDate, Overtaken
<1> QED
  BY <1>2, <1>3, <1>4 DEF Contract!Next

-----------------------------------------------------------------------------
\* The transactions

StepType ==
    /\ step \in [Callers -> Steps]
    /\ owner \in [Sessions -> Callers \cup {None}]

\* What a handler in the middle of a put still knows of the row it read: gone or
\* there as it was, unless somebody wrote, which makes its copy stale.
PutKnows(c) ==
    /\ ~ Idle(c) => held[c] # None
    /\ step[c] = "insert" => rows[Target(c)] = Absent \/ c \in stale
    /\ step[c] = "update" => rows[Target(c)] # Absent \/ c \in stale
PutsKnow == \A c \in Callers : PutKnows(c)

CommitSees(c) ==
    step[c] = "commit" =>
        /\ owner[Target(c)] = c
        /\ rows[Target(c)] # Absent => rows[Target(c)].version = held[c].version

Inv == ContractInv /\ VersionInv /\ StepType /\ PutsKnow /\ CommitSeesItsRow

LEMMA InitInv == Init => Inv
<1> SUFFICES ASSUME Init PROVE Inv
  OBVIOUS
<1>1. ContractInv /\ VersionInv
  BY ContractInit, VersionInit DEF Init
<1>2. StepType
  BY DEF Init, StepType, Steps
<1>3. \A c \in Callers : step[c] = "idle"
  BY DEF Init
<1> QED
  BY <1>1, <1>2, <1>3 DEF Inv, PutsKnow, PutKnows, CommitSeesItsRow, Idle

\* A statement that finds another version, or a row where there was none, refuses
\* a copy that is stale indeed.
LEMMA ConflictsAreReal ==
  ASSUME Inv, NEW c \in Callers, held[c] # None, Contract!Refused(c),
         \/ rows[Target(c)] # Absent /\ rows[Target(c)].version # held[c].version
         \/ c \in stale
  PROVE  Contract!PutConflict(c)
<1>1. c \in stale
  BY DEF Inv, VersionInv, VersionsTellStaleness, UpToDate, Target
<1> QED
  BY <1>1 DEF Contract!PutConflict

\* A transaction that commits is one the contract accepts.
LEMMA CommitsAreAllowed ==
  ASSUME Inv, NEW c \in Callers, step[c] = "commit"
  PROVE  /\ held[c] # None
         /\ \/ ~ Contract!Exists(held[c].session)
            \/ c \notin stale
            \/ held[c].session \in deleted
<1>1. held[c] # None
  BY DEF Inv, PutsKnow, PutKnows, Idle
<1>2. held[c].version \in Nat
  BY <1>1 DEF Inv, ContractInv, Contract!TypeOK, Contract!Copy
<1>3. ~ Overtaken(c)
  BY <1>2 DEF Inv, CommitSeesItsRow, Overtaken, Target
<1> QED
  BY <1>1, <1>3 DEF Inv, VersionInv, VersionsTellStaleness

\* Every step of the store is one of the contract, or none that it sees.
LEMMA NextImplements == Inv /\ [Next]_vars => [Contract!Next]_(Contract!vars)
<1> SUFFICES ASSUME Inv, [Next]_vars PROVE [Contract!Next]_(Contract!vars)
  OBVIOUS
<1> DEFINE unseen == UNCHANGED contractVars
<1>1. unseen => UNCHANGED Contract!vars
  BY DEF contractVars, Contract!vars
<1>2. ASSUME NEW c \in Callers, NEW s \in Sessions, Open(c, s) \/ get(c, s)
      PROVE  Contract!CallerStep(c)
  BY <1>2 DEF Open, get, Contract!CallerStep
<1>3. ASSUME NEW c \in Callers, NEW t \in Turns, Work(c, t)
      PROVE  Contract!CallerStep(c)
  BY <1>3 DEF Work, Contract!CallerStep
<1>4. ASSUME NEW c \in Callers, Release(c)
      PROVE  Contract!CallerStep(c)
  BY <1>4 DEF Release, Contract!CallerStep
<1>5. ASSUME NEW c \in Callers, SelectVersion(c)
      PROVE  unseen \/ Contract!CallerStep(c)
  BY <1>5, ConflictsAreReal DEF SelectVersion, Conflict, Contract!CallerStep
<1>6. ASSUME NEW c \in Callers, Insert(c)
      PROVE  unseen \/ Contract!CallerStep(c)
  <2>1. CASE TakeRow(c)
    BY <2>1 DEF TakeRow
  <2>2. CASE rows[Target(c)] # Absent /\ Conflict(c)
    <3>1. held[c] # None /\ c \in stale
      BY <1>6, <2>2 DEF Insert, Inv, PutsKnow, PutKnows, Idle
    <3> QED
      BY <2>2, <3>1, ConflictsAreReal DEF Conflict, Contract!CallerStep
  <2> QED
    BY <1>6, <2>1, <2>2 DEF Insert
<1>7. ASSUME NEW c \in Callers, Update(c)
      PROVE  unseen \/ Contract!CallerStep(c)
  <2>1. CASE TakeRow(c)
    BY <2>1 DEF TakeRow
  <2>2. CASE ~ UpdateMatches(c) /\ Conflict(c)
    <3>1. held[c] # None /\ (rows[Target(c)] # Absent \/ c \in stale)
      BY <1>7 DEF Update, Inv, PutsKnow, PutKnows, Idle
    <3> QED
      BY <2>2, <3>1, ConflictsAreReal DEF UpdateMatches, Conflict, Contract!CallerStep
  <2> QED
    BY <1>7, <2>1, <2>2 DEF Update
<1>8. ASSUME NEW c \in Callers, Commit(c)
      PROVE  Contract!CallerStep(c)
  BY <1>8, CommitsAreAllowed DEF Commit, Contract!PutOk, Contract!CallerStep
<1>9. ASSUME NEW c \in Callers, CommitUnacknowledged(c)
      PROVE  Contract!CallerStep(c)
  BY <1>9, CommitsAreAllowed
  DEF CommitUnacknowledged, Target, Contract!PutError, Contract!CallerStep
<1>10. ASSUME NEW c \in Callers, Abort(c)
       PROVE  Contract!CallerStep(c)
  <2>1. held[c] # None
    BY <1>10 DEF Abort, Inv, PutsKnow, PutKnows
  <2> QED
    BY <1>10, <2>1 DEF Abort, Contract!PutError, Contract!CallerStep
<1>11. CASE UNCHANGED vars
  BY <1>1, <1>11 DEF vars
<1> HIDE DEF unseen
<1>12. CASE Next
  BY <1>1, <1>2, <1>3, <1>4, <1>5, <1>6, <1>7, <1>8, <1>9, <1>10, <1>12
  DEF Next, PutStep, delete, Contract!Next
<1> QED
  BY <1>11, <1>12

\* What holds of every handler's put holds of the store.
LEMMA EachPutInv ==
  ASSUME StepType', \A d \in Callers : PutKnows(d)' /\ CommitSees(d)'
  PROVE  StepType' /\ PutsKnow' /\ CommitSeesItsRow'
  BY DEF PutsKnow, CommitSeesItsRow, CommitSees

\* A handler whose copy, row and transaction a step leaves alone is none the wiser,
\* if it stays as stale as it was or becomes stale.
LEMMA Bystander ==
  ASSUME Inv, NEW d \in Callers,
         held'[d] = held[d], step'[d] = step[d], d \in stale => d \in stale',
         held[d] # None => rows'[Target(d)] = rows[Target(d)],
         step[d] = "commit" => owner'[Target(d)] = owner[Target(d)]
  PROVE  PutKnows(d)' /\ CommitSees(d)'
<1>1. PutKnows(d) /\ CommitSees(d)
  BY DEF Inv, PutsKnow, CommitSeesItsRow, CommitSees
<1>2. step[d] # "idle" => held[d] # None
  BY <1>1 DEF PutKnows, Idle
<1>3. PutKnows(d)'
  BY <1>1, <1>2 DEF PutKnows, Idle, Target
<1>4. CommitSees(d)'
  BY <1>1, <1>2 DEF CommitSees, Target
<1> QED
  BY <1>3, <1>4

\* A handler outside put has nothing to be wrong about.
LEMMA Outsider ==
  ASSUME NEW d, step'[d] = "idle"
  PROVE  PutKnows(d)' /\ CommitSees(d)'
  BY DEF PutKnows, CommitSees, Idle

\* What an idle handler does to its copy.
LEMMA CopyStepInv ==
  ASSUME Inv, NEW c \in Callers,
         \/ \E s \in Sessions : Open(c, s) \/ get(c, s)
         \/ \E t \in Turns : Work(c, t)
         \/ Release(c)
  PROVE  StepType' /\ PutsKnow' /\ CommitSeesItsRow'
<1>1. /\ step' = step /\ owner' = owner /\ rows' = rows /\ step[c] = "idle"
      /\ \A d \in Callers \ {c} : held'[d] = held[d] /\ (d \in stale => d \in stale')
  BY DEF Open, get, Work, Release, Contract!Open, Contract!Get, Contract!Work,
         Contract!Release, Idle, Inv, ContractInv, Contract!TypeOK
<1>2. StepType'
  BY <1>1 DEF Inv, StepType
<1>3. ASSUME NEW d \in Callers PROVE PutKnows(d)' /\ CommitSees(d)'
  <2>1. CASE d = c
    BY <1>1, <2>1, Outsider
  <2>2. CASE d # c
    BY <1>1, <2>2, Bystander
  <2> QED
    BY <2>1, <2>2
<1> QED
  BY <1>2, <1>3, EachPutInv

\* A step of a put that moves it on without touching the table or a lock.
LEMMA GotoInv ==
  ASSUME Inv, NEW c \in Callers, NEW next \in Steps, Goto(c, next),
         UNCHANGED <<rows, held, stale>>,
         \A d \in Callers \ {c} : step[d] = "commit" => owner'[Target(d)] = owner[Target(d)],
         owner' \in [Sessions -> Callers \cup {None}],
         PutKnows(c)' /\ CommitSees(c)'
  PROVE  StepType' /\ PutsKnow' /\ CommitSeesItsRow'
<1>1. /\ step' \in [Callers -> Steps]
      /\ \A d \in Callers \ {c} : step'[d] = step[d]
  BY DEF Goto, Inv, StepType
<1>2. ASSUME NEW d \in Callers \ {c} PROVE PutKnows(d)' /\ CommitSees(d)'
  BY <1>1, Bystander
<1> QED
  BY <1>1, <1>2, EachPutInv DEF StepType

LEMMA GotoIdle ==
  ASSUME Inv, NEW c \in Callers, Goto(c, "idle"), UNCHANGED <<rows, held, stale>>,
         \A d \in Callers \ {c} : step[d] = "commit" => owner'[Target(d)] = owner[Target(d)],
         owner' \in [Sessions -> Callers \cup {None}]
  PROVE  StepType' /\ PutsKnow' /\ CommitSeesItsRow'
<1>1. step'[c] = "idle" /\ "idle" \in Steps
  BY DEF Goto, Inv, StepType, Steps
<1> QED
  BY <1>1, Outsider, GotoInv

LEMMA SelectInv ==
  ASSUME Inv, NEW c \in Callers, SelectVersion(c)
  PROVE  StepType' /\ PutsKnow' /\ CommitSeesItsRow'
<1>1. /\ held[c] # None /\ owner' = owner
      /\ owner \in [Sessions -> Callers \cup {None}]
      /\ step \in [Callers -> Steps]
  BY DEF SelectVersion, Inv, StepType
<1>2. CASE rows[Target(c)] = Absent /\ Goto(c, "insert") /\ UNCHANGED contractVars
  <2>1. step'[c] = "insert" /\ "insert" \in Steps /\ UNCHANGED <<rows, held, stale>>
    BY <1>1, <1>2 DEF Goto, Steps, contractVars
  <2>2. PutKnows(c)' /\ CommitSees(c)'
    BY <1>1, <1>2, <2>1 DEF PutKnows, CommitSees, Target
  <2> QED
    BY <1>1, <1>2, <2>1, <2>2, GotoInv
<1>3. CASE rows[Target(c)] # Absent /\ Goto(c, "update") /\ UNCHANGED contractVars
  <2>1. step'[c] = "update" /\ "update" \in Steps /\ UNCHANGED <<rows, held, stale>>
    BY <1>1, <1>3 DEF Goto, Steps, contractVars
  <2>2. PutKnows(c)' /\ CommitSees(c)'
    BY <1>1, <1>3, <2>1 DEF PutKnows, CommitSees, Target
  <2> QED
    BY <1>1, <1>3, <2>1, <2>2, GotoInv
<1>4. CASE Conflict(c)
  BY <1>1, <1>4, GotoIdle DEF Conflict, Contract!Refused
<1> QED
  BY <1>2, <1>3, <1>4 DEF SelectVersion

\* The statement gets the row: no other transaction holds it.
LEMMA TakeRowInv ==
  ASSUME Inv, NEW c \in Callers, TakeRow(c), held[c] # None,
         rows[Target(c)] # Absent => rows[Target(c)].version = held[c].version
  PROVE  StepType' /\ PutsKnow' /\ CommitSeesItsRow'
<1>1. /\ owner \in [Sessions -> Callers \cup {None}]
      /\ step \in [Callers -> Steps] /\ Target(c) \in Sessions
  BY DEF Inv, StepType, ContractInv, Contract!TypeOK, Contract!Copy, Target
<1>2. /\ owner[Target(c)] = None
      /\ owner' = [owner EXCEPT ![Target(c)] = c]
      /\ Goto(c, "commit")
      /\ UNCHANGED <<rows, held, stale>>
  BY DEF TakeRow, Unlocked, Lock, contractVars
<1>3. step'[c] = "commit" /\ "commit" \in Steps
  BY <1>1, <1>2 DEF Goto, Steps
<1>4. ASSUME NEW d \in Callers \ {c}, step[d] = "commit"
      PROVE  owner'[Target(d)] = owner[Target(d)]
  <2>1. owner[Target(d)] = d
    BY <1>4 DEF Inv, CommitSeesItsRow
  <2>2. Target(d) # Target(c)
    BY <1>2, <2>1, OwnerAssumption
  <2> QED
    BY <1>1, <1>2, <2>2
<1>5. PutKnows(c)'
  BY <1>2, <1>3 DEF PutKnows, Target
<1>6. CommitSees(c)'
  BY <1>1, <1>2 DEF CommitSees, Target
<1>7. owner' \in [Sessions -> Callers \cup {None}]
  BY <1>1, <1>2
<1> QED
  BY <1>2, <1>3, <1>4, <1>5, <1>6, <1>7, GotoInv

LEMMA StatementInv ==
  ASSUME Inv, NEW c \in Callers, Insert(c) \/ Update(c)
  PROVE  StepType' /\ PutsKnow' /\ CommitSeesItsRow'
<1>1. held[c] # None
  BY DEF Insert, Update, Inv, PutsKnow, PutKnows, Idle
<1>2. CASE /\ TakeRow(c)
           /\ rows[Target(c)] # Absent => rows[Target(c)].version = held[c].version
  BY <1>1, <1>2, TakeRowInv
<1>3. CASE Conflict(c) /\ UNCHANGED owner
  BY <1>3, GotoIdle DEF Conflict, Contract!Refused, Inv, StepType
<1> QED
  BY <1>2, <1>3 DEF Insert, Update, UpdateMatches

\* The end of a transaction frees its own rows only.
LEMMA UnlockKeepsOthers ==
  ASSUME Inv, NEW c \in Callers, Unlock(c)
  PROVE  /\ owner' \in [Sessions -> Callers \cup {None}]
         /\ \A d \in Callers \ {c} :
               step[d] = "commit" => owner'[Target(d)] = owner[Target(d)]
<1>1. owner \in [Sessions -> Callers \cup {None}]
  BY DEF Inv, StepType
<1>2. owner' \in [Sessions -> Callers \cup {None}]
  BY <1>1 DEF Unlock
<1>3. ASSUME NEW d \in Callers \ {c}, step[d] = "commit"
      PROVE  owner'[Target(d)] = owner[Target(d)]
  <2>1. owner[Target(d)] = d /\ held[d] # None
    BY <1>3 DEF Inv, CommitSeesItsRow, PutsKnow, PutKnows, Idle
  <2>2. Target(d) \in Sessions
    BY <2>1 DEF Inv, ContractInv, Contract!TypeOK, Contract!Copy, Target
  <2> QED
    BY <2>1, <2>2 DEF Unlock
<1> QED
  BY <1>2, <1>3

LEMMA AbortInv ==
  ASSUME Inv, NEW c \in Callers, Abort(c)
  PROVE  StepType' /\ PutsKnow' /\ CommitSeesItsRow'
  BY UnlockKeepsOthers, GotoIdle DEF Abort

\* A commit makes every other copy of its session stale, and no other transaction
\* was about to commit that session.
LEMMA CommitInv ==
  ASSUME Inv, NEW c \in Callers, Commit(c) \/ CommitUnacknowledged(c)
  PROVE  StepType' /\ PutsKnow' /\ CommitSeesItsRow'
<1> DEFINE s == Target(c)
<1>1. /\ step[c] = "commit" /\ Goto(c, "idle") /\ Unlock(c)
      /\ Contract!Written(c)
      /\ stale \cup Contract!Holders(s) \subseteq stale' \cup {c}
      /\ \A d \in Callers \ {c} : held'[d] = held[d]
  BY DEF Commit, CommitUnacknowledged, Contract!Accepted, Inv, ContractInv,
         Contract!TypeOK, Target
<1>2. step \in [Callers -> Steps] /\ "idle" \in Steps
  BY DEF Inv, StepType, Steps
<1>3. /\ step' \in [Callers -> Steps] /\ step'[c] = "idle"
      /\ \A d \in Callers \ {c} : step'[d] = step[d]
  BY <1>1, <1>2 DEF Goto
<1>4. owner[s] = c
  BY <1>1 DEF Inv, CommitSeesItsRow
<1>5. \A x \in Sessions \ {s} : rows'[x] = rows[x]
  BY <1>1 DEF Contract!Written, Inv, ContractInv, Contract!TypeOK, Target
<1>6. StepType'
  BY <1>1, <1>3, UnlockKeepsOthers DEF StepType
<1>7. ASSUME NEW d \in Callers PROVE PutKnows(d)' /\ CommitSees(d)'
  <2>1. CASE d = c
    BY <1>3, <2>1, Outsider
  <2>2. CASE d # c /\ (held[d] = None \/ Target(d) # s)
    <3>1. held[d] # None => Target(d) \in Sessions \ {s}
      BY <2>2 DEF Inv, ContractInv, Contract!TypeOK, Contract!Copy, Target
    <3>2. held[d] # None => rows'[Target(d)] = rows[Target(d)]
      BY <1>5, <3>1
    <3> HIDE DEF s
    <3> QED
      BY <1>1, <1>3, <2>2, <3>2, UnlockKeepsOthers, Bystander
  <2>3. CASE d # c /\ held[d] # None /\ Target(d) = s
    <3>1. d \in stale'
      BY <1>1, <2>3 DEF Contract!Holders, Target
    <3>2. step[d] # "commit"
      BY <1>4, <2>3 DEF Inv, CommitSeesItsRow
    <3> QED
      BY <1>1, <1>3, <2>3, <3>1, <3>2 DEF PutKnows, CommitSees, Idle
  <2> QED
    BY <2>1, <2>2, <2>3
<1> QED
  BY <1>6, <1>7, EachPutInv

\* A delete waits for the transaction that holds the row.
LEMMA DeleteInv ==
  ASSUME Inv, NEW s \in Sessions, delete(s)
  PROVE  StepType' /\ PutsKnow' /\ CommitSeesItsRow'
<1>1. /\ owner[s] = None /\ UNCHANGED <<step, owner, held>>
      /\ rows' = [rows EXCEPT ![s] = Absent]
      /\ stale' = stale \cup Contract!Holders(s)
  BY DEF delete, Unlocked, Contract!Delete
<1>2. \A x \in Sessions \ {s} : rows'[x] = rows[x]
  BY <1>1 DEF Inv, ContractInv, Contract!TypeOK
<1>3. StepType'
  BY <1>1 DEF Inv, StepType
<1>4. ASSUME NEW d \in Callers PROVE PutKnows(d)' /\ CommitSees(d)'
  <2>1. CASE held[d] = None \/ Target(d) # s
    <3>1. held[d] # None => Target(d) \in Sessions \ {s}
      BY <2>1 DEF Inv, ContractInv, Contract!TypeOK, Contract!Copy, Target
    <3>2. held[d] # None => rows'[Target(d)] = rows[Target(d)]
      BY <1>2, <3>1
    <3> QED
      BY <1>1, <3>2, Bystander
  <2>2. CASE held[d] # None /\ Target(d) = s
    <3>1. d \in stale'
      BY <1>1, <2>2 DEF Contract!Holders, Target
    <3>2. step[d] # "commit"
      BY <1>1, <2>2, OwnerAssumption DEF Inv, CommitSeesItsRow
    <3> QED
      BY <1>1, <2>2, <3>1, <3>2 DEF PutKnows, CommitSees, Idle
  <2> QED
    BY <2>1, <2>2
<1> QED
  BY <1>3, <1>4, EachPutInv

LEMMA NextInv == Inv /\ [Next]_vars => Inv'
<1> SUFFICES ASSUME Inv, [Next]_vars PROVE Inv'
  OBVIOUS
<1>1. ContractInv' /\ VersionInv'
  BY NextImplements, ContractNext, VersionNext DEF Inv
<1>2. CASE Next
  <2>1. StepType' /\ PutsKnow' /\ CommitSeesItsRow'
    BY <1>2, CopyStepInv, SelectInv, StatementInv, CommitInv, AbortInv, DeleteInv
    DEF Next, PutStep
  <2> QED
    BY <1>1, <2>1 DEF Inv
<1>3. CASE UNCHANGED vars
  <2>1. StepType' /\ PutsKnow' /\ CommitSeesItsRow'
    BY <1>3 DEF vars, contractVars, Inv, StepType, PutsKnow, PutKnows, CommitSeesItsRow,
                Idle, Target
  <2> QED
    BY <1>1, <2>1 DEF Inv
<1> QED
  BY <1>2, <1>3

THEOREM InvHolds == Spec => []Inv
  BY InitInv, NextInv, PTL DEF Spec

\* Every reachable state of the store is well typed.
THEOREM TypeCorrect == Spec => []TypeOK
<1>1. Inv => TypeOK
  BY DEF Inv, ContractInv, StepType, TypeOK
<1> QED
  BY <1>1, InvHolds, PTL

\* A transaction about to commit holds the row, and finds it as its statement did.
THEOREM CommitsSeeTheirRows == Spec => []CommitSeesItsRow
<1>1. Inv => CommitSeesItsRow
  BY DEF Inv
<1> QED
  BY <1>1, InvHolds, PTL

\* PostgresSessionStore implements the session-store contract, whatever runs
\* between SELECT, INSERT or UPDATE and COMMIT, and whatever is lost on the way.
THEOREM Implements == Spec => ImplementsContract
<1>1. Init => Contract!Init
  BY DEF Init
<1>2. Spec => Contract!Init /\ [][Contract!Next]_(Contract!vars)
  BY <1>1, NextImplements, InvHolds, PTL DEF Spec
<1> QED
  BY <1>2, PTL DEF ImplementsContract, Contract!Spec

\* So it keeps what the contract keeps: no turn whose put was acknowledged is lost
\* while its session is not deleted.
THEOREM NoLostUpdate == Spec => []Contract!AckedTurnsKept
  BY Implements, ContractKeepsAckedTurns, PTL DEF ImplementsContract
=============================================================================
