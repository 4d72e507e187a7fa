--------------------------- MODULE DatabaseProofs ---------------------------
(***************************************************************************)
(* What several requests and several instances of the service do to one    *)
(* database, for any number of them.                                       *)
(*                                                                         *)
(* ProfileStore: updates that are merged column by column leave a comfort  *)
(* distance that belongs to the experience, and an upsert fails only when  *)
(* another request deletes the row it found, or inserts the one it missed. *)
(*                                                                         *)
(* DbStartup: an instance that has passed create_all has seen all tables,  *)
(* for tables are never dropped.  For the races: while the schema is       *)
(* incomplete there is always an instance that can still complete it, one  *)
(* that does not serve yet and will not trip over a table another one made.*)
(***************************************************************************)
EXTENDS ProfileStore, DbStartup, TLAPS

\* A profile as to_profile makes it.
Wellformed(p) == p \in Profile /\ p = ToProfile(p.experience, p.preferences)

\* A request has not answered before it is closed, upserts have something to write, an
\* insert is made by one that found no row and an update by one that found a row.
Progress ==
    \A c \in Clients :
        /\ pc[c] # "closed" => reply[c] = "none"
        /\ pc[c] = "new" => asked[c] = Absent
        /\ pc[c] \in {"insert", "update", "refetch"} => asked[c] # Absent
        /\ pc[c] = "insert" => loaded[c] = Absent
        /\ pc[c] = "update" => loaded[c] # Absent
        /\ pc[c] = "delete" => asked[c] = Absent

AllWellformed ==
    /\ row # Absent => Wellformed(row.profile)
    /\ \A c \in Clients : /\ loaded[c] # Absent => Wellformed(loaded[c].profile)
                          /\ asked[c] # Absent => Wellformed(asked[c])

\* A row that is not there, or not the one that was loaded, was deleted by a request that
\* has answered; a row that was not there before was inserted.
SomeoneWrote ==
    \A c \in Clients :
        /\ pc[c] = "insert" /\ row # Absent =>
              \E d \in Clients \ {c} : Deleted(d) \/ Inserted(d)
        /\ pc[c] = "update" /\ ~ RowIsThere(c) => \E d \in Clients : Deleted(d)
        /\ pc[c] = "refetch" /\ row = Absent => \E d \in Clients : Deleted(d)

Inv == TypeOK /\ Progress /\ AllWellformed /\ SomeoneWrote /\ LoneUpsertsSucceed

-----------------------------------------------------------------------------
\* Two levels never share a comfort distance.
LEMMA LevelsDiffer ==
    ASSUME NEW d \in DOMAIN ComfortByExperience, NEW e \in DOMAIN ComfortByExperience,
           ComfortByExperience[d] = ComfortByExperience[e]
    PROVE  d = e
    BY DEF ComfortByExperience

LEMMA ToProfileWellformed ==
    ASSUME NEW e \in Experiences, NEW p \in Preferences
    PROVE  Wellformed(ToProfile(e, p))
    BY ExperiencesAssumption DEF Wellformed, Profile, ToProfile, ComfortByExperience

\* Merging the changed columns of a well-formed profile into another one leaves a
\* well-formed one: both of experience and comfort are written, or neither is.
LEMMA WriteDirtyWellformed ==
    ASSUME NEW onDisk, NEW old, NEW new,
           Wellformed(onDisk), Wellformed(old), Wellformed(new)
    PROVE  Wellformed(WriteDirty(onDisk, old, new))
<1> DEFINE merged == WriteDirty(onDisk, old, new)
           e == IF new.experience = old.experience THEN onDisk.experience ELSE new.experience
           p == IF new.preferences = old.preferences THEN onDisk.preferences ELSE new.preferences
<1>1. /\ onDisk.experience \in Experiences /\ new.experience \in Experiences
      /\ old.experience \in Experiences
      /\ onDisk.preferences \in Preferences /\ new.preferences \in Preferences
    BY DEF Wellformed, Profile
<1>2. /\ onDisk.comfort = ComfortByExperience[onDisk.experience]
      /\ old.comfort = ComfortByExperience[old.experience]
      /\ new.comfort = ComfortByExperience[new.experience]
    BY DEF Wellformed, ToProfile
<1>3. new.comfort = old.comfort <=> new.experience = old.experience
    BY <1>1, <1>2, LevelsDiffer, ExperiencesAssumption
<1>4. new = [experience |-> new.experience, comfort |-> new.comfort,
             preferences |-> new.preferences]
    BY DEF Wellformed, Profile
<1>5. merged = [experience |-> e,
                comfort |-> IF new.comfort = old.comfort THEN onDisk.comfort ELSE new.comfort,
                preferences |-> p]
    BY <1>4 DEF WriteDirty
<1>6. merged = ToProfile(e, p)
    BY <1>2, <1>3, <1>5 DEF ToProfile
<1>7. e \in Experiences /\ p \in Preferences
    BY <1>1
<1>8. QED
    BY <1>6, <1>7, ToProfileWellformed

LEMMA InitInv == Init => Inv
<1> SUFFICES ASSUME Init PROVE Inv
    OBVIOUS
<1>1. row # Absent => Wellformed(row.profile) /\ row \in Row
    BY ToProfileWellformed DEF Init, Wellformed, Row
<1>2. TypeOK /\ Progress /\ AllWellformed
    BY <1>1, AbsentAssumption DEF Init, TypeOK, Progress, AllWellformed
<1>3. SomeoneWrote /\ LoneUpsertsSucceed
    BY DEF Init, SomeoneWrote, LoneUpsertsSucceed
<1>4. QED
    BY <1>2, <1>3 DEF Inv

\* All but c that deleted or inserted are still known to have done so.
Remains(c) ==
    \A d \in Clients \ {c} : /\ Deleted(d) => Deleted(d)'
                             /\ Inserted(d) => Inserted(d)'

\* A step of one request takes no other witness away.
LEMMA OthersRemain ==
    ASSUME TypeOK, NEW c \in Clients,
           \A d \in Clients \ {c} : /\ pc'[d] = pc[d] /\ reply'[d] = reply[d]
                                    /\ loaded'[d] = loaded[d] /\ asked'[d] = asked[d]
    PROVE  Remains(c)
    BY DEF Remains, Deleted, Inserted, Answered

LEMMA UpsertFetchInv ==
    ASSUME Inv, NEW c \in Clients, NEW e \in Experiences, NEW p \in Preferences,
           UpsertFetch(c, ToProfile(e, p))
    PROVE  Inv'
<1> USE DEF Inv, UpsertFetch, Goto
<1>1. Wellformed(ToProfile(e, p)) /\ ToProfile(e, p) # Absent
    BY ToProfileWellformed, AbsentAssumption DEF Wellformed
<1>2. TypeOK'
    BY <1>1 DEF TypeOK, Wellformed
<1>3. Progress'
    BY <1>1 DEF TypeOK, Progress
<1>4. AllWellformed'
    BY <1>1 DEF TypeOK, AllWellformed
<1>5. Remains(c) /\ ~ Deleted(c) /\ ~ Inserted(c)
    BY OthersRemain DEF TypeOK, Progress, Deleted, Inserted, Answered
<1>6. SomeoneWrote'
    BY <1>5 DEF TypeOK, SomeoneWrote, Remains, RowIsThere
<1>7. LoneUpsertsSucceed'
    BY <1>5 DEF TypeOK, Progress, LoneUpsertsSucceed, Remains
<1>8. QED
    BY <1>2, <1>3, <1>4, <1>6, <1>7

LEMMA InsertInv ==
    ASSUME Inv, NEW c \in Clients, Insert(c)
    PROVE  Inv'
<1> USE DEF Inv, Insert, Goto, Finish
<1>1. CASE AddRow(asked[c]) /\ Goto(c, "refetch") /\ UNCHANGED reply
    <2>1. row' \in Row /\ row' # Absent /\ Wellformed(row'.profile) /\ nextId' \in Nat
        BY <1>1, AbsentAssumption DEF AddRow, TypeOK, Progress, AllWellformed, Wellformed, Row
    <2>2. TypeOK' /\ Progress'
        BY <1>1, <2>1 DEF TypeOK, Progress
    <2>3. AllWellformed'
        BY <1>1, <2>1 DEF AllWellformed
    <2>4. Remains(c) /\ Inserted(c)'
        BY <1>1, OthersRemain DEF TypeOK, Progress, Inserted
    <2>5. ~ Deleted(c) /\ reply[c] = "none" /\ row = Absent
        BY <1>1 DEF Progress, Deleted, Answered, AddRow
    <2>6. SomeoneWrote'
        BY <1>1, <2>1, <2>4, <2>5 DEF TypeOK, SomeoneWrote, Remains, RowIsThere
    <2>7. LoneUpsertsSucceed'
        BY <1>1, <2>4, <2>5 DEF TypeOK, LoneUpsertsSucceed, Remains
    <2>8. QED
        BY <2>2, <2>3, <2>6, <2>7
<1>2. CASE row # Absent /\ Finish(c, "raised") /\ UNCHANGED <<row, nextId>>
    <2>1. TypeOK' /\ Progress' /\ AllWellformed'
        BY <1>2 DEF TypeOK, Progress, AllWellformed
    <2>2. Remains(c) /\ ~ Deleted(c) /\ ~ Inserted(c) /\ loaded[c] = Absent
        BY <1>2, OthersRemain DEF TypeOK, Progress, Deleted, Inserted, Answered
    <2>3. SomeoneWrote'
        BY <1>2, <2>2 DEF TypeOK, SomeoneWrote, Remains, RowIsThere
    <2>4. LoneUpsertsSucceed'
        BY <1>2, <2>2 DEF TypeOK, Progress, SomeoneWrote, LoneUpsertsSucceed, Remains
    <2>5. QED
        BY <2>1, <2>3, <2>4
<1>3. QED
    BY <1>1, <1>2

\* The row is merged with in place: it stays the row that others have loaded.
LEMMA WriteRowKeepsRow ==
    ASSUME Inv, NEW c \in Clients, pc[c] = "update", WriteRow(c)
    PROVE  /\ row # Absent /\ row' # Absent /\ row' \in Row /\ row'.id = row.id
           /\ Wellformed(row'.profile) /\ nextId' = nextId
<1>1. /\ row \in Row /\ row # Absent /\ loaded[c] \in Row
      /\ Wellformed(row.profile) /\ Wellformed(loaded[c].profile) /\ Wellformed(asked[c])
    BY DEF Inv, TypeOK, Progress, AllWellformed, WriteRow, RowIsThere
<1> DEFINE merged == WriteDirty(row.profile, loaded[c].profile, asked[c])
<1>2. Wellformed(merged) /\ merged \in Profile
    BY <1>1, WriteDirtyWellformed DEF Wellformed
<1>3. row' = [row EXCEPT !.profile = merged] /\ nextId' = nextId
    BY DEF WriteRow
<1> HIDE DEF merged
<1>4. row' \in Row /\ row'.id = row.id /\ row'.profile = merged
    BY <1>1, <1>2, <1>3 DEF Row
<1>5. QED
    BY <1>1, <1>2, <1>3, <1>4, AbsentAssumption

LEMMA UpdateInv ==
    ASSUME Inv, NEW c \in Clients, Update(c)
    PROVE  Inv'
<1> USE DEF Inv, Update, Goto, Finish
<1>1. Remains(c) /\ ~ Deleted(c) /\ ~ Inserted(c)
    BY OthersRemain DEF TypeOK, Progress, Deleted, Inserted, Answered
<1>2. CASE WriteRow(c) /\ Goto(c, "refetch") /\ UNCHANGED reply
    <2>1. /\ row # Absent /\ row' # Absent /\ row' \in Row /\ row'.id = row.id
          /\ Wellformed(row'.profile) /\ nextId' = nextId
        BY <1>2, WriteRowKeepsRow
    <2>2. TypeOK' /\ Progress'
        BY <1>2, <2>1 DEF TypeOK, Progress
    <2>3. AllWellformed'
        BY <2>1 DEF AllWellformed
    <2>4. SomeoneWrote'
        BY <1>1, <1>2, <2>1 DEF TypeOK, SomeoneWrote, Remains, RowIsThere
    <2>5. LoneUpsertsSucceed'
        BY <1>1, <1>2 DEF TypeOK, Progress, LoneUpsertsSucceed, Remains
    <2>6. QED
        BY <2>2, <2>3, <2>4, <2>5
<1>3. CASE ~ RowIsThere(c) /\ Finish(c, "raised") /\ UNCHANGED <<row, nextId>>
    <2>1. TypeOK' /\ Progress' /\ AllWellformed'
        BY <1>3 DEF TypeOK, Progress, AllWellformed
    <2>2. SomeoneWrote'
        BY <1>1, <1>3 DEF TypeOK, SomeoneWrote, Remains, RowIsThere
    <2>3. LoneUpsertsSucceed'
        BY <1>1, <1>3 DEF TypeOK, Progress, SomeoneWrote, LoneUpsertsSucceed, Remains
    <2>4. QED
        BY <2>1, <2>2, <2>3
<1>4. QED
    BY <1>2, <1>3

\* A refetch that fails takes the witness of others away, and names another one.
LEMMA RefetchInv ==
    ASSUME Inv, NEW c \in Clients, Refetch(c)
    PROVE  Inv'
<1> USE DEF Inv, Refetch, Goto, Finish
<1>1. TypeOK' /\ Progress' /\ AllWellformed'
    BY DEF TypeOK, Progress, AllWellformed
<1>2. Remains(c) /\ ~ Deleted(c)
    BY OthersRemain DEF TypeOK, Progress, Deleted, Answered
<1>3. CASE row # Absent
    <2>1. Inserted(c) => Inserted(c)'
        BY <1>3 DEF TypeOK, Progress, Inserted, Answered
    <2>2. SomeoneWrote'
        BY <1>2, <1>3, <2>1 DEF TypeOK, SomeoneWrote, Remains, RowIsThere
    <2>3. LoneUpsertsSucceed'
        BY <1>2, <1>3, <2>1 DEF TypeOK, Progress, LoneUpsertsSucceed, Remains
    <2>4. QED
        BY <1>1, <2>2, <2>3
<1>4. CASE row = Absent
    <2>1. PICK d \in Clients : Deleted(d)
        BY <1>4 DEF SomeoneWrote
    <2>2. d # c /\ Deleted(d)' /\ reply'[d] # "raised" /\ pc'[d] = "closed"
        BY <1>2, <2>1 DEF TypeOK, Progress, Deleted, Answered, Remains
    <2>3. SomeoneWrote'
        BY <1>4, <2>2 DEF TypeOK, SomeoneWrote
    <2>4. LoneUpsertsSucceed'
        BY <2>2 DEF LoneUpsertsSucceed
    <2>5. QED
        BY <1>1, <2>3, <2>4
<1>5. QED
    BY <1>3, <1>4

LEMMA DeleteFetchInv ==
    ASSUME Inv, NEW c \in Clients, DeleteFetch(c)
    PROVE  Inv'
<1> USE DEF Inv, DeleteFetch, Goto, Finish
<1>1. TypeOK' /\ Progress' /\ AllWellformed'
    BY DEF TypeOK, Progress, AllWellformed
<1>2. Remains(c) /\ ~ Deleted(c) /\ ~ Inserted(c)
    BY OthersRemain DEF TypeOK, Progress, Deleted, Inserted, Answered
<1>3. SomeoneWrote'
    BY <1>2 DEF TypeOK, SomeoneWrote, Remains, RowIsThere
<1>4. LoneUpsertsSucceed'
    BY <1>2 DEF TypeOK, Progress, LoneUpsertsSucceed, Remains
<1>5. QED
    BY <1>1, <1>3, <1>4

\* Whoever deletes is a witness, also of a row that somebody else had deleted.
LEMMA DeleteInv ==
    ASSUME Inv, NEW c \in Clients, Delete(c)
    PROVE  Inv'
<1> USE DEF Inv, Delete, RemoveRow, Goto, Finish
<1>1. TypeOK' /\ Progress' /\ AllWellformed'
    BY DEF TypeOK, Progress, AllWellformed
<1>2. Remains(c) /\ Deleted(c)' /\ ~ Inserted(c)
    BY OthersRemain DEF TypeOK, Progress, Deleted, Inserted, Answered
<1>3. SomeoneWrote'
    BY <1>2 DEF TypeOK, SomeoneWrote, Remains, RowIsThere
<1>4. LoneUpsertsSucceed'
    BY <1>2 DEF TypeOK, Progress, LoneUpsertsSucceed, Remains
<1>5. QED
    BY <1>1, <1>3, <1>4

LEMMA DbFailsInv ==
    ASSUME Inv, NEW c \in Clients, DbFails(c)
    PROVE  Inv'
<1> USE DEF Inv, DbFails, Goto, Finish
<1>1. /\ row' \in Row \cup {Absent} /\ nextId' \in Nat
      /\ row' # Absent => Wellformed(row'.profile)
    <2>1. CASE UNCHANGED <<row, nextId>>
        BY <2>1 DEF TypeOK, AllWellformed
    <2>2. CASE pc[c] = "insert" /\ AddRow(asked[c])
        BY <2>2 DEF AddRow, TypeOK, Progress, AllWellformed, Wellformed, Row
    <2>3. CASE pc[c] = "update" /\ WriteRow(c)
        BY <2>3, WriteRowKeepsRow DEF TypeOK
    <2>4. CASE pc[c] = "delete" /\ RemoveRow(c)
        BY <2>4 DEF RemoveRow, TypeOK, AllWellformed
    <2>5. QED
        BY <2>1, <2>2, <2>3, <2>4
<1>2. TypeOK' /\ Progress'
    BY <1>1 DEF TypeOK, Progress
<1>3. AllWellformed'
    BY <1>1 DEF AllWellformed
<1>4. /\ Remains(c) /\ ~ Deleted(c) /\ (Inserted(c) => Inserted(c)')
      /\ reply'[c] # "raised" /\ pc'[c] = "closed"
      /\ \A d \in Clients \ {c} : pc'[d] = pc[d] /\ reply'[d] = reply[d]
      /\ UNCHANGED <<loaded, asked>>
    BY OthersRemain DEF TypeOK, Progress, Deleted, Inserted, Answered
<1>5. LoneUpsertsSucceed'
    BY <1>4 DEF LoneUpsertsSucceed, Remains
<1>6. SomeoneWrote'
    <2>1. CASE UNCHANGED <<row, nextId>>
        BY <1>4, <2>1 DEF SomeoneWrote, Remains, RowIsThere
    <2>2. CASE pc[c] = "insert" /\ AddRow(asked[c])
        <3>1. row = Absent /\ row' # Absent /\ Inserted(c)'
            BY <2>2, AbsentAssumption
               DEF AddRow, TypeOK, Progress, Inserted, Answered, Row
        <3>2. QED
            BY <1>4, <3>1 DEF SomeoneWrote, Remains, RowIsThere
    <2>3. CASE pc[c] = "update" /\ WriteRow(c)
        <3>1. row # Absent /\ row' # Absent /\ row'.id = row.id
            BY <2>3, WriteRowKeepsRow
        <3>2. QED
            BY <1>4, <3>1 DEF SomeoneWrote, Remains, RowIsThere
    <2>4. CASE pc[c] = "delete" /\ RemoveRow(c)
        <3>1. Deleted(c)' /\ (row' = row \/ row' = Absent)
            BY <2>4 DEF RemoveRow, TypeOK, Progress, Deleted, Answered
        <3>2. QED
            BY <1>4, <3>1 DEF SomeoneWrote, Remains, RowIsThere
    <2>5. QED
        BY <2>1, <2>2, <2>3, <2>4
<1>7. QED
    BY <1>2, <1>3, <1>5, <1>6

LEMMA NextInv == Inv /\ [Next]_vars => Inv'
<1> SUFFICES ASSUME Inv, [Next]_vars PROVE Inv'
    OBVIOUS
<1>1. CASE UNCHANGED vars
    BY <1>1 DEF vars, Inv, TypeOK, Progress, AllWellformed, SomeoneWrote, RowIsThere,
                LoneUpsertsSucceed, Deleted, Inserted, Answered
<1>2. CASE Next
    BY <1>2, UpsertFetchInv, InsertInv, UpdateInv, RefetchInv, DeleteFetchInv,
       DeleteInv, DbFailsInv DEF Next
<1>3. QED
    BY <1>1, <1>2

LEMMA Invariance == Spec => []Inv
<1>1. QED
    BY InitInv, NextInv, PTL DEF Spec

-----------------------------------------------------------------------------
\* The types of ProfileStore, for any sets of requests, levels and preferences.
THEOREM TypeCorrect == Spec => []TypeOK
<1>1. Inv => TypeOK
    BY DEF Inv
<1>2. QED
    BY <1>1, Invariance, PTL

\* The comfort distance of PostgresProfileStore's row is always that of its
\* experience, however many upserts are merged into it column by column.
THEOREM ColumnsBelongTogether == Spec => []ComfortMatchesExperience
<1>1. Inv => ComfortMatchesExperience
    BY DEF Inv, AllWellformed, Wellformed, ComfortMatchesExperience
<1>2. QED
    BY <1>1, Invariance, PTL

\* An upsert of PostgresProfileStore raises only if another request deletes the profile,
\* or inserts it where the upsert found none; never because of updates.
THEOREM OnlyRacesFail == Spec => []LoneUpsertsSucceed
<1>1. Inv => LoneUpsertsSucceed
    BY DEF Inv
<1>2. QED
    BY <1>1, Invariance, PTL

-----------------------------------------------------------------------------
\* The schema

USE SessionsTableAssumption, InstancesAssumption
    DEF SessionsTableAssumption, InstancesAssumption

CreateCovers ==
    \A i \in Instances : stage[i] = "create" => tables \cup missing[i] = Tables

TablesPassed ==
    \A i \in Instances : stage[i] \in {"check", "alter"} => tables = Tables

\* The instance will find a table it takes for missing.
Stale(i) == stage[i] = "create" /\ missing[i] \cap tables # {}

SomeoneCompletes ==
    SchemaComplete \/ dbFailed
        \/ \E i \in Instances : stage[i] # "serving" /\ ~ Stale(i)

SchemaInv ==
    /\ StartupTypeOK /\ CreateCovers /\ TablesPassed /\ SomeoneCompletes
    /\ SuccessMeansSchema

-----------------------------------------------------------------------------
\* Before anyone started, everybody may complete the schema.
LEMMA SchemaInit == ASSUME StartupInit PROVE SchemaInv
<1>1. PICK i \in Instances : TRUE
  OBVIOUS
<1>2. SomeoneCompletes
  BY <1>1 DEF StartupInit, SomeoneCompletes, Stale
<1> QED
  BY <1>2 DEF StartupInit, SchemaInv, StartupTypeOK, CreateCovers,
              TablesPassed, SuccessMeansSchema

\* An instance that has just looked trips over nothing.
LEMMA InspectInv ==
  ASSUME SchemaInv, NEW i \in Instances, Inspect(i)
  PROVE SchemaInv'
<1>1. StartupTypeOK'
  BY DEF SchemaInv, StartupTypeOK, Inspect, MoveTo
<1>2. CreateCovers' /\ TablesPassed' /\ SuccessMeansSchema'
  BY DEF SchemaInv, StartupTypeOK, Inspect, MoveTo, CreateCovers,
         TablesPassed, SuccessMeansSchema,
         SchemaComplete
<1>3. stage'[i] # "serving" /\ ~ Stale(i)'
  BY DEF SchemaInv, StartupTypeOK, Inspect, MoveTo, Stale
<1> QED
  BY <1>1, <1>2, <1>3 DEF SchemaInv, SomeoneCompletes

\* The tables that were missing make up all of them, unless one was made meanwhile; who
\* made it is on the way.
LEMMA CreateAllInv ==
  ASSUME SchemaInv, NEW i \in Instances, CreateAll(i)
  PROVE SchemaInv'
<1>1. CASE missing[i] \cap tables = {}
  <2>1. /\ stage[i] = "create" /\ stage' = [stage EXCEPT ![i] = "check"]
        /\ tables' = tables \cup missing[i]
        /\ hasColumn' = (hasColumn \/ SessionsTable \in missing[i])
        /\ UNCHANGED <<missing, outcome, dbFailed>>
    BY <1>1 DEF CreateAll, MoveTo
  <2>2. tables' = Tables
    BY <2>1 DEF SchemaInv, CreateCovers
  <2>3. StartupTypeOK'
    BY <2>1, <2>2 DEF SchemaInv, StartupTypeOK
  <2>4. CreateCovers' /\ TablesPassed' /\ SuccessMeansSchema'
    BY <2>1, <2>2 DEF SchemaInv, StartupTypeOK, CreateCovers, TablesPassed,
                      SuccessMeansSchema,
                      SchemaComplete
  <2>5. stage'[i] # "serving" /\ ~ Stale(i)'
    BY <2>1 DEF SchemaInv, StartupTypeOK, Stale
  <2> QED
    BY <2>3, <2>4, <2>5 DEF SchemaInv, SomeoneCompletes
<1>2. CASE missing[i] \cap tables # {}
  <2>1. /\ stage[i] = "create" /\ stage' = [stage EXCEPT ![i] = "serving"]
        /\ outcome' = [outcome EXCEPT ![i] = "duplicate_table"]
        /\ UNCHANGED <<tables, hasColumn, missing, dbFailed>>
    BY <1>2 DEF CreateAll, Serve, MoveTo
  <2>2. StartupTypeOK'
    BY <2>1 DEF SchemaInv, StartupTypeOK
  <2>3. CreateCovers' /\ TablesPassed' /\ SuccessMeansSchema'
    BY <2>1 DEF SchemaInv, StartupTypeOK, CreateCovers, TablesPassed,
                SuccessMeansSchema, SchemaComplete
  <2>4. ASSUME NEW j \in Instances, stage[j] # "serving", ~ Stale(j)
        PROVE  stage'[j] # "serving" /\ ~ Stale(j)'
    BY <1>2, <2>1, <2>4 DEF SchemaInv, StartupTypeOK, Stale
  <2>5. SomeoneCompletes'
    BY <2>1, <2>4 DEF SchemaInv, SomeoneCompletes, SchemaComplete
  <2> QED
    BY <2>2, <2>3, <2>5 DEF SchemaInv
<1> QED
  BY <1>1, <1>2

\* All tables are there, so the column is all that was missing.
LEMMA CheckColumnInv ==
  ASSUME SchemaInv, NEW i \in Instances, CheckColumn(i)
  PROVE SchemaInv'
<1>1. CASE hasColumn
  <2>1. /\ stage[i] = "check" /\ stage' = [stage EXCEPT ![i] = "serving"]
        /\ outcome' = [outcome EXCEPT ![i] = "success"]
        /\ UNCHANGED <<tables, hasColumn, missing, dbFailed>>
    BY <1>1 DEF CheckColumn, Serve, MoveTo
  <2>2. SchemaComplete'
    BY <1>1, <2>1 DEF SchemaInv, TablesPassed, SchemaComplete
  <2>3. StartupTypeOK'
    BY <2>1 DEF SchemaInv, StartupTypeOK
  <2>4. CreateCovers' /\ TablesPassed' /\ SuccessMeansSchema'
    BY <2>1, <2>2 DEF SchemaInv, StartupTypeOK, CreateCovers, TablesPassed,
                      SuccessMeansSchema
  <2> QED
    BY <2>2, <2>3, <2>4 DEF SchemaInv, SomeoneCompletes
<1>2. CASE ~ hasColumn
  <2>1. /\ stage[i] = "check" /\ stage' = [stage EXCEPT ![i] = "alter"]
        /\ UNCHANGED <<tables, hasColumn, missing, outcome, dbFailed>>
    BY <1>2 DEF CheckColumn, MoveTo
  <2>2. StartupTypeOK'
    BY <2>1 DEF SchemaInv, StartupTypeOK
  <2>3. CreateCovers' /\ TablesPassed' /\ SuccessMeansSchema'
    BY <2>1 DEF SchemaInv, StartupTypeOK, CreateCovers, TablesPassed,
                SuccessMeansSchema, SchemaComplete
  <2>4. stage'[i] # "serving" /\ ~ Stale(i)'
    BY <2>1 DEF SchemaInv, StartupTypeOK, Stale
  <2> QED
    BY <2>2, <2>3, <2>4 DEF SchemaInv, SomeoneCompletes
<1> QED
  BY <1>1, <1>2

\* Whoever adds the column, it is there.
LEMMA AddColumnInv ==
  ASSUME SchemaInv, NEW i \in Instances, AddColumn(i)
  PROVE SchemaInv'
<1>1. /\ stage[i] = "alter" /\ stage' = [stage EXCEPT ![i] = "serving"]
      /\ \E how \in {"success", "duplicate_column"} :
            outcome' = [outcome EXCEPT ![i] = how]
      /\ hasColumn' = TRUE
      /\ UNCHANGED <<tables, missing, dbFailed>>
  BY DEF AddColumn, Serve, MoveTo
<1>2. SchemaComplete'
  BY <1>1 DEF SchemaInv, TablesPassed, SchemaComplete
<1>3. StartupTypeOK'
  BY <1>1, <1>2 DEF SchemaInv, StartupTypeOK, SchemaComplete
<1>4. CreateCovers' /\ TablesPassed'
  BY <1>1 DEF SchemaInv, StartupTypeOK, CreateCovers, TablesPassed
<1> QED
  BY <1>2, <1>3, <1>4 DEF SchemaInv, SuccessMeansSchema, SomeoneCompletes

\* A failure is recorded, and takes nothing away.
LEMMA StartupFailsInv ==
  ASSUME SchemaInv, NEW i \in Instances, StartupFails(i)
  PROVE SchemaInv'
<1>1. /\ stage[i] # "serving" /\ stage' = [stage EXCEPT ![i] = "serving"]
      /\ outcome' = [outcome EXCEPT ![i] = "failed"]
      /\ dbFailed' = TRUE
      /\ UNCHANGED missing
  BY DEF StartupFails, Serve, MoveTo
<1>2. /\ tables \subseteq tables' /\ tables' \subseteq Tables
      /\ hasColumn => hasColumn'
      /\ hasColumn' \in BOOLEAN
      /\ hasColumn' => SessionsTable \in tables'
  <2>1. CASE UNCHANGED <<tables, hasColumn>>
    BY <2>1 DEF SchemaInv, StartupTypeOK
  <2>2. CASE /\ stage[i] = "create" /\ tables' = tables \cup missing[i]
             /\ hasColumn' = (hasColumn \/ SessionsTable \in missing[i])
    BY <2>2 DEF SchemaInv, StartupTypeOK
  <2>3. CASE stage[i] = "alter" /\ hasColumn' = TRUE /\ UNCHANGED tables
    BY <2>3 DEF SchemaInv, StartupTypeOK, TablesPassed
  <2> QED
    BY <2>1, <2>2, <2>3 DEF StartupFails
<1>3. StartupTypeOK'
  BY <1>1, <1>2 DEF SchemaInv, StartupTypeOK
<1>4. CreateCovers' /\ TablesPassed'
  BY <1>1, <1>2 DEF SchemaInv, StartupTypeOK, CreateCovers, TablesPassed
<1>5. SuccessMeansSchema'
  BY <1>1, <1>2 DEF SchemaInv, StartupTypeOK, SuccessMeansSchema,
                    SchemaComplete
<1> QED
  BY <1>1, <1>3, <1>4, <1>5 DEF SchemaInv, SomeoneCompletes

\* A new instance has everything before it.
LEMMA RestartInv ==
  ASSUME SchemaInv, NEW i \in Instances, Restart(i)
  PROVE SchemaInv'
<1>1. StartupTypeOK'
  BY DEF SchemaInv, StartupTypeOK, Restart
<1>2. CreateCovers' /\ TablesPassed' /\ SuccessMeansSchema'
  BY DEF SchemaInv, StartupTypeOK, Restart, CreateCovers, TablesPassed,
         SuccessMeansSchema,
         SchemaComplete
<1>3. stage'[i] # "serving" /\ ~ Stale(i)'
  BY DEF SchemaInv, StartupTypeOK, Restart, Stale
<1> QED
  BY <1>1, <1>2, <1>3 DEF SchemaInv, SomeoneCompletes

LEMMA SchemaNext ==
  ASSUME SchemaInv, [StartupNext]_startupVars PROVE SchemaInv'
<1>1. CASE UNCHANGED startupVars
  BY <1>1 DEF startupVars, SchemaInv, StartupTypeOK, CreateCovers, TablesPassed,
              SuccessMeansSchema,
              SomeoneCompletes, Stale, SchemaComplete
<1>2. ASSUME NEW i \in Instances,
             \/ Inspect(i) \/ CreateAll(i) \/ CheckColumn(i)
             \/ AddColumn(i) \/ StartupFails(i) \/ Restart(i)
      PROVE  SchemaInv'
  BY <1>2, InspectInv, CreateAllInv, CheckColumnInv, AddColumnInv, StartupFailsInv,
     RestartInv
<1> QED
  BY <1>1, <1>2 DEF StartupNext

LEMMA SchemaKeepsInv == StartupSpec => []SchemaInv
<1> QED
  BY SchemaInit, SchemaNext, PTL DEF StartupSpec

-----------------------------------------------------------------------------
\* Type correctness: the column only exists in a table that does.
THEOREM StartupTypeCorrect == StartupSpec => []StartupTypeOK
<1>1. SchemaInv => StartupTypeOK
  BY DEF SchemaInv
<1> QED
  BY <1>1, SchemaKeepsInv, PTL

\* db.init.success is only logged over the complete schema, for any number of racing,
\* failing and restarting instances.
THEOREM SuccessIsTrue == StartupSpec => []SuccessMeansSchema
<1>1. SchemaInv => SuccessMeansSchema
  BY DEF SchemaInv
<1> QED
  BY <1>1, SchemaKeepsInv, PTL

\* When all instances serve and the database did not fail of itself, the schema is
\* complete: losing a race is harmless, whoever wins and however often it restarts.
THEOREM RacesAreHarmless == StartupSpec => []RacesConverge
<1>1. SchemaInv => RacesConverge
  BY DEF SchemaInv, SomeoneCompletes, RacesConverge
<1> QED
  BY <1>1, SchemaKeepsInv, PTL
=============================================================================
