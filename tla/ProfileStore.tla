---------------------------- MODULE ProfileStore ----------------------------
(***************************************************************************)
(* PostgresProfileStore of src/src/sessions/profile_store.py, used by POST *)
(* and DELETE /profile of several clients that share one profile id.       *)
(*                                                                         *)
(* upsert is SELECT, then INSERT or UPDATE and COMMIT, then a second       *)
(* SELECT; delete is SELECT, then DELETE and COMMIT.  The session is an    *)
(* ORM session (external): UPDATE and DELETE address the row by the        *)
(* primary key it was loaded with, a serial number, not by the profile id. *)
(* An UPDATE writes the columns whose value differs from the one loaded,   *)
(* and one that matches no row raises, while a DELETE that matches no row  *)
(* only warns.                                                             *)
(***************************************************************************)
EXTENDS Naturals

CONSTANTS Clients,      \* one request each
          Experiences,  \* experience levels considered
          Preferences,  \* values of the other columns a client sets
          Absent        \* no row, nothing loaded

ComfortByExperience ==
    [beginner |-> 50, casual |-> 80, intermediate |-> 100,
     experienced |-> 130, racer |-> 180]

ASSUME ExperiencesAssumption == Experiences \subseteq DOMAIN ComfortByExperience

Profile == [experience : Experiences, comfort : Nat, preferences : Preferences]

Row == [id : Nat, profile : Profile]

ASSUME AbsentAssumption == Absent \notin Profile \cup Row

VARIABLES
    row,     \* the committed row
    nextId,  \* the sequence of primary keys
    pc,      \* where each request stands
    loaded,  \* the row its first SELECT found
    asked,   \* the profile it upserts
    reply    \* its outcome

vars == <<row, nextId, pc, loaded, asked, reply>>

TypeOK ==
    /\ row \in Row \cup {Absent}
    /\ nextId \in Nat
    /\ pc \in [Clients -> {"new", "insert", "update", "delete", "refetch", "closed"}]
    /\ loaded \in [Clients -> Row \cup {Absent}]
    /\ asked \in [Clients -> Profile \cup {Absent}]
    /\ reply \in [Clients -> {"none", "ok", "not_found", "raised", "db_error"}]

\* Mutant: two levels have one comfort distance.
ToProfileMutantSameComfort(experience, preferences) ==
    [experience |-> experience,
     comfort |-> IF experience = "casual" THEN 50 ELSE ComfortByExperience[experience],
     preferences |-> preferences]

\* to_profile: the comfort distance follows from the experience.
ToProfile(experience, preferences) ==
    [experience |-> experience,
     comfort |-> ComfortByExperience[experience],
     preferences |-> preferences]

Init ==
    /\ \/ row = Absent
       \/ \E e \in Experiences, p \in Preferences :
             row = [id |-> 0, profile |-> ToProfile(e, p)]
    /\ nextId = 1
    /\ pc = [c \in Clients |-> "new"]
    /\ loaded = [c \in Clients |-> Absent]
    /\ asked = [c \in Clients |-> Absent]
    /\ reply = [c \in Clients |-> "none"]

Goto(c, step) == pc' = [pc EXCEPT ![c] = step]
Finish(c, outcome) == Goto(c, "closed") /\ reply' = [reply EXCEPT ![c] = outcome]

-----------------------------------------------------------------------------
\* upsert

\* Mutant: an upsert that only ever inserts.
UpsertFetchMutantInserts(c, profile) ==
    /\ pc[c] = "new"
    /\ loaded' = [loaded EXCEPT ![c] = row]
    /\ asked' = [asked EXCEPT ![c] = profile]
    /\ Goto(c, "insert")
    /\ UNCHANGED <<row, nextId, reply>>

UpsertFetch(c, profile) ==
    /\ pc[c] = "new"
    /\ loaded' = [loaded EXCEPT ![c] = row]
    /\ asked' = [asked EXCEPT ![c] = profile]
    /\ Goto(c, IF row = Absent THEN "insert" ELSE "update")
    /\ UNCHANGED <<row, nextId, reply>>

AddRow(profile) ==
    /\ row = Absent
    /\ row' = [id |-> nextId, profile |-> profile]
    /\ nextId' = nextId + 1

\* If the unique profile id is taken: IntegrityError.
Insert(c) ==
    /\ pc[c] = "insert"
    /\ \/ AddRow(asked[c]) /\ Goto(c, "refetch") /\ UNCHANGED reply
       \/ row # Absent /\ Finish(c, "raised") /\ UNCHANGED <<row, nextId>>
    /\ UNCHANGED <<loaded, asked>>

\* Mutant: the columns that did not change are written as NULL.
WriteDirtyMutantNulls(onDisk, old, new) ==
    [column \in DOMAIN new |->
        IF new[column] = old[column] THEN Absent ELSE new[column]]

\* The columns that differ from what was loaded, over what is there now.
WriteDirty(onDisk, old, new) ==
    [column \in DOMAIN new |->
        IF new[column] = old[column] THEN onDisk[column] ELSE new[column]]

\* The row the request loaded; another one may have taken its place.
RowIsThere(c) == row # Absent /\ row.id = loaded[c].id

WriteRow(c) ==
    /\ RowIsThere(c)
    /\ row' = [row EXCEPT !.profile = WriteDirty(@, loaded[c].profile, asked[c])]
    /\ UNCHANGED nextId

\* If no row is matched: StaleDataError.
Update(c) ==
    /\ pc[c] = "update"
    /\ \/ WriteRow(c) /\ Goto(c, "refetch") /\ UNCHANGED reply
       \/ ~ RowIsThere(c) /\ Finish(c, "raised") /\ UNCHANGED <<row, nextId>>
    /\ UNCHANGED <<loaded, asked>>

\* The second SELECT asserts that the row is there.
Refetch(c) ==
    /\ pc[c] = "refetch"
    /\ Finish(c, IF row # Absent THEN "ok" ELSE "raised")
    /\ UNCHANGED <<row, nextId, loaded, asked>>

-----------------------------------------------------------------------------
\* delete

DeleteFetch(c) ==
    /\ pc[c] = "new"
    /\ loaded' = [loaded EXCEPT ![c] = row]
    /\ IF row = Absent THEN Finish(c, "not_found") ELSE Goto(c, "delete") /\ UNCHANGED reply
    /\ UNCHANGED <<row, nextId, asked>>

RemoveRow(c) ==
    /\ row' = IF RowIsThere(c) THEN Absent ELSE row
    /\ UNCHANGED nextId

\* True is returned whether or not the row was still there.
Delete(c) ==
    /\ pc[c] = "delete"
    /\ RemoveRow(c)
    /\ Finish(c, "ok")
    /\ UNCHANGED <<loaded, asked>>

\* The database fails: the transaction is rolled back, or committed unnoticed.
DbFails(c) ==
    /\ pc[c] \in {"insert", "update", "delete", "refetch"}
    /\ Finish(c, "db_error")
    /\ \/ UNCHANGED <<row, nextId>>
       \/ pc[c] = "insert" /\ AddRow(asked[c])
       \/ pc[c] = "update" /\ WriteRow(c)
       \/ pc[c] = "delete" /\ RemoveRow(c)
    /\ UNCHANGED <<loaded, asked>>

Next == \E c \in Clients :
    \/ \E e \in Experiences, p \in Preferences : UpsertFetch(c, ToProfile(e, p))
    \/ Insert(c) \/ Update(c) \/ Refetch(c)
    \/ DeleteFetch(c) \/ Delete(c)
    \/ DbFails(c)

Spec == Init /\ [][Next]_vars

-----------------------------------------------------------------------------
\* Properties

\* The stored comfort distance is that of the stored experience, although
\* concurrent updates are merged column by column: two different levels never
\* share a distance, so both columns are dirty or neither is.
ComfortMatchesExperience ==
    row # Absent =>
        row.profile = ToProfile(row.profile.experience, row.profile.preferences)

\* An upsert raises only if another request deletes the profile or, where the upsert
\* found none, inserts it.  Updates of the profile never make each other fail, and an
\* upsert that is alone always succeeds, whatever is stored.
Answered(d) == reply[d] \in {"ok", "db_error"}
Deleted(d)  == asked[d] = Absent /\ Answered(d)
Inserted(d) == loaded[d] = Absent /\ asked[d] # Absent /\ (Answered(d) \/ pc[d] = "refetch")

LoneUpsertsSucceed ==
    \A c \in Clients :
        asked[c] # Absent /\ reply[c] = "raised" =>
            \E d \in Clients \ {c} : Deleted(d) \/ (loaded[c] = Absent /\ Inserted(d))
=============================================================================
