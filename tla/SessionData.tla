---------------------------- MODULE SessionData ----------------------------
(***************************************************************************)
(* What the session stores hold and hand out.  The content of a            *)
(* ConversationState is abstracted to the set of turns its messages        *)
(* record: no store looks inside it.                                       *)
(***************************************************************************)
EXTENDS Naturals

CONSTANTS Sessions,    \* session ids
          Callers,     \* request handlers
          Turns,       \* user turns, the content of a conversation
          MaxVersion,  \* bound on versions: no put beyond it
          Absent,      \* no row for this session
          None         \* no copy held by this caller

\* The two sentinels are no row and no copy.
ASSUME SentinelAssumption ==
    /\ Absent \notin [version : Nat, doc : SUBSET Turns]
    /\ None \notin [session : Sessions, version : Nat, doc : SUBSET Turns]
ASSUME MaxVersionAssumption == MaxVersion \in Nat
=============================================================================
