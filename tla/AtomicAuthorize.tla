-------------------------- MODULE AtomicAuthorize --------------------------
(***************************************************************************)
(* What POST /api/v1/authorize promises: "All requests in a batch are      *)
(* guaranteed to be evaluated against the same policy version"             *)
(* (docs/api.md).  A batch is decided in one step, from the store as it is *)
(* at one moment between the request and its response.                     *)
(***************************************************************************)
CONSTANTS
  Clients,
  Batches,        \* the batches that are accepted
  Answer(_, _),   \* the answer to a batch from one view of the store
  None

VARIABLES
  view,      \* what the store offers evaluations
  stage,     \* per client: idle, asked, decided or replied
  asked,     \* its batch
  decided,   \* the answer, once it is determined
  reply      \* the response, once it is sent

authorizeVars == <<view, stage, asked, decided, reply>>

Ask(c) ==
  /\ stage[c] = "idle"
  /\ \E b \in Batches : asked' = [asked EXCEPT ![c] = b]
  /\ stage' = [stage EXCEPT ![c] = "asked"]
  /\ UNCHANGED <<view, decided, reply>>

Decide(c) ==
  /\ stage[c] = "asked"
  /\ decided' = [decided EXCEPT ![c] = Answer(view, asked[c])]
  /\ stage' = [stage EXCEPT ![c] = "decided"]
  /\ UNCHANGED <<view, asked, reply>>

Reply(c) ==
  /\ stage[c] = "decided"
  /\ reply' = [reply EXCEPT ![c] = decided[c]]
  /\ stage' = [stage EXCEPT ![c] = "replied"]
  /\ UNCHANGED <<view, asked, decided>>

Done(c) ==
  /\ stage[c] = "replied"
  /\ asked' = [asked EXCEPT ![c] = None]
  /\ decided' = [decided EXCEPT ![c] = None]
  /\ reply' = [reply EXCEPT ![c] = None]
  /\ stage' = [stage EXCEPT ![c] = "idle"]
  /\ UNCHANGED view

(* The store may become any other store at any time.                       *)
Change == UNCHANGED <<stage, asked, decided, reply>>

AuthorizeInit ==
  /\ stage = [c \in Clients |-> "idle"]
  /\ asked = [c \in Clients |-> None]
  /\ decided = [c \in Clients |-> None]
  /\ reply = [c \in Clients |-> None]

AuthorizeNext == Change \/ \E c \in Clients : Ask(c) \/ Decide(c) \/ Reply(c) \/ Done(c)

AuthorizeSpec == AuthorizeInit /\ [][AuthorizeNext]_authorizeVars
=============================================================================
