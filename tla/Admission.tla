----------------------------- MODULE Admission -----------------------------
(***************************************************************************)
(* Admission control: the settings that AdmissionConfig (src/src/config.rs) *)
(* reads at startup and the decision of AccessControlMiddleware            *)
(* (src/src/middleware.rs) on one request after another, with the journey  *)
(* of the request through trusted proxies.  Decisions read nothing but the *)
(* settings and the request, so one request at a time is enough.           *)
(***************************************************************************)
EXTENDS Naturals, Sequences, Functions

CONSTANTS
  Addresses,        \* IP addresses
  Networks,         \* addresses and CIDRs that parse_net accepts
  Covers,           \* the addresses of a network
  Tokens,           \* texts that valid_bearer_token accepts
  Malformed,        \* any text that is no address, network or token
  Blank, Star,      \* the entries "" and "*"
  Unset,            \* a variable that is not set
  Settings,         \* values of the three variables, split at commas
  Claims,           \* X-Forwarded-For lines that a client sends itself
  Authorizations,   \* Authorization lines, given by their token
  MaxHops,          \* bound on the proxies of one journey
  None

Entries == Networks \cup Tokens \cup {Malformed, Blank, Star}

(* A text that is split at commas has at least one entry.                  *)
Lists == {Unset} \cup (Seq(Entries) \ {<< >>})

Rejections == { "client_ip_unresolved", "client_ip_not_allowed", "access_token_missing",
                "access_token_malformed", "access_token_invalid" }

ASSUME AdmissionAssumption ==
  /\ Covers \in [Networks -> SUBSET Addresses]
  /\ {Malformed, None} \cap Addresses = {}
  /\ {Malformed, Blank, Star} \cap (Networks \cup Tokens) = {}
  /\ None \notin Rejections
  /\ Settings \subseteq [allowlist : Lists, proxies : Lists, tokens : Lists]
  /\ Claims \subseteq Seq(Seq(Addresses \cup {Malformed}) \ {<< >>})
  /\ Authorizations \subseteq Seq(Tokens \cup {Malformed})
  /\ MaxHops \in Nat

VARIABLES
  settings,   \* TREETOP_CLIENT_ALLOWLIST, _TRUSTED_PROXIES, _ACCESS_TOKENS
  server,     \* starting, refused or serving
  request     \* the request under way

admissionVars == <<settings, server, request>>

-----------------------------------------------------------------------------
(* AdmissionConfig::parse                                                  *)

IsBlank(value) == value \in {Unset, <<Blank>>}

Listed(value) == IF IsBlank(value) THEN {} ELSE Range(value)

(* ClientAllowlist::Any                                                    *)
OpenAccess(value) == IsBlank(value) \/ value = <<Star>>

SettingsAccepted ==
  /\ OpenAccess(settings.allowlist) \/ Listed(settings.allowlist) \subseteq Networks
  /\ Listed(settings.proxies) \subseteq Networks
  /\ Listed(settings.tokens) \subseteq Tokens

InNets(address, nets) == \E net \in nets : address \in Covers[net]

Trusted(address) == InNets(address, Listed(settings.proxies))

HasAcl == ~OpenAccess(settings.allowlist)

-----------------------------------------------------------------------------
(* forwarded_client_ip: the lines of the header in order, each split at    *)
(* commas, read as one chain.  A place is a line and an entry in it.       *)

Places(lines) == UNION {{v} \X DOMAIN lines[v] : v \in DOMAIN lines}

EntryAt(lines, place) == lines[place[1]][place[2]]

After(place, other) == \/ place[1] > other[1]
                       \/ place[1] = other[1] /\ place[2] > other[2]

Untrusted(lines) == {place \in Places(lines) : ~Trusted(EntryAt(lines, place))}

(* Fault: the chain is read from the left.                                 *)
IsLeftmostUntrusted(lines, place) ==
  /\ place \in Untrusted(lines)
  /\ \A other \in Untrusted(lines) : other = place \/ After(other, place)

IsRightmostUntrusted(lines, place) ==
  /\ place \in Untrusted(lines)
  /\ \A other \in Untrusted(lines) : other = place \/ After(place, other)

MalformedForwardedFor(lines) == \E place \in Places(lines) : EntryAt(lines, place) = Malformed

ForwardedClientIp(lines) ==
  IF MalformedForwardedFor(lines) \/ lines = << >> THEN None
  ELSE IF Untrusted(lines) = {} THEN lines[1][1]
  ELSE EntryAt(lines, CHOOSE place \in Places(lines) : IsRightmostUntrusted(lines, place))

(* None when the chain is malformed or a trusted peer sends no chain.      *)
ResolveClientIp(q) == IF Trusted(q.peer) THEN ForwardedClientIp(q.forwarded) ELSE q.peer

-----------------------------------------------------------------------------
(* AccessControlMiddlewareService::call: why a protected request is        *)
(* rejected, None if it is not.                                            *)

AclRejection(q) ==
  IF ~HasAcl THEN None
  ELSE IF ResolveClientIp(q) = None THEN "client_ip_unresolved"
  ELSE IF ~InNets(ResolveClientIp(q), Listed(settings.allowlist)) THEN "client_ip_not_allowed"
  ELSE None

(* Fault: with several Authorization headers the first one counts.         *)
FirstTokenRejection(q) ==
  IF Listed(settings.tokens) = {} THEN None
  ELSE IF q.authorization = << >> THEN "access_token_missing"
  ELSE IF q.authorization[1] = Malformed THEN "access_token_malformed"
  ELSE IF q.authorization[1] \notin Listed(settings.tokens) THEN "access_token_invalid"
  ELSE None

TokenRejection(q) ==
  IF Listed(settings.tokens) = {} THEN None
  ELSE IF q.authorization = << >> THEN "access_token_missing"
  ELSE IF Len(q.authorization) > 1 \/ q.authorization[1] = Malformed THEN "access_token_malformed"
  ELSE IF q.authorization[1] \notin Listed(settings.tokens) THEN "access_token_invalid"
  ELSE None

(* Fault: the token is looked at first.                                    *)
TokenFirstRejection(q) == IF TokenRejection(q) # None THEN TokenRejection(q) ELSE AclRejection(q)

Rejection(q) == IF AclRejection(q) # None THEN AclRejection(q) ELSE TokenRejection(q)

-----------------------------------------------------------------------------
(* main: invalid settings end the program before it serves.                *)
Start ==
  /\ server = "starting"
  /\ server' = IF SettingsAccepted THEN "serving" ELSE "refused"
  /\ UNCHANGED <<settings, request>>

(* A client sends a request; what it claims in the header is its own.      *)
Send ==
  /\ server = "serving" /\ request.stage = "idle"
  /\ \E from \in Addresses, claim \in Claims, lines \in Authorizations, path \in BOOLEAN :
       request' = [ stage |-> "travelling", hops |-> 0, protected |-> path, sender |-> from,
                    peer |-> from, forwarded |-> claim, authorization |-> lines,
                    reason |-> None, client_ip |-> None ]
  /\ UNCHANGED <<settings, server>>

(* A proxy opens a new line or extends the last one with the address of    *)
(* its peer; the edge proxy may first remove what the client sent.         *)
Extended(lines, address) ==
  IF lines = << >> THEN {<< <<address>> >>}
  ELSE { Append(lines, <<address>>), [lines EXCEPT ![Len(lines)] = Append(@, address)] }

Forward(proxy) ==
  /\ request.stage = "travelling" /\ request.hops < MaxHops /\ Trusted(proxy)
  /\ \E kept \in {request.forwarded, << >>} :
       /\ kept = << >> => request.hops = 0 \/ request.forwarded = << >>
       /\ \E lines \in Extended(kept, request.peer) :
            request' = [request EXCEPT !.hops = @ + 1, !.peer = proxy, !.forwarded = lines]
  /\ UNCHANGED <<settings, server>>

Reject ==
  /\ request.stage = "travelling" /\ request.protected /\ Rejection(request) # None
  /\ request' = [request EXCEPT !.stage = "rejected", !.reason = Rejection(request)]
  /\ UNCHANGED <<settings, server>>

(* The request reaches TracingMiddleware and a handler; the client address *)
(* that is logged and counted is the resolved one where it was resolved.   *)
Admit ==
  /\ request.stage = "travelling"
  /\ request.protected => Rejection(request) = None
  /\ request' = [request EXCEPT !.stage = "admitted",
                   !.client_ip = IF request.protected /\ HasAcl
                                 THEN ResolveClientIp(request) ELSE request.peer]
  /\ UNCHANGED <<settings, server>>

Finish ==
  /\ request.stage \in {"rejected", "admitted"}
  /\ request' = [stage |-> "idle"]
  /\ UNCHANGED <<settings, server>>

AdmissionInit ==
  /\ settings \in Settings
  /\ server = "starting"
  /\ request = [stage |-> "idle"]

AdmissionNext ==
  \/ Start
  \/ Send
  \/ \E proxy \in Addresses : Forward(proxy)
  \/ Reject
  \/ Admit
  \/ Finish

AdmissionSpec == AdmissionInit /\ [][AdmissionNext]_admissionVars

-----------------------------------------------------------------------------
(* Properties.                                                             *)

Line == Seq(Addresses \cup {Malformed}) \ {<< >>}

Request == [ stage : {"travelling", "rejected", "admitted"}, hops : 0 .. MaxHops,
             protected : BOOLEAN, sender : Addresses, peer : Addresses, forwarded : Seq(Line),
             authorization : Seq(Tokens \cup {Malformed}), reason : Rejections \cup {None},
             client_ip : Addresses \cup {None} ]

(* Requests travel only while a server with valid settings runs; a reason  *)
(* goes with a rejection and a client address with an admission.           *)
AdmissionTypeOK ==
  /\ settings \in Settings
  /\ server \in {"starting", "refused", "serving"}
  /\ \/ request = [stage |-> "idle"]
     \/ /\ request \in Request
        /\ server = "serving"
        /\ request.reason # None <=> request.stage = "rejected"
        /\ request.client_ip # None <=> request.stage = "admitted"

(* The table of docs/config.md: without addresses every client may call.   *)
ClientPermitted(address) ==
  \/ settings.allowlist \in {Unset, <<Blank>>, <<Star>>}
  \/ \E net \in Range(settings.allowlist) \cap Networks : address \in Covers[net]

TokenPermitted(lines) ==
  \/ settings.tokens \in {Unset, <<Blank>>}
  \/ \E token \in Range(settings.tokens) \cap Tokens : lines = <<token>>

Is(stage) == request.stage = stage /\ request.protected

(* "both must pass" (docs/config.md): a protected handler only runs for a  *)
(* permitted client with a configured token.  What counts is the address   *)
(* that the first trusted proxy saw, whatever the client writes into the   *)
(* forwarding header and however many proxies extend it.                   *)
AdmittedClientsArePermitted ==
  Is("admitted") => /\ Trusted(request.sender) \/ ClientPermitted(request.sender)
                    /\ TokenPermitted(request.authorization)

(* The other way round, a rejection has its reason: the address is not on  *)
(* the list; the chain cannot be resolved, which proxies alone never       *)
(* cause; or the address is fine, "ACL first", and the token is not.       *)
RejectionsAreJustified ==
  /\ request.stage = "rejected" => request.protected
  /\ Is("rejected") =>
       LET client == request.sender IN
       CASE request.reason = "client_ip_not_allowed" -> Trusted(client) \/ ~ClientPermitted(client)
         [] request.reason = "client_ip_unresolved" ->
              Trusted(client) \/ \E line \in Range(request.forwarded) : Malformed \in Range(line)
         [] OTHER -> /\ Trusted(client) \/ ClientPermitted(client)
                     /\ ~TokenPermitted(request.authorization)

(* The address under which a request is logged and counted is that of the  *)
(* client, not of the last proxy, wherever an allowlist is in force.       *)
RecordedClientIsSender ==
  Is("admitted") /\ HasAcl /\ ~Trusted(request.sender) => request.client_ip = request.sender

=============================================================================
