-------------------------- MODULE AdmissionProofs --------------------------
(* Theorems about Admission: whatever clients claim and however long the   *)
(* way through trusted proxies is, the decision is about the sender.  And  *)
(* about BearerToken, the check of the tokens that Admission compares.     *)
EXTENDS Admission, BearerToken, WellFoundedInduction, TLAPS

-----------------------------------------------------------------------------
(* The chain of a forwarding header.                                       *)

LEMMA PlaceIsPair ==
  ASSUME NEW lines, NEW place
  PROVE  place \in Places(lines)
           <=> \E v \in DOMAIN lines : \E e \in DOMAIN lines[v] : place = <<v, e>>
BY DEF Places

LEMMA EntryOfPair ==
  ASSUME NEW lines, NEW v \in DOMAIN lines, NEW e \in DOMAIN lines[v]
  PROVE  <<v, e>> \in Places(lines) /\ EntryAt(lines, <<v, e>>) = lines[v][e]
BY DEF Places, EntryAt

(* A proxy adds one entry, after all others, and changes none.             *)
ExtendsBy(new, lines, address, last) ==
  /\ last \in Places(new)
  /\ EntryAt(new, last) = address
  /\ \A place \in Places(new) : place = last \/ place \in Places(lines)
  /\ \A place \in Places(lines) : /\ place \in Places(new)
                                  /\ EntryAt(new, place) = EntryAt(lines, place)
                                  /\ After(last, place)

LEMMA NewLineExtends ==
  ASSUME NEW lines \in Seq(Line), NEW address \in Addresses
  PROVE  /\ Append(lines, <<address>>) \in Seq(Line)
         /\ ExtendsBy(Append(lines, <<address>>), lines, address, <<Len(lines) + 1, 1>>)
<1> DEFINE new == Append(lines, <<address>>)
<1> DEFINE last == <<Len(lines) + 1, 1>>
<1>1. <<address>> \in Line
  BY DEF Line
<1>2. new \in Seq(Line) /\ DOMAIN new = 1 .. Len(lines) + 1 /\ new[Len(lines) + 1] = <<address>>
  BY <1>1
<1>3. DOMAIN lines = 1 .. Len(lines) /\ \A v \in DOMAIN lines : new[v] = lines[v]
  BY <1>1
<1>4. Len(lines) \in Nat /\ 1 \in DOMAIN <<address>> /\ <<address>>[1] = address
      /\ \A e \in DOMAIN <<address>> : e = 1
  OBVIOUS
<1> HIDE DEF new
<1>5. last \in Places(new) /\ EntryAt(new, last) = address
  <2>1. Len(lines) + 1 \in DOMAIN new /\ 1 \in DOMAIN new[Len(lines) + 1]
    BY <1>2, <1>4
  <2> QED BY <1>2, <1>4, <2>1, EntryOfPair
<1>6. ASSUME NEW place \in Places(new)
      PROVE  place = last \/ place \in Places(lines)
  <2>1. PICK v \in DOMAIN new : \E e \in DOMAIN new[v] : place = <<v, e>>
    BY PlaceIsPair
  <2>2. CASE v = Len(lines) + 1
    BY <1>2, <1>4, <2>1, <2>2
  <2>3. CASE v # Len(lines) + 1
    BY <1>2, <1>3, <1>4, <2>1, <2>3, PlaceIsPair
  <2> QED BY <2>2, <2>3
<1>7. ASSUME NEW place \in Places(lines)
      PROVE  place \in Places(new) /\ EntryAt(new, place) = EntryAt(lines, place) /\ After(last, place)
  <2>1. PICK v \in DOMAIN lines : \E e \in DOMAIN lines[v] : place = <<v, e>>
    BY PlaceIsPair
  <2>2. PICK e \in DOMAIN lines[v] : place = <<v, e>>
    BY <2>1
  <2>3. v \in DOMAIN new /\ new[v] = lines[v] /\ Len(lines) + 1 > v
    BY <1>2, <1>3, <1>4
  <2>4. place \in Places(new) /\ EntryAt(new, place) = new[v][e]
    BY <2>2, <2>3, EntryOfPair
  <2>5. EntryAt(lines, place) = lines[v][e]
    BY <2>2, EntryOfPair
  <2>6. After(last, place)
    BY <2>2, <2>3 DEF After
  <2> QED BY <2>3, <2>4, <2>5, <2>6
<1>8. new \in Seq(Line) /\ ExtendsBy(new, lines, address, last)
  BY <1>2, <1>5, <1>6, <1>7 DEF ExtendsBy
<1> QED BY <1>8 DEF new

LEMMA LongerLineExtends ==
  ASSUME NEW lines \in Seq(Line), lines # << >>, NEW address \in Addresses
  PROVE  LET new == [lines EXCEPT ![Len(lines)] = Append(@, address)] IN
         /\ new \in Seq(Line)
         /\ ExtendsBy(new, lines, address, <<Len(lines), Len(lines[Len(lines)]) + 1>>)
<1> DEFINE n == Len(lines)
<1> DEFINE line == lines[n]
<1> DEFINE new == [lines EXCEPT ![n] = Append(@, address)]
<1> DEFINE last == <<n, Len(line) + 1>>
<1>1. n \in Nat /\ n \in DOMAIN lines /\ DOMAIN lines = 1 .. n
  OBVIOUS
<1>2. line \in Seq(Addresses \cup {Malformed})
  BY <1>1 DEF Line
<1>3. /\ Append(line, address) \in Line
      /\ DOMAIN Append(line, address) = 1 .. Len(line) + 1
      /\ DOMAIN line = 1 .. Len(line)
      /\ \A e \in DOMAIN line : Append(line, address)[e] = line[e]
      /\ Append(line, address)[Len(line) + 1] = address
  BY <1>2 DEF Line
<1>4. /\ new \in Seq(Line) /\ DOMAIN new = DOMAIN lines
      /\ new[n] = Append(line, address)
      /\ \A v \in DOMAIN lines : v # n => new[v] = lines[v]
  BY <1>1, <1>3
<1> HIDE DEF new
<1>5. last \in Places(new) /\ EntryAt(new, last) = address
  <2>1. n \in DOMAIN new /\ Len(line) + 1 \in DOMAIN new[n]
    BY <1>1, <1>2, <1>3, <1>4
  <2>2. new[n][Len(line) + 1] = address
    BY <1>3, <1>4
  <2> QED BY <2>1, <2>2, EntryOfPair
<1>6. ASSUME NEW place \in Places(new)
      PROVE  place = last \/ place \in Places(lines)
  <2>1. PICK v \in DOMAIN new : \E e \in DOMAIN new[v] : place = <<v, e>>
    BY PlaceIsPair
  <2>2. PICK e \in DOMAIN new[v] : place = <<v, e>>
    BY <2>1
  <2>3. CASE v = n /\ e \in DOMAIN line
    BY <1>1, <2>2, <2>3, PlaceIsPair
  <2>4. CASE v = n /\ e \notin DOMAIN line
    BY <1>2, <1>3, <1>4, <2>2, <2>4
  <2>5. CASE v # n
    BY <1>4, <2>2, <2>5, PlaceIsPair
  <2> QED BY <2>3, <2>4, <2>5
<1>7. ASSUME NEW place \in Places(lines)
      PROVE  place \in Places(new) /\ EntryAt(new, place) = EntryAt(lines, place) /\ After(last, place)
  <2>1. PICK v \in DOMAIN lines : \E e \in DOMAIN lines[v] : place = <<v, e>>
    BY PlaceIsPair
  <2>2. PICK e \in DOMAIN lines[v] : place = <<v, e>>
    BY <2>1
  <2>3. e \in DOMAIN new[v] /\ new[v][e] = lines[v][e] /\ v \in DOMAIN new
    BY <1>2, <1>3, <1>4
  <2>4. EntryAt(lines, place) = lines[v][e] /\ EntryAt(new, place) = new[v][e] /\ place \in Places(new)
    BY <2>2, <2>3, EntryOfPair
  <2>5. CASE v = n
    <3>1. Len(line) + 1 > e
      BY <1>2, <1>3, <2>5
    <3> QED BY <2>2, <2>3, <2>4, <2>5, <3>1 DEF After
  <2>6. CASE v # n
    <3>1. n > v
      BY <1>1, <2>6
    <3> QED BY <2>2, <2>3, <2>4, <3>1 DEF After
  <2> QED BY <2>5, <2>6
<1>8. new \in Seq(Line) /\ ExtendsBy(new, lines, address, last)
  BY <1>4, <1>5, <1>6, <1>7 DEF ExtendsBy
<1> QED BY <1>8 DEF new

LEMMA ProxyExtends ==
  ASSUME NEW lines \in Seq(Line), NEW address \in Addresses, NEW new \in Extended(lines, address)
  PROVE  new \in Seq(Line) /\ \E last : ExtendsBy(new, lines, address, last)
<1>1. CASE new = Append(lines, <<address>>)
  BY <1>1, NewLineExtends
<1>2. CASE lines # << >> /\ new = [lines EXCEPT ![Len(lines)] = Append(@, address)]
  BY <1>2, LongerLineExtends
<1>3. lines = << >> => << <<address>> >> = Append(lines, <<address>>)
  OBVIOUS
<1> QED BY <1>1, <1>2, <1>3 DEF Extended

-----------------------------------------------------------------------------
(* The rightmost untrusted entry exists and is unique.                     *)

LEMMA HasGreatest ==
  ASSUME NEW n \in Nat, NEW T, T # {}, T \subseteq 1 .. n
  PROVE  \E x \in T : \A y \in T : y <= x
<1> DEFINE Less == {ss \in Nat \X Nat : ss[1] < ss[2]}
<1> DEFINE Distances == {d \in Nat : n - d \in T}
<1>1. IsWellFoundedOn(Less, Nat)
  BY NatLessThanWellFounded DEF OpToRel
<1>2. \A x \in T : x \in Nat /\ n - x \in Nat /\ n - (n - x) = x
  BY SMT
<1>3. Distances \subseteq Nat /\ Distances # {}
  BY <1>2
<1>4. PICK d \in Distances : \A e \in Distances : ~ (<<e, d>> \in Less)
  <2> HIDE DEF Less, Distances
  <2> QED BY <1>1, <1>3, WFMin
<1>5. ASSUME NEW e \in Distances PROVE e >= d
  <2>1. e \in Nat /\ d \in Nat /\ <<e, d>> \in Nat \X Nat
    BY <1>3
  <2>2. e < d => <<e, d>> \in Less
    BY <2>1
  <2> QED BY <1>4, <2>1, <2>2
<1>6. n - d \in T
  BY <1>4
<1>7. ASSUME NEW y \in T PROVE y <= n - d
  <2>1. n - y \in Distances
    BY <1>2
  <2>2. n - y >= d
    BY <1>5, <2>1
  <2> QED BY <1>2, <1>3, <2>2
<1> QED BY <1>6, <1>7

LEMMA RightmostExists ==
  ASSUME NEW lines \in Seq(Line), Untrusted(lines) # {}
  PROVE  \E place \in Places(lines) : IsRightmostUntrusted(lines, place)
<1> DEFINE U == Untrusted(lines)
<1> DEFINE Rows == {v \in DOMAIN lines : \E e \in DOMAIN lines[v] : <<v, e>> \in U}
<1>1. \A place \in U : \E v \in DOMAIN lines : \E e \in DOMAIN lines[v] : place = <<v, e>>
  BY PlaceIsPair DEF Untrusted
<1>2. Rows # {} /\ Rows \subseteq 1 .. Len(lines) /\ Len(lines) \in Nat
  <2>1. Rows # {}
    BY <1>1
  <2> QED BY <2>1
<1>3. PICK v \in Rows : \A w \in Rows : w <= v
  <2> HIDE DEF Rows
  <2> QED BY <1>2, HasGreatest
<1> DEFINE Columns == {e \in DOMAIN lines[v] : <<v, e>> \in U}
<1>4. Columns # {} /\ Columns \subseteq 1 .. Len(lines[v]) /\ Len(lines[v]) \in Nat
  <2>1. lines[v] \in Seq(Addresses \cup {Malformed})
    BY <1>3 DEF Line
  <2> QED BY <1>3, <2>1
<1>5. PICK e \in Columns : \A f \in Columns : f <= e
  <2> HIDE DEF Columns
  <2> QED BY <1>4, HasGreatest
<1>6. v \in Nat /\ e \in Nat
  BY <1>2, <1>4, <1>5
<1>7. ASSUME NEW other \in U
      PROVE  other = <<v, e>> \/ After(<<v, e>>, other)
  <2>1. PICK w \in DOMAIN lines : \E f \in DOMAIN lines[w] : other = <<w, f>>
    BY <1>1
  <2>2. PICK f \in DOMAIN lines[w] : other = <<w, f>>
    BY <2>1
  <2>3. w \in Rows /\ w <= v /\ w \in Nat
    <3>1. w \in Rows
      BY <2>2
    <3> HIDE DEF Rows
    <3>2. w <= v
      BY <1>3, <3>1
    <3>3. w \in Nat
      BY <1>2, <3>1
    <3> QED BY <3>1, <3>2, <3>3
  <2>4. CASE w = v
    <3>1. f \in Columns
      BY <2>2, <2>4
    <3>2. f <= e /\ f \in Nat
      BY <1>4, <1>5, <3>1
    <3>3. f = e \/ e > f
      BY <1>6, <3>2
    <3> QED BY <2>2, <2>4, <3>3 DEF After
  <2>5. CASE w # v
    <3>1. v > w
      BY <1>6, <2>3, <2>5
    <3> QED BY <2>2, <3>1 DEF After
  <2> QED BY <2>4, <2>5
<1>8. <<v, e>> \in U
  BY <1>5
<1> QED BY <1>7, <1>8 DEF IsRightmostUntrusted, Untrusted

LEMMA RightmostIsUnique ==
  ASSUME NEW lines \in Seq(Line), NEW p, NEW q,
         IsRightmostUntrusted(lines, p), IsRightmostUntrusted(lines, q)
  PROVE  p = q
<1>1. p \in Untrusted(lines) /\ q \in Untrusted(lines)
  BY DEF IsRightmostUntrusted
<1>2. PICK v \in DOMAIN lines : \E e \in DOMAIN lines[v] : p = <<v, e>>
  BY <1>1, PlaceIsPair DEF Untrusted
<1>3. PICK w \in DOMAIN lines : \E f \in DOMAIN lines[w] : q = <<w, f>>
  BY <1>1, PlaceIsPair DEF Untrusted
<1>4. PICK e \in DOMAIN lines[v] : p = <<v, e>>
  BY <1>2
<1>5. PICK f \in DOMAIN lines[w] : q = <<w, f>>
  BY <1>3
<1>6. v \in Nat /\ w \in Nat /\ e \in Nat /\ f \in Nat
  BY <1>4, <1>5 DEF Line
<1>7. ~ (After(p, q) /\ After(q, p))
  BY <1>4, <1>5, <1>6 DEF After
<1> QED BY <1>1, <1>7 DEF IsRightmostUntrusted

-----------------------------------------------------------------------------
(* What the middleware takes for the client.                               *)

LEMMA ResolvedType ==
  ASSUME NEW lines \in Seq(Line)
  PROVE  ForwardedClientIp(lines) \in Addresses \cup {None}
<1> SUFFICES ASSUME ~MalformedForwardedFor(lines), lines # << >>
             PROVE  ForwardedClientIp(lines) \in Addresses
  BY DEF ForwardedClientIp
<1>1. ASSUME NEW place \in Places(lines) PROVE EntryAt(lines, place) \in Addresses
  <2>1. PICK v \in DOMAIN lines : \E e \in DOMAIN lines[v] : place = <<v, e>>
    BY PlaceIsPair
  <2>2. PICK e \in DOMAIN lines[v] : place = <<v, e>>
    BY <2>1
  <2>3. lines[v] \in Seq(Addresses \cup {Malformed})
    BY DEF Line
  <2>4. lines[v][e] \in Addresses \cup {Malformed}
    BY <2>3
  <2>5. EntryAt(lines, place) = lines[v][e]
    BY <2>2, EntryOfPair
  <2> QED BY <2>4, <2>5 DEF MalformedForwardedFor
<1>2. CASE Untrusted(lines) = {}
  <2>1. 1 \in DOMAIN lines /\ 1 \in DOMAIN lines[1]
    <3>1. 1 \in DOMAIN lines
      OBVIOUS
    <3>2. lines[1] \in Seq(Addresses \cup {Malformed}) /\ lines[1] # << >>
      BY <3>1 DEF Line
    <3> QED BY <3>1, <3>2
  <2>2. lines[1][1] \in Addresses
    BY <1>1, <2>1, EntryOfPair
  <2> QED BY <1>2, <2>2 DEF ForwardedClientIp
<1>3. CASE Untrusted(lines) # {}
  <2> DEFINE chosen == CHOOSE place \in Places(lines) : IsRightmostUntrusted(lines, place)
  <2>1. chosen \in Places(lines)
    BY <1>3, RightmostExists
  <2> QED BY <1>1, <1>3, <2>1 DEF ForwardedClientIp
<1> QED BY <1>2, <1>3

(* The peer is the sender, or a proxy whose chain names the sender at the  *)
(* place at which the resolution stops.                                    *)
NamesSender(q) ==
  \E place \in Places(q.forwarded) : /\ EntryAt(q.forwarded, place) = q.sender
                                     /\ IsRightmostUntrusted(q.forwarded, place)

SenderIsTraced(q) ==
  /\ q.hops = 0 => q.peer = q.sender
  /\ q.peer # q.sender => Trusted(q.peer) /\ (Trusted(q.sender) \/ NamesSender(q))

LEMMA ResolvedIsSender ==
  ASSUME NEW q \in Request, SenderIsTraced(q), ~Trusted(q.sender)
  PROVE  \/ ResolveClientIp(q) = q.sender
         \/ ResolveClientIp(q) = None /\ MalformedForwardedFor(q.forwarded)
<1>1. CASE ~Trusted(q.peer)
  BY <1>1 DEF SenderIsTraced, ResolveClientIp
<1>2. CASE Trusted(q.peer)
  <2>1. PICK place \in Places(q.forwarded) : /\ EntryAt(q.forwarded, place) = q.sender
                                            /\ IsRightmostUntrusted(q.forwarded, place)
    BY <1>2 DEF SenderIsTraced, NamesSender
  <2>2. q.forwarded \in Seq(Line)
    BY DEF Request
  <2>3. place = CHOOSE p \in Places(q.forwarded) : IsRightmostUntrusted(q.forwarded, p)
    BY <2>1, <2>2, RightmostIsUnique
  <2>4. Untrusted(q.forwarded) # {} /\ q.forwarded # << >>
    BY <2>1 DEF IsRightmostUntrusted, Places
  <2> QED BY <1>2, <2>1, <2>3, <2>4 DEF ResolveClientIp, ForwardedClientIp
<1> QED BY <1>1, <1>2

-----------------------------------------------------------------------------
(* The inductive invariant: the journey so far leads back to the sender,   *)
(* and a decision is the one that the settings and the request call for.   *)

Decided(q) ==
  /\ q.stage = "rejected" => q.protected /\ q.reason = Rejection(q)
  /\ q.stage = "admitted" =>
       /\ q.protected => Rejection(q) = None
       /\ q.client_ip = IF q.protected /\ HasAcl THEN ResolveClientIp(q) ELSE q.peer

AdmissionInv ==
  /\ AdmissionTypeOK
  /\ server = "serving" => SettingsAccepted
  /\ request.stage # "idle" => SenderIsTraced(request) /\ Decided(request)

LEMMA RejectionType ==
  ASSUME NEW q
  PROVE  Rejection(q) \in Rejections \cup {None}
BY DEF Rejection, AclRejection, TokenRejection, Rejections

(* The reason tells which of the two checks failed.                        *)
LEMMA RejectionReason ==
  ASSUME NEW q
  PROVE  /\ Rejection(q) = None <=> AclRejection(q) = None /\ TokenRejection(q) = None
         /\ Rejection(q) = "client_ip_unresolved" => HasAcl /\ ResolveClientIp(q) = None
         /\ Rejection(q) = "client_ip_not_allowed" =>
              /\ HasAcl /\ ResolveClientIp(q) # None
              /\ ~InNets(ResolveClientIp(q), Listed(settings.allowlist))
         /\ Rejection(q) \notin {None, "client_ip_unresolved", "client_ip_not_allowed"} =>
              AclRejection(q) = None /\ TokenRejection(q) # None
<1>1. AclRejection(q) \in {None, "client_ip_unresolved", "client_ip_not_allowed"}
  BY DEF AclRejection
<1>2. TokenRejection(q) \in {None, "access_token_missing", "access_token_malformed", "access_token_invalid"}
  BY DEF TokenRejection
<1>3. None \notin Rejections
  BY AdmissionAssumption
<1>4. AclRejection(q) = "client_ip_unresolved" => HasAcl /\ ResolveClientIp(q) = None
  BY <1>3 DEF AclRejection, Rejections
<1>5. AclRejection(q) = "client_ip_not_allowed" =>
        /\ HasAcl /\ ResolveClientIp(q) # None
        /\ ~InNets(ResolveClientIp(q), Listed(settings.allowlist))
  BY <1>3 DEF AclRejection, Rejections
<1> QED BY <1>1, <1>2, <1>3, <1>4, <1>5 DEF Rejection, Rejections

(* One more proxy on the way keeps the sender traced.                      *)
LEMMA ForwardTraces ==
  ASSUME NEW q \in Request, SenderIsTraced(q), NEW proxy, Trusted(proxy),
         NEW kept \in {q.forwarded, << >>}, kept = << >> => q.hops = 0 \/ q.forwarded = << >>,
         NEW lines \in Extended(kept, q.peer), NEW r,
         r.hops # 0, r.peer = proxy, r.sender = q.sender, r.forwarded = lines
  PROVE  SenderIsTraced(r) /\ lines \in Seq(Line)
<1>1. kept \in Seq(Line) /\ q.peer \in Addresses
  <2>1. q.forwarded \in Seq(Line) /\ q.peer \in Addresses
    BY DEF Request
  <2>2. << >> \in Seq(Line)
    OBVIOUS
  <2> QED BY <2>1, <2>2, Zenon
<1>2. lines \in Seq(Line) /\ \E last : ExtendsBy(lines, kept, q.peer, last)
  BY <1>1, ProxyExtends, Zenon
<1>3. PICK last : ExtendsBy(lines, kept, q.peer, last)
  BY <1>2
<1>4. ASSUME ~Trusted(q.sender) PROVE NamesSender(r)
  <2>1. CASE q.peer = q.sender
    <3>1. last \in Places(lines) /\ EntryAt(lines, last) = q.sender
      BY <1>3, <2>1 DEF ExtendsBy
    <3>2. IsRightmostUntrusted(lines, last)
      BY <1>3, <1>4, <3>1 DEF ExtendsBy, IsRightmostUntrusted, Untrusted
    <3> QED BY <3>1, <3>2 DEF NamesSender
  <2>2. CASE q.peer # q.sender
    <3>1. Trusted(q.peer) /\ NamesSender(q) /\ q.hops # 0
      BY <1>4, <2>2 DEF SenderIsTraced
    <3>2. PICK place \in Places(q.forwarded) : /\ EntryAt(q.forwarded, place) = q.sender
                                              /\ IsRightmostUntrusted(q.forwarded, place)
      BY <3>1 DEF NamesSender
    <3>3. kept = q.forwarded
      BY <3>1
    <3>4. /\ place \in Places(lines)
          /\ EntryAt(lines, place) = q.sender
      BY <1>3, <3>2, <3>3 DEF ExtendsBy
    <3>5. Untrusted(lines) = Untrusted(q.forwarded)
      BY <1>3, <3>1, <3>3 DEF ExtendsBy, Untrusted
    <3>6. IsRightmostUntrusted(lines, place)
      BY <3>2, <3>5 DEF IsRightmostUntrusted
    <3> QED BY <3>4, <3>6 DEF NamesSender
  <2> QED BY <2>1, <2>2
<1> QED BY <1>2, <1>4 DEF SenderIsTraced

(* Nothing but the settings and four fields of the request decides.        *)
LEMMA SameDecision ==
  ASSUME UNCHANGED settings, request'.peer = request.peer,
         request'.forwarded = request.forwarded,
         request'.authorization = request.authorization
  PROVE  /\ Rejection(request)' = Rejection(request)
         /\ ResolveClientIp(request)' = ResolveClientIp(request)
         /\ HasAcl' = HasAcl
<1>1. HasAcl' = HasAcl
  BY DEF HasAcl, OpenAccess, IsBlank
<1>2. ResolveClientIp(request)' = ResolveClientIp(request)
  BY DEF ResolveClientIp, ForwardedClientIp, MalformedForwardedFor, Untrusted,
         IsRightmostUntrusted, Trusted, InNets, Listed, IsBlank
<1>3. TokenRejection(request)' = TokenRejection(request)
  BY DEF TokenRejection, Listed, IsBlank
<1>4. InNets(ResolveClientIp(request), Listed(settings.allowlist))'
        = InNets(ResolveClientIp(request), Listed(settings.allowlist))
  BY <1>2 DEF InNets, Listed, IsBlank
<1>5. AclRejection(request)' = AclRejection(request)
  BY <1>1, <1>2, <1>4 DEF AclRejection
<1> QED BY <1>1, <1>2, <1>3, <1>5 DEF Rejection

LEMMA SameTrace ==
  ASSUME UNCHANGED settings, SenderIsTraced(request), request'.peer = request.peer,
         request'.forwarded = request.forwarded, request'.hops = request.hops,
         request'.sender = request.sender
  PROVE  SenderIsTraced(request)'
BY DEF SenderIsTraced, NamesSender, Untrusted, IsRightmostUntrusted, Trusted, InNets, Listed,
       IsBlank

LEMMA SameSettings ==
  ASSUME UNCHANGED settings, SettingsAccepted
  PROVE  SettingsAccepted'
BY DEF SettingsAccepted, OpenAccess, Listed, IsBlank

LEMMA AdmissionInitially == AdmissionInit => AdmissionInv
BY DEF AdmissionInit, AdmissionInv, AdmissionTypeOK

LEMMA AdmissionInductive == AdmissionInv /\ [AdmissionNext]_admissionVars => AdmissionInv'
<1> SUFFICES ASSUME AdmissionInv, [AdmissionNext]_admissionVars
             PROVE  AdmissionInv'
  OBVIOUS
<1> USE AdmissionAssumption
<1>1. CASE Start
  <2>1. request = [stage |-> "idle"]
    BY <1>1 DEF Start, AdmissionInv, AdmissionTypeOK
  <2>2. server' = "serving" => SettingsAccepted'
    BY <1>1, SameSettings DEF Start
  <2> QED BY <1>1, <2>1, <2>2 DEF Start, AdmissionInv, AdmissionTypeOK
<1>2. CASE Send
  <2>1. PICK from \in Addresses, claim \in Claims, lines \in Authorizations, path \in BOOLEAN :
          request' = [ stage |-> "travelling", hops |-> 0, protected |-> path, sender |-> from,
                       peer |-> from, forwarded |-> claim, authorization |-> lines,
                       reason |-> None, client_ip |-> None ]
    BY <1>2 DEF Send
  <2>2. request' \in Request
    BY <2>1 DEF Request, Line
  <2>3. AdmissionTypeOK'
    BY <1>2, <2>1, <2>2 DEF Send, AdmissionInv, AdmissionTypeOK
  <2>4. SenderIsTraced(request)' /\ Decided(request)'
    BY <2>1 DEF SenderIsTraced, Decided
  <2>5. SettingsAccepted'
    BY <1>2, SameSettings DEF Send, AdmissionInv
  <2> QED BY <2>3, <2>4, <2>5 DEF AdmissionInv
<1>3. ASSUME NEW proxy \in Addresses, Forward(proxy)
      PROVE  AdmissionInv'
  <2>1. request \in Request /\ request.stage = "travelling" /\ server = "serving"
    BY <1>3 DEF Forward, AdmissionInv, AdmissionTypeOK
  <2>2. PICK kept \in {request.forwarded, << >>} :
          /\ kept = << >> => request.hops = 0 \/ request.forwarded = << >>
          /\ \E lines \in Extended(kept, request.peer) :
               request' = [request EXCEPT !.hops = @ + 1, !.peer = proxy, !.forwarded = lines]
    BY <1>3 DEF Forward
  <2>3. PICK lines \in Extended(kept, request.peer) :
          request' = [request EXCEPT !.hops = @ + 1, !.peer = proxy, !.forwarded = lines]
    BY <2>2
  <2>4. /\ request.hops \in 0 .. MaxHops /\ request.hops < MaxHops
        /\ request'.hops = request.hops + 1 /\ request'.peer = proxy
        /\ request'.sender = request.sender /\ request'.forwarded = lines
        /\ request'.stage = "travelling" /\ request'.reason = request.reason
        /\ request'.client_ip = request.client_ip
    BY <1>3, <2>1, <2>3 DEF Forward, Request
  <2>5. request'.hops # 0 /\ request'.hops \in 0 .. MaxHops
    BY <2>4
  <2>6. SenderIsTraced(request') /\ lines \in Seq(Line)
    <3>1. SenderIsTraced(request) /\ Trusted(proxy)
      BY <1>3, <2>1 DEF Forward, AdmissionInv
    <3> QED BY <2>1, <2>2, <2>4, <2>5, <3>1, ForwardTraces
  <2>7. SenderIsTraced(request)'
    BY <1>3, <2>6 DEF Forward, SenderIsTraced, NamesSender, Untrusted, IsRightmostUntrusted,
         Trusted, InNets, Listed, IsBlank
  <2>8. request' \in Request
    BY <2>1, <2>3, <2>5, <2>6 DEF Request
  <2>9. AdmissionTypeOK'
    BY <1>3, <2>1, <2>4, <2>8 DEF Forward, AdmissionInv, AdmissionTypeOK
  <2>10. SettingsAccepted' /\ Decided(request)'
    BY <1>3, <2>1, <2>4, SameSettings DEF Forward, AdmissionInv, Decided
  <2> QED BY <2>7, <2>9, <2>10 DEF AdmissionInv
<1>4. CASE Reject
  <2>1. request \in Request /\ request.stage = "travelling" /\ server = "serving"
    BY <1>4 DEF Reject, AdmissionInv, AdmissionTypeOK
  <2>2. Rejection(request) \in Rejections \cup {None}
    BY RejectionType
  <2>3. /\ request' \in Request /\ request'.stage = "rejected" /\ request'.protected
        /\ request'.reason = Rejection(request) /\ request'.client_ip = request.client_ip
        /\ request'.peer = request.peer /\ request'.forwarded = request.forwarded
        /\ request'.authorization = request.authorization
        /\ request'.hops = request.hops /\ request'.sender = request.sender
    BY <1>4, <2>1, <2>2 DEF Reject, Request
  <2>4. AdmissionTypeOK'
    BY <1>4, <2>1, <2>3 DEF Reject, AdmissionInv, AdmissionTypeOK
  <2>5. SettingsAccepted' /\ SenderIsTraced(request)'
    BY <1>4, <2>1, <2>3, SameSettings, SameTrace DEF Reject, AdmissionInv
  <2>6. Decided(request)'
    BY <1>4, <2>3, SameDecision DEF Reject, Decided
  <2> QED BY <2>4, <2>5, <2>6 DEF AdmissionInv
<1>5. CASE Admit
  <2>1. request \in Request /\ request.stage = "travelling" /\ server = "serving"
    BY <1>5 DEF Admit, AdmissionInv, AdmissionTypeOK
  <2>2. /\ request'.stage = "admitted" /\ request'.protected = request.protected
        /\ request'.client_ip = IF request.protected /\ HasAcl
                                THEN ResolveClientIp(request) ELSE request.peer
        /\ request'.reason = request.reason
        /\ request'.peer = request.peer /\ request'.forwarded = request.forwarded
        /\ request'.authorization = request.authorization
        /\ request'.hops = request.hops /\ request'.sender = request.sender
    BY <1>5, <2>1 DEF Admit, Request
  <2>3. request'.client_ip \in Addresses
    <3>1. CASE request.protected /\ HasAcl
      <4>1. ResolveClientIp(request) # None
        <5>1. Rejection(request) = None
          BY <1>5, <3>1 DEF Admit
        <5>2. AclRejection(request) = None
          BY <5>1, RejectionReason
        <5> QED BY <3>1, <5>2 DEF AclRejection, Rejections
      <4>2. request.forwarded \in Seq(Line) /\ request.peer \in Addresses
        BY <2>1 DEF Request
      <4> QED BY <2>2, <3>1, <4>1, <4>2, ResolvedType DEF ResolveClientIp
    <3>2. CASE ~(request.protected /\ HasAcl)
      BY <2>1, <2>2, <3>2 DEF Request
    <3> QED BY <3>1, <3>2
  <2>4. request' \in Request
    BY <1>5, <2>1, <2>2, <2>3 DEF Admit, Request
  <2>5. AdmissionTypeOK'
    BY <1>5, <2>1, <2>2, <2>3, <2>4 DEF Admit, AdmissionInv, AdmissionTypeOK
  <2>6. SettingsAccepted' /\ SenderIsTraced(request)'
    BY <1>5, <2>1, <2>2, SameSettings, SameTrace DEF Admit, AdmissionInv
  <2>7. Decided(request)'
    <3>1. /\ Rejection(request)' = Rejection(request)
          /\ ResolveClientIp(request)' = ResolveClientIp(request)
          /\ HasAcl' = HasAcl
      BY <1>5, <2>2, SameDecision DEF Admit
    <3>2. request'.protected => Rejection(request)' = None
      BY <1>5, <2>2, <3>1 DEF Admit
    <3> QED BY <2>2, <3>1, <3>2 DEF Decided
  <2> QED BY <2>5, <2>6, <2>7 DEF AdmissionInv
<1>6. CASE Finish
  <2>1. server' = "serving" => SettingsAccepted'
    BY <1>6, SameSettings DEF Finish, AdmissionInv
  <2> QED BY <1>6, <2>1 DEF Finish, AdmissionInv, AdmissionTypeOK
<1>7. CASE UNCHANGED admissionVars
  <2>1. server' = "serving" => SettingsAccepted'
    BY <1>7, SameSettings DEF admissionVars, AdmissionInv
  <2>2. request'.stage # "idle" => SenderIsTraced(request)'
    BY <1>7, SameTrace DEF admissionVars, AdmissionInv
  <2>3. request'.stage # "idle" => Decided(request)'
    BY <1>7, SameDecision DEF admissionVars, AdmissionInv, Decided
  <2> QED BY <1>7, <2>1, <2>2, <2>3 DEF admissionVars, AdmissionInv, AdmissionTypeOK
<1> QED BY <1>1, <1>2, <1>3, <1>4, <1>5, <1>6, <1>7 DEF AdmissionNext

(* In every state of AdmissionSpec the journey leads back to the sender.   *)
THEOREM AdmissionInvariance == AdmissionSpec => []AdmissionInv
BY AdmissionInitially, AdmissionInductive, PTL DEF AdmissionSpec

(* AdmissionTypeOK: requests travel only while a server with valid settings *)
(* runs, and no admission is without a client address.                     *)
THEOREM AdmissionTypeCorrectness == AdmissionSpec => []AdmissionTypeOK
BY AdmissionInvariance, PTL DEF AdmissionInv

-----------------------------------------------------------------------------
(* What the two checks mean for the sender.                                *)

LEMMA SettingsShape ==
  ASSUME AdmissionTypeOK, NEW value \in {settings.allowlist, settings.tokens}
  PROVE  ~IsBlank(value) => Listed(value) = Range(value) /\ value \in Seq(Entries) /\ value # << >>
BY AdmissionAssumption DEF AdmissionTypeOK, IsBlank, Listed, Lists

LEMMA AllowlistMeaning ==
  ASSUME AdmissionTypeOK, SettingsAccepted, NEW address
  PROVE  ClientPermitted(address) <=> ~HasAcl \/ InNets(address, Listed(settings.allowlist))
<1>1. CASE ~HasAcl
  BY <1>1 DEF HasAcl, OpenAccess, IsBlank, ClientPermitted
<1>2. CASE HasAcl
  <2>1. Listed(settings.allowlist) = Range(settings.allowlist)
    BY <1>2 DEF HasAcl, OpenAccess, Listed
  <2>2. Listed(settings.allowlist) \subseteq Networks
    BY <1>2 DEF HasAcl, SettingsAccepted
  <2> QED BY <1>2, <2>1, <2>2 DEF HasAcl, OpenAccess, IsBlank, ClientPermitted, InNets
<1> QED BY <1>1, <1>2

LEMMA TokenMeaning ==
  ASSUME AdmissionTypeOK, SettingsAccepted, NEW q \in Request
  PROVE  TokenPermitted(q.authorization) <=> TokenRejection(q) = None
<1>1. CASE IsBlank(settings.tokens)
  BY <1>1 DEF IsBlank, Listed, TokenPermitted, TokenRejection
<1>2. CASE ~IsBlank(settings.tokens)
  <2>1. /\ Listed(settings.tokens) = Range(settings.tokens) /\ Range(settings.tokens) # {}
        /\ Range(settings.tokens) \subseteq Tokens
    <3>1. settings.tokens \in Seq(Entries) /\ settings.tokens # << >>
      BY <1>2, SettingsShape
    <3>2. 1 \in DOMAIN settings.tokens
      BY <3>1
    <3> QED BY <1>2, <3>2, SettingsShape DEF SettingsAccepted, Range
  <2>2. q.authorization \in Seq(Tokens \cup {Malformed}) /\ Malformed \notin Tokens
    BY AdmissionAssumption DEF Request
  <2>3. None \notin Rejections
    BY AdmissionAssumption
  <2>4. ASSUME TokenRejection(q) = None PROVE TokenPermitted(q.authorization)
    <3>1. /\ q.authorization # << >> /\ ~(Len(q.authorization) > 1)
          /\ q.authorization[1] \in Range(settings.tokens)
      BY <2>1, <2>3, <2>4 DEF TokenRejection, Rejections
    <3>2. q.authorization = <<q.authorization[1]>>
      BY <2>2, <3>1
    <3> QED BY <2>1, <3>1, <3>2 DEF TokenPermitted
  <2>5. ASSUME TokenPermitted(q.authorization) PROVE TokenRejection(q) = None
    <3>1. PICK t \in Range(settings.tokens) \cap Tokens : q.authorization = <<t>>
      BY <1>2, <2>5 DEF TokenPermitted, IsBlank
    <3>2. q.authorization # << >> /\ Len(q.authorization) = 1 /\ q.authorization[1] = t
      BY <3>1
    <3> QED BY <2>1, <2>2, <3>1, <3>2 DEF TokenRejection
  <2> QED BY <2>4, <2>5
<1> QED BY <1>1, <1>2

LEMMA DecidedRequest ==
  ASSUME AdmissionInv, request.stage # "idle"
  PROVE  /\ request \in Request /\ SettingsAccepted
         /\ SenderIsTraced(request) /\ Decided(request)
BY DEF AdmissionInv, AdmissionTypeOK

(* AdmittedClientsArePermitted, for all settings, claims and journeys.     *)
THEOREM AdmissionSoundness == AdmissionSpec => []AdmittedClientsArePermitted
<1>1. AdmissionInv => AdmittedClientsArePermitted
  <2> SUFFICES ASSUME AdmissionInv, Is("admitted")
               PROVE  /\ Trusted(request.sender) \/ ClientPermitted(request.sender)
                      /\ TokenPermitted(request.authorization)
    BY DEF AdmittedClientsArePermitted
  <2>1. AdmissionTypeOK /\ request.stage = "admitted" /\ request.protected
    BY DEF AdmissionInv, Is
  <2>2. /\ request \in Request /\ SettingsAccepted
        /\ SenderIsTraced(request) /\ Decided(request)
    BY <2>1, DecidedRequest
  <2>3. AclRejection(request) = None /\ TokenRejection(request) = None
    BY <2>1, <2>2, RejectionReason DEF Decided
  <2>4. ASSUME ~Trusted(request.sender), HasAcl
        PROVE  InNets(request.sender, Listed(settings.allowlist))
    <3>1. None \notin Rejections
      BY AdmissionAssumption
    <3>2. /\ ResolveClientIp(request) # None
          /\ InNets(ResolveClientIp(request), Listed(settings.allowlist))
      BY <2>3, <2>4, <3>1 DEF AclRejection, Rejections
    <3> QED BY <2>2, <2>4, <3>2, ResolvedIsSender
  <2> QED BY <2>1, <2>2, <2>3, <2>4, AllowlistMeaning, TokenMeaning
<1> QED BY <1>1, AdmissionInvariance, PTL

(* RejectionsAreJustified: no request is turned away for a reason that     *)
(* does not hold of its sender.                                            *)
THEOREM RejectionSoundness == AdmissionSpec => []RejectionsAreJustified
<1>1. AdmissionInv => RejectionsAreJustified
  <2> SUFFICES ASSUME AdmissionInv, request.stage = "rejected"
               PROVE  RejectionsAreJustified
    BY DEF RejectionsAreJustified, Is
  <2> DEFINE client == request.sender
  <2>1. /\ request \in Request /\ SettingsAccepted /\ AdmissionTypeOK
        /\ SenderIsTraced(request) /\ Decided(request)
    BY DecidedRequest DEF AdmissionInv
  <2>2. request.protected /\ request.reason = Rejection(request) /\ request.reason # None
    BY <2>1 DEF Decided, AdmissionTypeOK
  <2>3. \/ Trusted(client)
        \/ ResolveClientIp(request) = client
        \/ ResolveClientIp(request) = None /\ MalformedForwardedFor(request.forwarded)
    BY <2>1, ResolvedIsSender
  <2>4. ASSUME request.reason = "client_ip_not_allowed"
        PROVE  Trusted(client) \/ ~ClientPermitted(client)
    BY <2>1, <2>2, <2>3, <2>4, RejectionReason, AllowlistMeaning
  <2>5. ASSUME request.reason = "client_ip_unresolved", ~Trusted(client)
        PROVE  \E line \in Range(request.forwarded) : Malformed \in Range(line)
    <3>1. ResolveClientIp(request) = None /\ client \in Addresses /\ None \notin Addresses
      BY <2>1, <2>2, <2>5, RejectionReason, AdmissionAssumption DEF Request
    <3>2. PICK place \in Places(request.forwarded) : EntryAt(request.forwarded, place) = Malformed
      BY <2>3, <2>5, <3>1 DEF MalformedForwardedFor
    <3>3. PICK v \in DOMAIN request.forwarded :
            \E e \in DOMAIN request.forwarded[v] : place = <<v, e>>
      BY PlaceIsPair
    <3>4. PICK e \in DOMAIN request.forwarded[v] : place = <<v, e>>
      BY <3>3
    <3>5. request.forwarded[v][e] = Malformed
      BY <3>2, <3>4, EntryOfPair
    <3> QED BY <3>5 DEF Range
  <2>6. ASSUME request.reason \notin {"client_ip_not_allowed", "client_ip_unresolved"}
        PROVE  /\ Trusted(client) \/ ClientPermitted(client)
               /\ ~TokenPermitted(request.authorization)
    <3>1. AclRejection(request) = None /\ TokenRejection(request) # None
      BY <2>2, <2>6, RejectionReason
    <3>2. None \notin Rejections
      BY AdmissionAssumption
    <3>3. HasAcl => /\ ResolveClientIp(request) # None
                    /\ InNets(ResolveClientIp(request), Listed(settings.allowlist))
      BY <3>1, <3>2 DEF AclRejection, Rejections
    <3> QED BY <2>1, <2>3, <3>1, <3>3, AllowlistMeaning, TokenMeaning
  <2> QED BY <2>2, <2>4, <2>5, <2>6 DEF RejectionsAreJustified
<1> QED BY <1>1, AdmissionInvariance, PTL

(* RecordedClientIsSender: with an allowlist, logs and counters name the   *)
(* client that sent the request.                                           *)
THEOREM RecordedClient == AdmissionSpec => []RecordedClientIsSender
<1>1. AdmissionInv => RecordedClientIsSender
  <2> SUFFICES ASSUME AdmissionInv, Is("admitted"), HasAcl, ~Trusted(request.sender)
               PROVE  request.client_ip = request.sender
    BY DEF RecordedClientIsSender
  <2>1. AdmissionTypeOK /\ request.stage = "admitted" /\ request.protected
    BY DEF AdmissionInv, Is
  <2>2. request \in Request /\ SenderIsTraced(request) /\ Decided(request)
    BY <2>1, DecidedRequest
  <2>3. request.client_ip = ResolveClientIp(request) /\ request.client_ip # None
    BY <2>1, <2>2 DEF Decided, AdmissionTypeOK
  <2> QED BY <2>2, <2>3, ResolvedIsSender
<1> QED BY <1>1, AdmissionInvariance, PTL

-----------------------------------------------------------------------------
(* The check of a token, whatever its length.                              *)

(* What the pass knows: n letters, then padding up to the next byte.       *)
SeenSoFar ==
  /\ token \in Seq(Bytes)
  /\ next \in 1 .. Len(token) + 1
  /\ body_bytes \in 0 .. next - 1
  /\ padding_started \in BOOLEAN
  /\ padding_started <=> body_bytes < next - 1
  /\ \A i \in 1 .. body_bytes : token[i] = "letter"
  /\ \A i \in body_bytes + 1 .. next - 1 : token[i] = "padding"

BearerInv == SeenSoFar /\ VerdictIsGrammar

LEMMA RefusedByteEndsGrammar ==
  ASSUME SeenSoFar, RefuseByte
  PROVE  ~IsB64Token(token)
<1>1. /\ next \in 1 .. Len(token) /\ token[next] # "padding"
      /\ padding_started \/ token[next] # "letter"
  BY DEF RefuseByte, Looking, SeenSoFar
<1>2. SUFFICES ASSUME NEW n \in 1 .. Len(token),
                      \A i \in 1 .. n : token[i] = "letter",
                      \A i \in n + 1 .. Len(token) : token[i] = "padding"
               PROVE  FALSE
  BY DEF IsB64Token
<1>3. Len(token) \in Nat /\ body_bytes \in Nat /\ next \in Nat
  BY DEF SeenSoFar
<1>4. next <= n
  BY <1>1, <1>2, <1>3
<1>5. token[next] = "letter" /\ padding_started
  BY <1>1, <1>2, <1>3, <1>4
<1>6. body_bytes + 1 \in 1 .. n /\ token[body_bytes + 1] = "padding"
  BY <1>1, <1>3, <1>4, <1>5 DEF SeenSoFar
<1> QED BY <1>2, <1>6

LEMMA DecisionIsGrammar ==
  ASSUME SeenSoFar, Decide
  PROVE  body_bytes > 0 <=> IsB64Token(token)
<1>1. next = Len(token) + 1 /\ Len(token) \in Nat /\ body_bytes \in 0 .. Len(token)
  BY DEF Decide, SeenSoFar
<1>2. ASSUME body_bytes > 0 PROVE IsB64Token(token)
  BY <1>1, <1>2 DEF IsB64Token, SeenSoFar
<1>3. ASSUME IsB64Token(token) PROVE body_bytes > 0
  <2>1. 1 \in 1 .. Len(token) /\ token[1] = "letter"
    BY <1>1, <1>3 DEF IsB64Token
  <2> QED BY <1>1, <2>1 DEF SeenSoFar
<1> QED BY <1>2, <1>3

(* The pass never loses track of the letters and the padding it has seen,  *)
(* and its verdict agrees with the grammar.                                *)
THEOREM BearerInvariance == BearerSpec => []BearerInv
<1>1. ScanInit => BearerInv
  <2> SUFFICES ASSUME ScanInit PROVE BearerInv
    OBVIOUS
  <2>1. token \in Seq(Bytes)
    BY DEF ScanInit
  <2>2. Len(token) \in Nat
    BY <2>1
  <2>3. next = 1 /\ body_bytes = 0 /\ padding_started = FALSE
    BY DEF ScanInit
  <2>4. /\ next \in 1 .. Len(token) + 1 /\ body_bytes \in 0 .. next - 1 /\ ~(body_bytes < next - 1)
        /\ 1 .. body_bytes = {} /\ body_bytes + 1 .. next - 1 = {}
    BY <2>2, <2>3
  <2>5. SeenSoFar
    <3>1. padding_started \in BOOLEAN /\ (padding_started <=> body_bytes < next - 1)
      BY <2>3, <2>4
    <3> QED BY <2>1, <2>4, <3>1 DEF SeenSoFar
  <2> QED BY <2>5 DEF ScanInit, BearerInv, VerdictIsGrammar
<1>2. BearerInv /\ [ScanNext]_bearerVars => BearerInv'
  <2> SUFFICES ASSUME BearerInv, [ScanNext]_bearerVars PROVE BearerInv'
    OBVIOUS
  <2> USE DEF BearerInv
  <2>1. CASE SeePadding
    <3>1. SeenSoFar'
      BY <2>1 DEF SeePadding, Looking, SeenSoFar
    <3> QED BY <2>1, <3>1 DEF SeePadding, Looking, VerdictIsGrammar
  <2>2. CASE SeeLetter
    <3>1. SeenSoFar'
      BY <2>2 DEF SeeLetter, Looking, SeenSoFar
    <3> QED BY <2>2, <3>1 DEF SeeLetter, Looking, VerdictIsGrammar
  <2>3. CASE RefuseByte
    <3>1. ~IsB64Token(token)
      BY <2>3, RefusedByteEndsGrammar
    <3> QED BY <2>3, <3>1 DEF RefuseByte, SeenSoFar, VerdictIsGrammar, IsB64Token
  <2>4. CASE Decide
    <3>1. body_bytes > 0 <=> IsB64Token(token)
      BY <2>4, DecisionIsGrammar
    <3> QED BY <2>4, <3>1 DEF Decide, SeenSoFar, VerdictIsGrammar, IsB64Token
  <2>5. CASE UNCHANGED bearerVars
    BY <2>5 DEF bearerVars, SeenSoFar, VerdictIsGrammar, IsB64Token
  <2> QED BY <2>1, <2>2, <2>3, <2>4, <2>5 DEF ScanNext
<1> QED BY <1>1, <1>2, PTL DEF BearerSpec

(* VerdictIsGrammar: for texts of any length, valid_bearer_token accepts   *)
(* exactly the b64tokens.                                                  *)
THEOREM TokensMatchGrammar == BearerSpec => []VerdictIsGrammar
BY BearerInvariance, PTL DEF BearerInv
=============================================================================
