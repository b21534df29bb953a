-------------------------- MODULE BtManage_proofs --------------------------
(***************************************************************************)
(* Theorems about the connections for every set of phones, of profiles and *)
(* of things that may happen: the types, with the bound on the failures of *)
(* a phone; that no two phones wait for an attempt at once; that every     *)
(* link has an entity unless another phone took it, and every entity that  *)
(* waits is answered, HFP excepted; that no first request is made over a   *)
(* link that is gone; and that no request but that of AVRCP is judged by   *)
(* the failure of the one before.                                          *)
(*                                                                         *)
(* Most steps change an entity only tamely: they add no failure, let no    *)
(* entity start to connect and none start to wait.  The two steps that do  *)
(* more are Reconnect and the failure in connecting_procedure.             *)
(***************************************************************************)
EXTENDS BtManage, FiniteSetTheorems, TLAPS

Containers == [Ids -> Entities]

Limit == Max2(AutoCount, RetryCount)

Waits(e) == "CONN_PENDING" \in e.flags

TameAt(d, e) ==
    /\ e.fails <= d.fails
    /\ e.state = "CONNECTING" => d.state = "CONNECTING"
    /\ Waits(e) => Waits(d)

\* F follows E by a step that is tame.
Tame(E, F) == F \in Containers /\ \A i \in Ids : TameAt(E[i], F[i])

-----------------------------------------------------------------------------
\* The numbers of the entities.
LEMMA IdsLemma ==
    /\ Ids = {0, 1} /\ NoId \notin Ids
    /\ 0 \in Ags /\ Ags \subseteq Ids
    /\ \A i \in Ids : 1 - i \in Ids
BY EntityAssumption DEF Ids, Ags, NoId

\* bt_app_entity_find_id_from_raddr finds an entity of the phone, or none.
LEMMA FindLemma ==
    ASSUME NEW E, NEW a
    PROVE  /\ Find(E, a) \in Ags \cup {NoId}
           /\ Find(E, a) # NoId => Find(E, a) \in Ags /\ E[Find(E, a)].addr = a
<1>1. CASE \E i \in Ags : E[i].addr = a
  <2>1. \E i \in Ags : E[i].addr = a /\ \A j \in Ags : E[j].addr = a => i <= j
    BY <1>1, EntityAssumption DEF Ags
  <2> QED BY <1>1, <2>1 DEF Find
<1>2. CASE ~ \E i \in Ags : E[i].addr = a
  BY <1>2 DEF Find
<1> QED BY <1>1, <1>2

\* A container follows itself tamely.
LEMMA TameRefl == ASSUME NEW E \in Containers PROVE Tame(E, E)
<1>1. \A i \in Ids : E[i].fails \in Nat
  BY DEF Containers, Entities
<1> QED BY <1>1 DEF Tame, TameAt

LEMMA TameTrans ==
    ASSUME NEW E \in Containers, NEW F, NEW G, Tame(E, F), Tame(F, G)
    PROVE  Tame(E, G)
<1>1. F \in Containers /\ G \in Containers
  BY DEF Tame
<1>2. \A i \in Ids : E[i].fails \in Nat /\ F[i].fails \in Nat /\ G[i].fails \in Nat
  BY <1>1 DEF Containers, Entities
<1> QED BY <1>1, <1>2 DEF Tame, TameAt

\* One entity is replaced by another that follows it tamely.
LEMMA ReplaceLemma ==
    ASSUME NEW E \in Containers, NEW i \in Ids, NEW e \in Entities, TameAt(E[i], e)
    PROVE  Tame(E, [E EXCEPT ![i] = e])
BY TameRefl DEF Tame, Containers

\* bt_app_entity_attach
LEMMA AttachLemma ==
    ASSUME NEW E \in Containers, NEW i \in Ids, NEW handle \in BOOLEAN,
           NEW a \in Phones \cup {NoPhone}, NEW reason \in Reasons
    PROVE  Tame(E, Attach(E, i, handle, a, reason))
<1> DEFINE e == [E[i] EXCEPT !.used = TRUE, !.handle = handle, !.addr = a,
                             !.reason = reason]
<1>1. E[i] \in Entities
  BY DEF Containers
<1>2. e \in Entities
  BY <1>1, Zenon DEF Entities
<1>3. TameAt(E[i], e)
  BY <1>1 DEF Entities, TameAt, Waits
<1>4. Attach(E, i, handle, a, reason) = [E EXCEPT ![i] = e]
  BY <1>1 DEF Attach, Containers, Entities
<1> HIDE DEF e
<1> QED BY <1>2, <1>3, <1>4, ReplaceLemma

\* bt_app_entity_free
LEMMA FreeLemma ==
    ASSUME NEW E \in Containers, NEW i \in Ids, NEW reason \in Reasons
    PROVE  Tame(E, Free(E, i, reason))
<1> DEFINE e == [E[i] EXCEPT !.used = FALSE, !.handle = FALSE, !.flags = {},
                             !.work = FALSE, !.reason = reason]
<1>1. E[i] \in Entities
  BY DEF Containers
<1>2. e \in Entities
  BY <1>1, Zenon DEF Entities
<1>3. TameAt(E[i], e)
  BY <1>1 DEF Entities, TameAt, Waits
<1>4. Free(E, i, reason) = [E EXCEPT ![i] = e]
  BY <1>1 DEF Free, Containers, Entities
<1> HIDE DEF e
<1> QED BY <1>2, <1>3, <1>4, ReplaceLemma

LEMMA BindLemma ==
    ASSUME NEW E \in Containers, NEW a \in Phones
    PROVE  Tame(E, Bind(E, a))
<1>1. Alloc(E) \in Ids /\ (Find(E, a) # NoId => Find(E, a) \in Ids)
  BY IdsLemma, FindLemma DEF Alloc
<1> QED BY <1>1, AttachLemma DEF Bind, Reasons

LEMMA SetEventLemma ==
    ASSUME NEW E \in Containers, NEW a, NEW event \in EntityEvents
    PROVE  Tame(E, SetEvent(E, a, event))
<1>1. CASE Find(E, a) = NoId
  BY <1>1, TameRefl DEF SetEvent
<1>2. CASE Find(E, a) # NoId
  <2> DEFINE i == Find(E, a)
             e == [E[i] EXCEPT !.event = event]
  <2>1. i \in Ids /\ E[i] \in Entities
    BY <1>2, FindLemma, IdsLemma DEF Containers
  <2>2. e \in Entities /\ TameAt(E[i], e)
    BY <2>1 DEF Entities, TameAt, Waits
  <2>3. SetEvent(E, a, event) = [E EXCEPT ![i] = e]
    BY <1>2 DEF SetEvent
  <2> HIDE DEF e, i
  <2> QED BY <2>1, <2>2, <2>3, ReplaceLemma
<1> QED BY <1>1, <1>2

LEMMA SetFlagsLemma ==
    ASSUME NEW E \in Containers, NEW a, NEW F \in SUBSET Profiles
    PROVE  Tame(E, SetFlags(E, a, F))
<1>1. CASE Find(E, a) = NoId
  BY <1>1, TameRefl DEF SetFlags
<1>2. CASE Find(E, a) # NoId
  <2> DEFINE i == Find(E, a)
             e == [E[i] EXCEPT !.flags = @ \cup F]
  <2>1. i \in Ids /\ E[i] \in Entities
    BY <1>2, FindLemma, IdsLemma DEF Containers
  <2>2. e \in Entities /\ TameAt(E[i], e)
    BY <2>1, EntityAssumption DEF Entities, TameAt, Waits
  <2>3. SetFlags(E, a, F) = [E EXCEPT ![i] = e]
    BY <1>2 DEF SetFlags
  <2> HIDE DEF e, i
  <2> QED BY <2>1, <2>2, <2>3, ReplaceLemma
<1> QED BY <1>1, <1>2

LEMMA ClearFlagsLemma ==
    ASSUME NEW E \in Containers, NEW a, NEW F
    PROVE  Tame(E, ClearFlags(E, a, F))
<1>1. CASE Find(E, a) = NoId
  BY <1>1, TameRefl DEF ClearFlags
<1>2. CASE Find(E, a) # NoId
  <2> DEFINE i == Find(E, a)
             e == [E[i] EXCEPT !.flags = @ \ F]
  <2>1. i \in Ids /\ E[i] \in Entities
    BY <1>2, FindLemma, IdsLemma DEF Containers
  <2>2. e \in Entities /\ TameAt(E[i], e)
    BY <2>1 DEF Entities, TameAt, Waits
  <2>3. ClearFlags(E, a, F) = [E EXCEPT ![i] = e]
    BY <1>2 DEF ClearFlags
  <2> HIDE DEF e, i
  <2> QED BY <2>1, <2>2, <2>3, ReplaceLemma
<1> QED BY <1>1, <1>2

LEMMA SetWorkLemma ==
    ASSUME NEW E \in Containers, NEW a, NEW work \in BOOLEAN
    PROVE  Tame(E, SetWork(E, a, work))
<1>1. CASE Find(E, a) = NoId
  BY <1>1, TameRefl DEF SetWork
<1>2. CASE Find(E, a) # NoId
  <2> DEFINE i == Find(E, a)
             e == [E[i] EXCEPT !.work = work]
  <2>1. i \in Ids /\ E[i] \in Entities
    BY <1>2, FindLemma, IdsLemma DEF Containers
  <2>2. e \in Entities /\ TameAt(E[i], e)
    BY <2>1 DEF Entities, TameAt, Waits
  <2>3. SetWork(E, a, work) = [E EXCEPT ![i] = e]
    BY <1>2 DEF SetWork
  <2> HIDE DEF e, i
  <2> QED BY <2>1, <2>2, <2>3, ReplaceLemma
<1> QED BY <1>1, <1>2

LEMMA ClearAllLemma ==
    ASSUME NEW E \in Containers, NEW F
    PROVE  Tame(E, ClearAll(E, F))
<1> DEFINE e(i) == IF i \in Ags THEN [E[i] EXCEPT !.flags = @ \ F] ELSE E[i]
<1>1. ASSUME NEW i \in Ids PROVE e(i) \in Entities /\ TameAt(E[i], e(i))
  <2>1. E[i] \in Entities
    BY DEF Containers
  <2> QED BY <2>1 DEF Entities, TameAt, Waits
<1>2. ClearAll(E, F) = [i \in Ids |-> e(i)]
  BY DEF ClearAll
<1> HIDE DEF e
<1> QED BY <1>1, <1>2 DEF Tame, Containers

LEMMA EndOfStreamLemma ==
    ASSUME NEW E \in Containers, NEW a, NEW P, NEW F \in EndOfStream(E, a, P)
    PROVE  Tame(E, F)
BY TameRefl, SetWorkLemma DEF EndOfStream

LEMMA ConnectedWrapLemma ==
    ASSUME NEW E \in Containers, NEW a
    PROVE  Tame(E, ConnectedWrap(E, a))
<1>1. CASE Find(E, a) = NoId \/ E[Find(E, a)].wrap
  BY <1>1, TameRefl DEF ConnectedWrap
<1>2. CASE ~(Find(E, a) = NoId \/ E[Find(E, a)].wrap)
  <2> DEFINE i == Find(E, a)
             e == [E[i] EXCEPT !.wrap = TRUE, !.event = "CONNECTED",
                               !.flags = @ \ {"RECONNECTING"}]
  <2>1. i \in Ids /\ E[i] \in Entities
    BY <1>2, FindLemma, IdsLemma DEF Containers
  <2>2. e \in Entities
    BY <2>1, Zenon DEF Entities, EntityEvents
  <2>3. TameAt(E[i], e)
    BY <2>1 DEF Entities, TameAt, Waits
  <2>4. ConnectedWrap(E, a) = [E EXCEPT ![i] = e]
    BY <1>2, <2>1 DEF ConnectedWrap, Containers, Entities
  <2> HIDE DEF e, i
  <2> QED BY <2>1, <2>2, <2>3, <2>4, ReplaceLemma
<1> QED BY <1>1, <1>2

\* The link of a phone is gone (bt_app_entity_free_by_addr).
LEMMA FreeByAddrLemma ==
    ASSUME NEW E \in Containers, NEW a \in Phones, NEW reason \in Reasons
    PROVE  Tame(E, FreeByAddr(E, a, reason))
<1>1. CASE Find(E, a) = NoId
  BY <1>1, TameRefl DEF FreeByAddr
<1>2. CASE Find(E, a) # NoId
  <2> DEFINE i == Find(E, a)
             A == Attach(E, i, FALSE, a, reason)
             F == IF reason = "timeout" THEN {"RECONNECTING"} ELSE {}
             e == [A[i] EXCEPT !.flags = @ \cup F]
             B == [A EXCEPT ![i] = e]
  <2>1. i \in Ids
    BY <1>2, FindLemma, IdsLemma
  <2>2. Tame(E, A) /\ A \in Containers
    BY <2>1, AttachLemma DEF Tame
  <2>3. A[i] \in Entities
    BY <2>1, <2>2 DEF Containers
  <2>4. e \in Entities /\ TameAt(A[i], e)
    <3>1. F \subseteq ConnectFlags /\ "CONN_PENDING" \notin F
      BY DEF ConnectFlags
    <3> HIDE DEF A, F, i
    <3> QED BY <2>3, <3>1 DEF Entities, TameAt, Waits
  <2>5. Tame(E, B)
    <3> HIDE DEF A, e, i
    <3> QED BY <2>1, <2>2, <2>4, ReplaceLemma, TameTrans
  <2>6. B = [Attach(E, i, FALSE, a, reason) EXCEPT ![i].flags = @ \cup F]
    OBVIOUS
  <2>7. Tame(E, Free(E, i, reason)) /\ Tame(E, E)
    BY <2>1, FreeLemma, TameRefl
  <2>8. \E G \in {B, Free(E, i, reason), E} :
           FreeByAddr(E, a, reason) = SetEvent(G, a, "DISCONNECTED")
    <3> HIDE DEF i
    <3>1. i # NoId
      BY <2>1, IdsLemma
    <3>2. Find(E, a) = i
      BY DEF i
    <3> QED BY <2>6, <3>1, <3>2 DEF FreeByAddr
  <2>9. PICK G \in {B, Free(E, i, reason), E} :
           FreeByAddr(E, a, reason) = SetEvent(G, a, "DISCONNECTED")
    BY <2>8
  <2>10. Tame(E, G) /\ G \in Containers
    <3> HIDE DEF B, i
    <3> QED BY <2>5, <2>7 DEF Tame
  <2>11. Tame(G, SetEvent(G, a, "DISCONNECTED"))
    BY <2>10, SetEventLemma DEF EntityEvents
  <2> HIDE DEF B, i
  <2> QED BY <2>9, <2>10, <2>11, TameTrans
<1> QED BY <1>1, <1>2

-----------------------------------------------------------------------------
(* The actions. *)

\* bt_app_disconnect_acl_link
LEMMA DisconnectLinkLemma ==
    ASSUME NEW E \in Containers, NEW i \in Ids, closing \subseteq Phones,
           DisconnectLink(E, i)
    PROVE  Tame(E, ent') /\ closing' \subseteq Phones
<1>1. CASE Up(E[i].addr)
  <2> DEFINE e == [E[i] EXCEPT !.flags = @ \cup {"DISCONN_PENDING"}]
  <2>1. E[i] \in Entities
    BY DEF Containers
  <2>2. e \in Entities /\ TameAt(E[i], e)
    BY <2>1 DEF Entities, TameAt, Waits, ConnectFlags
  <2>3. ent' = [E EXCEPT ![i] = e] /\ closing' = closing \cup {E[i].addr}
    BY <1>1 DEF DisconnectLink
  <2>4. closing' \subseteq Phones
    BY <1>1, <2>3 DEF Up
  <2> HIDE DEF e
  <2> QED BY <2>2, <2>3, <2>4, ReplaceLemma
<1>2. CASE ~Up(E[i].addr)
  BY <1>2, FreeLemma DEF DisconnectLink, Reasons
<1> QED BY <1>1, <1>2

\* bt_app_disconnect_connect_acl
LEMMA DisconnectToReconnectLemma ==
    ASSUME ent \in Containers, closing \subseteq Phones, NEW a,
           DisconnectToReconnect(a)
    PROVE  Tame(ent, ent') /\ closing' \subseteq Phones
<1>1. CASE Up(a) /\ Find(ent, a) # NoId
  <2> DEFINE E == SetEvent(ent, a, "DISCONN_CONN")
             i == Find(ent, a)
  <2>1. Tame(ent, E) /\ E \in Containers
    BY SetEventLemma DEF EntityEvents, Tame
  <2>2. i \in Ids
    BY <1>1, FindLemma, IdsLemma
  <2>3. DisconnectLink(E, i)
    BY <1>1 DEF DisconnectToReconnect
  <2> HIDE DEF E, i
  <2>4. Tame(E, ent') /\ closing' \subseteq Phones
    BY <2>1, <2>2, <2>3, DisconnectLinkLemma
  <2> QED BY <2>1, <2>4, TameTrans
<1>2. CASE ~(Up(a) /\ Find(ent, a) # NoId)
  BY <1>2, TameRefl DEF DisconnectToReconnect
<1> QED BY <1>1, <1>2

LinkTyped == link \in [Phones -> {"none", "paging", "incoming", "up"}]
AuthTyped == auth \in [status: BOOLEAN, addr: Phones \cup {NoPhone}]
AskTyped == ask \in Requests \cup {"none"}

\* What the steps of the attempt keep.
AttemptTyped ==
    /\ LinkTyped /\ closing \subseteq Phones /\ ent \in Containers
    /\ AuthTyped /\ conn \in Conns /\ AskTyped

\* A step of the attempt keeps it and is tame.
Orderly == AttemptTyped' /\ Tame(ent, ent')

LEMMA StayLemma ==
    ASSUME AttemptTyped, NEW c \in Conns, Stay(c)
    PROVE  Orderly
BY TameRefl DEF AttemptTyped, Stay, Orderly, LinkTyped, AuthTyped, AskTyped

LEMMA EndStates ==
    ASSUME NEW c \in Conns, NEW s \in {"SUCCESS", "FAIL"}
    PROVE  [c EXCEPT !.state = "END", !.s_result = s] \in Conns
BY DEF Conns, ConnStates, Results

LEMMA FailLemma ==
    ASSUME AttemptTyped, NEW c \in Conns, Fail(c) \/ Succeed(c)
    PROVE  Orderly
BY EndStates, StayLemma DEF Fail, Succeed

LEMMA GiveUpLemma ==
    ASSUME AttemptTyped, NEW c \in Conns, GiveUp(c), AuthTyped'
    PROVE  Orderly
<1>1. conn' \in Conns
  BY DEF GiveUp, Conns, ConnStates, WaitStates
<1>2. Tame(ent, ent') /\ closing' \subseteq Phones
  BY DisconnectToReconnectLemma DEF GiveUp, AttemptTyped
<1>3. UNCHANGED <<link, ask>>
  BY DEF GiveUp
<1> QED BY <1>1, <1>2, <1>3 DEF Orderly, AttemptTyped, LinkTyped, AskTyped, Tame

\* The steps that ask the host for something leave the rest alone.
LEMMA AskedLemma ==
    ASSUME AttemptTyped, conn' \in Conns, AskTyped',
           UNCHANGED <<link, closing, ent, auth>>
    PROVE  Orderly
BY TameRefl DEF Orderly, AttemptTyped, LinkTyped, AuthTyped

LEMMA AskLinkLemma ==
    ASSUME AttemptTyped, NEW c \in Conns, NEW r \in {"auth", "encrypt"},
           NEW wait \in WaitStates, AskLink(c, r, wait)
    PROVE  Orderly
<1>1. [c EXCEPT !.state = wait, !.count = 1] \in Conns
  <2>1. wait \in ConnStates /\ 1 \in 0 .. MaxInnerCount + 1
    BY DEF ConnStates, MaxInnerCount
  <2> QED BY <2>1, Zenon DEF Conns
<1>2. AskTyped'
  BY DEF AskLink, AskTyped, Requests, AttemptTyped
<1> QED BY <1>1, <1>2, AskedLemma DEF AskLink

LEMMA AgainLemma ==
    ASSUME AttemptTyped, NEW c \in Conns, NEW r \in Requests,
           NEW wait \in WaitStates, ~TooOften(c), Again(c, r, wait)
    PROVE  Orderly
<1>1. c.count + 1 \in 0 .. MaxInnerCount + 1
  BY DEF TooOften, Conns, MaxInnerCount
<1>2. conn' \in Conns
  BY <1>1 DEF Again, Conns, ConnStates, ConnEvents
<1>3. AskTyped'
  BY DEF Again, AskTyped
<1> QED BY <1>2, <1>3, AskedLemma DEF Again

\* The names of the events and states of a profile.
LEMMA ProfileNames ==
    \A p \in Profiles :
        /\ Waiting(p) \in WaitStates /\ Connected(p) \in ConnStates
        /\ Failed(p) \in ConnStates
        /\ Connected(p) \in ConnEvents /\ Disconnected(p) \in ConnEvents
        /\ Waiting(p) \in ConnStates
BY EntityAssumption DEF Waiting, Connected, Failed, Disconnected, WaitStates,
   ConnStates, ConnEvents

LEMMA ConnectLemma ==
    ASSUME AttemptTyped, NEW c \in Conns, NEW p \in Profiles, NEW e \in BOOLEAN,
           Connect(c, p, e)
    PROVE  Orderly
<1>1. /\ [c EXCEPT !.state = Waiting(p), !.count = 1, !.expired = e] \in Conns
      /\ [c EXCEPT !.state = Connected(p), !.profile = @ \ {p}] \in Conns
  <2>1. 1 \in 0 .. MaxInnerCount + 1 /\ c.profile \ {p} \in SUBSET Profiles
    BY DEF Conns, MaxInnerCount
  <2>2. Waiting(p) \in ConnStates /\ Connected(p) \in ConnStates
    BY ProfileNames
  <2> QED BY <2>1, <2>2, Zenon DEF Conns
<1>2. AskTyped'
  BY DEF Connect, AskTyped, Requests, AttemptTyped
<1> QED BY <1>1, <1>2, AskedLemma DEF Connect

\* The counts and the times of an attempt.
LEMMA CountLemma ==
    ASSUME NEW c \in Conns
    PROVE  /\ \A k \in 0 .. MaxInnerCount + 1, e \in BOOLEAN, s \in ConnStates :
                 [c EXCEPT !.expired = e, !.count = k, !.state = s] \in Conns
           /\ \A k \in 0 .. MaxInnerCount + 1, e \in BOOLEAN :
                 [c EXCEPT !.expired = e, !.count = k] \in Conns
           /\ \A e \in BOOLEAN : [c EXCEPT !.expired = e] \in Conns
           /\ \A k \in 0 .. MaxInnerCount + 1 : [c EXCEPT !.count = k] \in Conns
           /\ \A s \in ConnStates : [c EXCEPT !.state = s] \in Conns
           /\ \A s \in ConnStates, P \in SUBSET Profiles :
                 [c EXCEPT !.state = s, !.profile = P] \in Conns
           /\ \A P \in SUBSET Profiles : [c EXCEPT !.profile = P] \in Conns
           /\ \A l \in {"none", "live", "stale"}, e \in BOOLEAN :
                 [c EXCEPT !.link = l, !.expired = e] \in Conns
           /\ \A l \in {"none", "live", "stale"} : [c EXCEPT !.link = l] \in Conns
           /\ 1 \in 0 .. MaxInnerCount + 1
           /\ c.profile \in SUBSET Profiles
<1>1. 1 \in 0 .. MaxInnerCount + 1
  BY DEF MaxInnerCount
<1> QED BY <1>1, Zenon DEF Conns

LEMMA CancelledLemma == ASSUME NEW c \in Conns PROVE Cancelled(c) \in Conns
BY Zenon DEF Cancelled, Conns

LEMMA StartLemma ==
    ASSUME AttemptTyped, NEW c \in Conns, Start(c)
    PROVE  Orderly
<1>1. [c EXCEPT !.link = "live"] \in Conns
  BY CountLemma
<1>2. ASSUME conn' = [c EXCEPT !.link = "none", !.cancel = "none", !.expired = FALSE,
                             !.s_result = "CONNECTING", !.state = "WAIT_ACL"],
             link' = [link EXCEPT ![c.addr] = "paging"],
             UNCHANGED <<closing, ent, auth, ask>>
      PROVE  Orderly
  <2>1. "WAIT_ACL" \in ConnStates /\ "CONNECTING" \in Results
    BY DEF ConnStates, WaitStates, Results
  <2>2. conn' \in Conns
    BY <1>2, <2>1, Zenon DEF Conns
  <2>3. LinkTyped'
    BY <1>2 DEF LinkTyped, AttemptTyped
  <2> QED BY <1>2, <2>2, <2>3, TameRefl DEF Orderly, AttemptTyped, AuthTyped, AskTyped
<1>3. ASSUME NEW d, d = [c EXCEPT !.link = "none", !.cancel = "none"],
             IF c.count > MaxInnerCount THEN Fail(d) ELSE Stay([d EXCEPT !.count = @ + 1])
      PROVE  Orderly
  <2>1. d \in Conns
    BY <1>3, Zenon DEF Conns
  <2>2. d.count = c.count /\ c.count \in 0 .. MaxInnerCount + 1
    BY <1>3 DEF Conns
  <2>3. ~(c.count > MaxInnerCount) => d.count + 1 \in 0 .. MaxInnerCount + 1
    BY <2>2 DEF MaxInnerCount
  <2>4. ~(c.count > MaxInnerCount) => [d EXCEPT !.count = @ + 1] \in Conns
    BY <2>1, <2>3, CountLemma
  <2> QED BY <1>3, <2>1, <2>4, FailLemma, StayLemma
<1>4. CASE link[c.addr] # "none"
  BY <1>1, <1>4, CancelledLemma, StayLemma DEF Start
<1>5. CASE link[c.addr] = "none"
  BY <1>5, <1>2, <1>3 DEF Start
<1> QED BY <1>4, <1>5

LEMMA WaitAclLemma ==
    ASSUME AttemptTyped, NEW c \in Conns, WaitAcl(c)
    PROVE  Orderly
BY CountLemma, CancelledLemma, StayLemma, FailLemma DEF WaitAcl

LEMMA AclConnectedLemma ==
    ASSUME AttemptTyped, NEW c \in Conns, AclConnected(c)
    PROVE  Orderly
BY CountLemma, FailLemma, AskLinkLemma DEF AclConnected, WaitStates

LEMMA AuthSuccessLemma ==
    ASSUME AttemptTyped, NEW c \in Conns, AuthSuccess(c)
    PROVE  Orderly
BY CountLemma, AskLinkLemma DEF AuthSuccess, WaitStates

LEMMA EncyptedLemma ==
    ASSUME AttemptTyped, NEW c \in Conns, Encypted(c)
    PROVE  Orderly
<1>1. "WAIT_SDP" \in ConnStates
  BY DEF ConnStates, WaitStates
<1>2. conn' \in Conns
  BY <1>1, CountLemma DEF Encypted
<1>3. AskTyped'
  BY DEF Encypted, AskTyped, Requests
<1> QED BY <1>2, <1>3, AskedLemma DEF Encypted

LEMMA WaitLinkLemma ==
    ASSUME AttemptTyped, NEW c \in Conns, WaitLink(c)
    PROVE  Orderly
BY GiveUpLemma, StayLemma DEF WaitLink, AttemptTyped, AuthTyped

LEMMA SdpFinishedLemma ==
    ASSUME AttemptTyped, NEW c \in Conns, SdpFinished(c)
    PROVE  Orderly
<1> DEFINE d == [c EXCEPT !.expired = FALSE, !.count = 1]
<1>1. d \in Conns /\ [d EXCEPT !.profile = @ \ {"HFP"}] \in Conns
  <2>1. d \in Conns
    BY CountLemma
  <2> HIDE DEF d
  <2>2. d.profile \ {"HFP"} \in SUBSET Profiles
    BY <2>1, CountLemma
  <2> QED BY <2>1, <2>2, CountLemma
<1>2. c.profile \subseteq Profiles
  BY CountLemma
<1>3. \/ "HFP" \in c.profile /\ Connect(d, "HFP", FALSE)
      \/ "A2DP" \in c.profile /\ Connect([d EXCEPT !.profile = @ \ {"HFP"}], "A2DP", FALSE)
      \/ Stay(d)
  BY DEF SdpFinished
<1> HIDE DEF d
<1> QED BY <1>1, <1>2, <1>3, ConnectLemma, StayLemma

LEMMA ProfileConnectedLemma ==
    ASSUME AttemptTyped, NEW c \in Conns, NEW p \in Profiles, ProfileConnected(c, p)
    PROVE  Orderly
<1> DEFINE d(s, q) == [c EXCEPT !.state = s, !.profile = @ \ {q}]
<1>1. ASSUME NEW s \in ConnStates, NEW q PROVE d(s, q) \in Conns
  <2>1. c.profile \ {q} \in SUBSET Profiles
    BY CountLemma
  <2> QED BY <2>1, CountLemma
<1>2. d(Connected(p), p) \in Conns
  BY <1>1, ProfileNames
<1>3. [d(Connected(p), p) EXCEPT !.state = "END", !.result = "SUCCESS"] \in Conns
  <2>1. "END" \in ConnStates /\ "SUCCESS" \in Results
    BY DEF ConnStates, Results
  <2> HIDE DEF d
  <2> QED BY <1>2, <2>1, Zenon DEF Conns
<1>4. d(Connected(p), p).profile \subseteq Profiles
  BY <1>2, CountLemma
<1>5. \/ p = "HFP" /\ HfpConnected(c)
      \/ p = "A2DP" /\ A2dpConnected(c)
      \/ p = "AVRCP" /\ AvrcpConnected(c)
  BY EntityAssumption DEF ProfileConnected
<1>6. CASE p = "HFP" /\ HfpConnected(c)
  <2>1. LET x == d(Connected(p), p) IN
        \/ Stay([x EXCEPT !.state = "END", !.result = "SUCCESS"])
        \/ "A2DP" \in x.profile /\ Connect(x, "A2DP", FALSE)
        \/ Stay(x)
    BY <1>6 DEF HfpConnected, Connected
  <2> HIDE DEF d
  <2> QED BY <1>2, <1>3, <1>4, <2>1, StayLemma, ConnectLemma
<1>7. CASE p = "A2DP" /\ A2dpConnected(c)
  <2>1. LET x == d(Connected(p), p) IN
        \/ "AVRCP" \in x.profile /\ Connect(x, "AVRCP", FALSE)
        \/ Succeed(x)
        \/ Stay(x)
    BY <1>7 DEF A2dpConnected, Connected
  <2> HIDE DEF d
  <2> QED BY <1>2, <1>4, <2>1, StayLemma, ConnectLemma, FailLemma
<1>8. CASE p = "AVRCP" /\ AvrcpConnected(c)
  <2>1. LET x == d(Connected(p), p) IN Succeed(x) \/ Stay(x)
    BY <1>8 DEF AvrcpConnected, Connected
  <2> HIDE DEF d
  <2> QED BY <1>2, <2>1, StayLemma, FailLemma
<1> QED BY <1>5, <1>6, <1>7, <1>8

LEMMA WaitProfileLemma ==
    ASSUME AttemptTyped, NEW c \in Conns, NEW p \in Profiles, WaitProfile(c, p)
    PROVE  Orderly
BY ProfileConnectedLemma, WaitLinkLemma DEF WaitProfile

LEMMA WaitDisconnectedLemma ==
    ASSUME AttemptTyped, NEW c \in Conns, WaitDisconnected(c)
    PROVE  Orderly
BY StayLemma, FailLemma DEF WaitDisconnected

LEMMA KeyMissingLemma ==
    ASSUME AttemptTyped, NEW c \in Conns, KeyMissing(c)
    PROVE  Orderly
<1>1. c.addr \in Phones \cup {NoPhone}
  BY DEF Conns
<1>2. AuthTyped'
  BY <1>1 DEF KeyMissing, AuthTyped
<1> QED BY <1>2, GiveUpLemma DEF KeyMissing

LEMMA LowResourcesLemma ==
    ASSUME AttemptTyped, NEW c \in Conns, LowResources(c)
    PROVE  Orderly
<1>1. AuthTyped'
  BY DEF LowResources, AuthTyped, AttemptTyped
<1> QED BY <1>1, GiveUpLemma DEF LowResources

LEMMA AuthFailLemma ==
    ASSUME AttemptTyped, NEW c \in Conns, AuthFail(c)
    PROVE  Orderly
BY KeyMissingLemma, AgainLemma DEF AuthFail, Requests, WaitStates

LEMMA EncyptFailLemma ==
    ASSUME AttemptTyped, NEW c \in Conns, EncyptFail(c)
    PROVE  Orderly
BY GiveUpLemma, AgainLemma DEF EncyptFail, Requests, WaitStates, AttemptTyped, AuthTyped

LEMMA SdpFailLemma ==
    ASSUME AttemptTyped, NEW c \in Conns, SdpFail(c)
    PROVE  Orderly
BY GiveUpLemma, AgainLemma DEF SdpFail, Requests, WaitStates, AttemptTyped, AuthTyped

LEMMA ProfileFailLemma ==
    ASSUME AttemptTyped, NEW c \in Conns, NEW p \in Profiles, ProfileFail(c, p)
    PROVE  Orderly
<1>1. /\ Waiting(p) \in WaitStates /\ Connected(p) \in ConnStates
      /\ p \in Requests
  BY ProfileNames DEF Requests
<1>2. [c EXCEPT !.state = Connected(p)] \in Conns
  BY <1>1, CountLemma
<1>3. AuthTyped /\ (auth' = auth => AuthTyped')
  BY DEF AttemptTyped, AuthTyped
<1> QED BY <1>1, <1>2, <1>3, StayLemma, GiveUpLemma, AgainLemma DEF ProfileFail

LEMMA AvrcpFailLemma ==
    ASSUME AttemptTyped, NEW c \in Conns, "AVRCP" \in Profiles, AvrcpFail(c)
    PROVE  Orderly
<1>1. /\ [c EXCEPT !.state = "A2DP_CONNECTED"] \in Conns
      /\ [c EXCEPT !.expired = FALSE] \in Conns
      /\ c.expired \in BOOLEAN /\ c.profile \subseteq Profiles
  <2>1. "A2DP_CONNECTED" \in ConnStates
    BY DEF ConnStates
  <2>2. c.expired \in BOOLEAN
    BY DEF Conns
  <2> QED BY <2>1, <2>2, CountLemma
<1>2. AuthTyped /\ (auth' = auth => AuthTyped')
  BY DEF AttemptTyped, AuthTyped
<1>3. CASE /\ ~TooOften(c)
           /\ conn' = [c EXCEPT !.state = "WAIT_AVRCP", !.count = @ + 1]
           /\ ask' = "AVRCP"
           /\ UNCHANGED <<link, closing, ent, auth>>
  <2>1. c.count + 1 \in 0 .. MaxInnerCount + 1
    BY <1>3 DEF TooOften, Conns, MaxInnerCount
  <2>2. "WAIT_AVRCP" \in ConnStates
    BY DEF ConnStates, WaitStates
  <2>3. conn' \in Conns
    BY <1>3, <2>1, <2>2, Zenon DEF Conns
  <2>4. AskTyped'
    BY <1>3 DEF AskTyped, Requests
  <2> QED BY <1>3, <2>3, <2>4, AskedLemma
<1> QED
  BY <1>1, <1>2, <1>3, StayLemma, GiveUpLemma, ConnectLemma DEF AvrcpFail

LEMMA EndLemma ==
    ASSUME AttemptTyped, NEW c \in Conns, End(c)
    PROVE  Orderly
<1>1. c.s_result \in Results /\ "NULL" \in ConnEvents
  BY DEF Conns, ConnEvents
<1>2. [c EXCEPT !.result = c.s_result, !.link = "none", !.active = FALSE,
                !.event = "NULL"] \in Conns
  BY <1>1, Zenon DEF Conns
<1>3. AskTyped'
  BY DEF End, AskTyped
<1> QED BY <1>2, <1>3, AskedLemma DEF End

\* The last event leads to a state.
LEMMA EventToStateLemma ==
    ASSUME NEW event \in ConnEvents, NEW state \in ConnStates
    PROVE  EventToState(event, state) \in ConnStates
<1>1. \A x \in Expected : x[3] \in ConnStates
  <2>1. \A p \in Profiles : Connected(p) \in ConnStates /\ Failed(p) \in ConnStates
    BY ProfileNames
  <2> QED BY <2>1 DEF Expected, ConnStates, WaitStates
<1>2. "ACL_FAIL" \in ConnStates
  BY DEF ConnStates
<1> QED BY <1>1, <1>2 DEF EventToState

LEMMA AttemptLemma ==
    ASSUME AttemptTyped, NEW c \in Conns, Attempt(c)
    PROVE  Orderly
<1>1. ASSUME NEW p \in Profiles,
             \/ WaitProfile(c, p) \/ ProfileConnected(c, p) \/ ProfileFail(c, p)
             \/ p = "AVRCP" /\ AvrcpFail(c)
      PROVE  Orderly
  BY <1>1, WaitProfileLemma, ProfileConnectedLemma, ProfileFailLemma, AvrcpFailLemma
<1>2. ASSUME \/ Start(c) \/ WaitAcl(c) \/ AclConnected(c) \/ AuthSuccess(c)
             \/ Encypted(c) \/ WaitLink(c) \/ SdpFinished(c) \/ WaitDisconnected(c)
      PROVE  Orderly
  BY <1>2, StartLemma, WaitAclLemma, AclConnectedLemma, AuthSuccessLemma,
     EncyptedLemma, WaitLinkLemma, SdpFinishedLemma, WaitDisconnectedLemma
<1>3. ASSUME \/ Fail(c) \/ KeyMissing(c) \/ LowResources(c) \/ AuthFail(c)
             \/ EncyptFail(c) \/ SdpFail(c) \/ End(c)
      PROVE  Orderly
  BY <1>3, FailLemma, KeyMissingLemma, LowResourcesLemma, AuthFailLemma,
     EncyptFailLemma, SdpFailLemma, EndLemma
<1> QED BY <1>1, <1>2, <1>3 DEF Attempt

\* A pass of bt_connect_scheduler.
LEMMA SchedulerLemma ==
    ASSUME AttemptTyped, bt_connect_scheduler
    PROVE  Orderly
<1> DEFINE c == [conn EXCEPT !.state = EventToState(conn.event, conn.state)]
<1>1. CASE ~conn.active
  BY <1>1, AskedLemma DEF bt_connect_scheduler, AttemptTyped, AskTyped
<1>2. CASE conn.active
  <2>1. conn.event \in ConnEvents /\ conn.state \in ConnStates /\ conn \in Conns
    BY DEF AttemptTyped, Conns
  <2>2. c \in Conns
    BY <2>1, EventToStateLemma, CountLemma
  <2>3. Attempt(c)
    BY <1>2 DEF bt_connect_scheduler
  <2> QED BY <2>2, <2>3, AttemptLemma
<1> QED BY <1>1, <1>2

-----------------------------------------------------------------------------
(* The management of the entities. *)

\* An entity that is to connect has a failure to spare.
Spare == \A i \in Ids : ent[i].state = "CONNECTING" => ent[i].fails < Limit

IInv == TypeOK /\ Spare /\ OneWaits

\* The types of all but the entities.
RestTyped ==
    /\ LinkTyped /\ prof \in [Phones -> SUBSET Profiles] /\ closing \subseteq Phones
    /\ AuthTyped /\ conn \in Conns /\ AskTyped
    /\ turn \in 0 .. AttemptTurn
    /\ scan \in {"off", "page", "both"}
    /\ retry \in BOOLEAN /\ tempId \in Ids /\ late \in Phones \cup {NoPhone}
    /\ asked \in Phones \cup {NoPhone} /\ evicted \subseteq Phones
    /\ surprises \in 0 .. MaxSurprises

LEMMA TypeParts ==
    /\ IInv => RestTyped /\ AttemptTyped /\ ent \in Containers
    /\ RestTyped /\ ent \in Containers /\ (\A i \in Ids : ent[i].fails <= Limit) => TypeOK
BY DEF IInv, TypeOK, RestTyped, AttemptTyped, LinkTyped, AuthTyped, AskTyped,
   Containers, Limit

LEMMA LimitLemma == Limit \in Nat /\ AutoCount <= Limit /\ RetryCount <= Limit
BY ManageAssumption DEF Limit, Max2

\* A tame step keeps the invariant.
LEMMA TameStep ==
    ASSUME IInv, RestTyped', Tame(ent, ent')
    PROVE  IInv'
<1>1. ent \in Containers /\ ent' \in Containers
  BY TypeParts DEF Tame
<1>2. \A i \in Ids : ent[i].fails \in Nat /\ ent'[i].fails \in Nat
  BY <1>1 DEF Containers, Entities
<1>3. \A i \in Ids : ent[i].fails <= Limit
  BY DEF IInv, TypeOK, Limit
<1>4. \A i \in Ids : TameAt(ent[i], ent'[i])
  BY DEF Tame
<1>5. \A i \in Ids : ent'[i].fails <= Limit
  BY <1>2, <1>3, <1>4, LimitLemma DEF TameAt
<1>6. Spare'
  BY <1>2, <1>4, LimitLemma DEF Spare, TameAt, IInv
<1>7. OneWaits'
  <2>1. \A i \in Ags : Waits(ent'[i]) => Waits(ent[i])
    BY <1>4, IdsLemma DEF TameAt
  <2> QED BY <2>1 DEF OneWaits, IInv, Waits
<1>8. TypeOK'
  BY <1>1, <1>5 DEF RestTyped, TypeOK, LinkTyped, AuthTyped, AskTyped, Containers, Limit
<1> QED BY <1>6, <1>7, <1>8 DEF IInv

\* One entity goes to another state and loses its event or flags.
LEMMA MoveLemma ==
    ASSUME NEW E \in Containers, NEW i \in Ids,
           NEW state \in EntityStates \ {"CONNECTING"}
    PROVE  /\ Tame(E, [E EXCEPT ![i].state = state])
           /\ Tame(E, [E EXCEPT ![i].state = state, ![i].event = "INVALID"])
           /\ Tame(E, [E EXCEPT ![i].event = "INVALID", ![i].state = state])
<1>1. E[i] \in Entities /\ "INVALID" \in EntityEvents
  BY DEF Containers, EntityEvents
<1>2. \A e \in Entities : TameAt(E[i], e) => Tame(E, [E EXCEPT ![i] = e])
  BY ReplaceLemma
<1> DEFINE e1 == [E[i] EXCEPT !.state = state]
           e2 == [E[i] EXCEPT !.state = state, !.event = "INVALID"]
           e3 == [E[i] EXCEPT !.event = "INVALID", !.state = state]
<1>3. e1 \in Entities /\ e2 \in Entities /\ e3 \in Entities
  BY <1>1, Zenon DEF Entities
<1>4. TameAt(E[i], e1) /\ TameAt(E[i], e2) /\ TameAt(E[i], e3)
  <2>1. state # "CONNECTING" /\ E[i].fails \in Nat
    BY <1>1 DEF Entities
  <2> QED BY <1>1, <2>1 DEF Entities, TameAt, Waits
<1>5. [E EXCEPT ![i].state = state] = [E EXCEPT ![i] = e1]
  OBVIOUS
<1>6. [E EXCEPT ![i].state = state, ![i].event = "INVALID"] = [E EXCEPT ![i] = e2]
  BY DEF Containers
<1>7. [E EXCEPT ![i].event = "INVALID", ![i].state = state] = [E EXCEPT ![i] = e3]
  BY DEF Containers
<1> HIDE DEF e1, e2, e3
<1> QED BY <1>2, <1>3, <1>4, <1>5, <1>6, <1>7

LEMMA ToLemma ==
    ASSUME ent \in Containers, NEW i \in Ids,
           NEW state \in EntityStates \ {"CONNECTING"}, To(i, state) \/ ToOn(i, state)
    PROVE  Tame(ent, ent')
<1>1. /\ Tame(ent, [ent EXCEPT ![i].state = state])
      /\ Tame(ent, [ent EXCEPT ![i].state = state, ![i].event = "INVALID"])
  BY MoveLemma
<1>2. CASE To(i, state)
  BY <1>1, <1>2 DEF To
<1>3. CASE ToOn(i, state)
  BY <1>1, <1>3 DEF ToOn
<1> QED BY <1>2, <1>3

LEMMA UnusedLemma ==
    ASSUME IInv, NEW i \in Ids, unused_procedure(i), RestTyped'
    PROVE  IInv'
<1>1. ent \in Containers
  BY TypeParts
<1>2. /\ "STANDBY" \in EntityStates \ {"CONNECTING"}
      /\ "SCANNING" \in EntityStates \ {"CONNECTING"}
  BY DEF EntityStates
<1>3. ToOn(i, "STANDBY") \/ To(i, "SCANNING") \/ UNCHANGED ent
  BY DEF unused_procedure
<1>4. Tame(ent, ent')
  BY <1>1, <1>2, <1>3, ToLemma, TameRefl
<1> QED BY <1>4, TameStep

\* The flags of one entity, which does not begin to wait.
LEMMA FlagLemma ==
    ASSUME NEW E \in Containers, NEW i \in Ids,
           NEW F \in SUBSET (ConnectFlags \cup Profiles),
           "CONN_PENDING" \in F => Waits(E[i])
    PROVE  Tame(E, [E EXCEPT ![i].flags = F])
<1> DEFINE e == [E[i] EXCEPT !.flags = F]
<1>1. E[i] \in Entities
  BY DEF Containers
<1>2. e \in Entities
  BY <1>1, Zenon DEF Entities
<1>3. TameAt(E[i], e)
  BY <1>1 DEF Entities, TameAt, Waits
<1> HIDE DEF e
<1>4. Tame(E, [E EXCEPT ![i] = e])
  BY <1>2, <1>3, ReplaceLemma
<1> QED BY <1>4 DEF e

LEMMA ScanOnLemma ==
    ASSUME NEW E \in Containers, NEW i \in Ids, ScanOn(E, i)
    PROVE  Tame(E, ent')
<1>0. "STANDBY" \in EntityStates \ {"CONNECTING"}
  BY DEF EntityStates
<1>1. CASE ent' = [E EXCEPT ![i].state = "STANDBY"]
  BY <1>0, <1>1, MoveLemma
<1>2. CASE ent' = E
  BY <1>2, TameRefl
<1>3. CASE ent' = [ClearAll(E, {"SCAN_PENDING"}) EXCEPT ![i].state = "STANDBY"]
  <2> DEFINE C == ClearAll(E, {"SCAN_PENDING"})
  <2>1. Tame(E, C) /\ C \in Containers
    BY ClearAllLemma DEF Tame
  <2>2. ent' = [C EXCEPT ![i].state = "STANDBY"]
    BY <1>3
  <2> HIDE DEF C
  <2>3. Tame(C, ent')
    BY <1>0, <2>1, <2>2, MoveLemma
  <2> QED BY <2>1, <2>3, TameTrans
<1>4. CASE \E F \in {E, ClearAll(E, {"RECONN_FAILED"})} :
             ent' = [F EXCEPT ![i].event = "INVALID", ![i].flags = @ \cup {"SCAN_PENDING"}]
  <2>1. PICK F \in {E, ClearAll(E, {"RECONN_FAILED"})} :
             ent' = [F EXCEPT ![i].event = "INVALID", ![i].flags = @ \cup {"SCAN_PENDING"}]
    BY <1>4
  <2>2. Tame(E, F) /\ F \in Containers
    BY ClearAllLemma, TameRefl DEF Tame
  <2> DEFINE e == [F[i] EXCEPT !.event = "INVALID", !.flags = @ \cup {"SCAN_PENDING"}]
  <2>3. F[i] \in Entities
    BY <2>2 DEF Containers
  <2>4. e \in Entities
    <3>1. F[i].flags \cup {"SCAN_PENDING"} \in SUBSET (ConnectFlags \cup Profiles)
      BY <2>3 DEF Entities, ConnectFlags
    <3>2. "INVALID" \in EntityEvents
      BY DEF EntityEvents
    <3> QED BY <2>3, <3>1, <3>2, Zenon DEF Entities
  <2>5. TameAt(F[i], e)
    BY <2>3 DEF Entities, TameAt, Waits
  <2>6. ent' = [F EXCEPT ![i] = e]
    BY <2>1, <2>2, <2>3 DEF Containers, Entities
  <2> HIDE DEF e
  <2>7. Tame(F, ent')
    BY <2>2, <2>4, <2>5, <2>6, ReplaceLemma
  <2> QED BY <2>2, <2>7, TameTrans
<1> QED BY <1>1, <1>2, <1>3, <1>4 DEF ScanOn

LEMMA ScanningLemma ==
    ASSUME IInv, NEW i \in Ids, scanning_procedure(i), RestTyped'
    PROVE  IInv'
<1>1. ent \in Containers
  BY TypeParts
<1>2. "STANDBY" \in EntityStates \ {"CONNECTING"}
  BY DEF EntityStates
<1>3. CASE ent' = [ClearAll(ent, {"SCAN_PENDING"}) EXCEPT
                      ![i].event = "INVALID", ![i].state = "STANDBY"]
  <2> DEFINE C == ClearAll(ent, {"SCAN_PENDING"})
  <2>1. Tame(ent, C) /\ C \in Containers
    BY <1>1, ClearAllLemma DEF Tame
  <2>2. ent' = [C EXCEPT ![i].event = "INVALID", ![i].state = "STANDBY"]
    BY <1>3
  <2> HIDE DEF C
  <2>3. Tame(C, [C EXCEPT ![i].event = "INVALID", ![i].state = "STANDBY"])
    BY <1>2, <2>1, MoveLemma
  <2> QED BY <1>1, <2>1, <2>2, <2>3, TameTrans, TameStep
<1>4. CASE To(i, "STANDBY")
  BY <1>1, <1>2, <1>4, ToLemma, TameStep
<1>5. CASE ScanOn([ent EXCEPT ![i].flags = @ \ {"SCAN_PENDING"}], i)
  <2> DEFINE E == [ent EXCEPT ![i].flags = @ \ {"SCAN_PENDING"}]
  <2>1. ent[i].flags \ {"SCAN_PENDING"} \in SUBSET (ConnectFlags \cup Profiles)
    BY <1>1 DEF Containers, Entities
  <2>2. Tame(ent, E) /\ E \in Containers
    BY <1>1, <2>1, FlagLemma DEF Tame, Waits
  <2>3. ScanOn(E, i)
    BY <1>5
  <2> HIDE DEF E
  <2> QED BY <1>1, <2>2, <2>3, ScanOnLemma, TameTrans, TameStep
<1>6. CASE ScanOn(ent, i)
  BY <1>1, <1>6, ScanOnLemma, TameStep
<1> QED BY <1>3, <1>4, <1>5, <1>6 DEF scanning_procedure

\* A phone is connected again only while nobody waits, and only while it has a
\* failure to spare.
LEMMA ReconnectLemma ==
    ASSUME IInv, NEW i \in Ids, Reconnect(i), RestTyped'
    PROVE  IInv'
<1>1. ent \in Containers /\ ent[i] \in Entities
  BY TypeParts DEF Containers
<1>2. CASE UNCHANGED ent
  BY <1>1, <1>2, TameRefl, TameStep
<1>3. CASE ent' = GivenUp(ent, i)
  <2> DEFINE F == Free(ent, i, "zero")
             e == [F[i] EXCEPT !.fails = 0, !.flags = {"RECONN_FAILED"}]
  <2>1. Tame(ent, F) /\ F \in Containers
    BY <1>1, FreeLemma DEF Tame, Reasons
  <2>2. F[i] \in Entities
    BY <2>1 DEF Containers
  <2>3. ent' = [F EXCEPT ![i].fails = 0, ![i].flags = {"RECONN_FAILED"}]
    BY <1>3 DEF GivenUp
  <2> HIDE DEF F
  <2>4. e \in Entities
    <3>1. {"RECONN_FAILED"} \in SUBSET (ConnectFlags \cup Profiles)
      BY DEF ConnectFlags
    <3>2. 0 \in Nat
      OBVIOUS
    <3> QED BY <2>2, <3>1, <3>2, Zenon DEF Entities
  <2>5. TameAt(F[i], e)
    BY <2>2 DEF Entities, TameAt, Waits
  <2>6. ent' = [F EXCEPT ![i] = e]
    BY <2>1, <2>2, <2>3 DEF Containers, Entities
  <2> HIDE DEF e
  <2>7. Tame(F, ent')
    BY <2>1, <2>4, <2>5, <2>6, ReplaceLemma
  <2> QED BY <1>1, <2>1, <2>7, TameTrans, TameStep
<1>4. CASE /\ ~Blocked(i) /\ TryAgain(i)
           /\ ent' = [ent EXCEPT ![i].state = "CONNECTING",
                         ![i].flags = @ \cup {"RECONNECTING", "CONN_PENDING"}]
  <2> DEFINE e == [ent[i] EXCEPT !.state = "CONNECTING",
                       !.flags = @ \cup {"RECONNECTING", "CONN_PENDING"}]
  <2>1. e \in Entities
    <3>1. ent[i].flags \cup {"RECONNECTING", "CONN_PENDING"}
              \in SUBSET (ConnectFlags \cup Profiles)
      BY <1>1 DEF Entities, ConnectFlags
    <3>2. "CONNECTING" \in EntityStates
      BY DEF EntityStates
    <3> QED BY <1>1, <3>1, <3>2, Zenon DEF Entities
  <2>2. ent' = [ent EXCEPT ![i] = e]
    BY <1>1, <1>4 DEF Containers, Entities
  <2>3. e.fails = ent[i].fails /\ ent[i].fails \in Nat
    BY <1>1 DEF Entities
  <2>4. ent[i].fails < Limit
    BY <1>4, <2>3, ManageAssumption, LimitLemma DEF TryAgain
  <2>5. \A j \in Ags : ~Waits(ent[j])
    BY <1>4 DEF Blocked, AnyFlag, Waits
  <2> HIDE DEF e
  <2>6. ent' \in Containers /\ ent'[i] = e /\ \A j \in Ids \ {i} : ent'[j] = ent[j]
    BY <1>1, <2>1, <2>2 DEF Containers
  <2>7. \A j \in Ids : ent'[j].fails <= Limit
    <3>1. \A j \in Ids : ent[j].fails <= Limit
      BY DEF IInv, TypeOK, Limit
    <3> QED BY <2>3, <2>6, <3>1
  <2>8. Spare'
    BY <2>3, <2>4, <2>6, LimitLemma DEF Spare, IInv
  <2>9. OneWaits'
    BY <2>5, <2>6, IdsLemma DEF OneWaits, Waits
  <2>10. TypeOK'
    BY <2>6, <2>7 DEF RestTyped, TypeOK, LinkTyped, AuthTyped, AskTyped, Containers, Limit
  <2> QED BY <2>8, <2>9, <2>10 DEF IInv
<1> QED BY <1>2, <1>3, <1>4 DEF Reconnect

LEMMA StandbyLemma ==
    ASSUME IInv, NEW i \in Ids, standby_procedure(i), RestTyped'
    PROVE  IInv'
<1>1. ent \in Containers /\ ent[i] \in Entities /\ closing \subseteq Phones
  BY TypeParts DEF Containers, RestTyped
<1>2. "SCANNING" \in EntityStates \ {"CONNECTING"}
  BY DEF EntityStates
<1>3. CASE ToOn(i, "SCANNING")
  BY <1>1, <1>2, <1>3, ToLemma, TameStep
<1>4. CASE UNCHANGED ent
  BY <1>1, <1>4, TameRefl, TameStep
<1>5. CASE DisconnectLink(ent, i)
  BY <1>1, <1>5, DisconnectLinkLemma, TameStep
<1>6. CASE Reconnect(i)
  BY <1>6, ReconnectLemma
<1>7. CASE ent' = [ent EXCEPT ![i].flags = @ \ {"SCAN_PENDING"},
                       ![i].state = IF ent[i].work THEN "WORKING" ELSE "SNIFF"]
  <2> DEFINE s == IF ent[i].work THEN "WORKING" ELSE "SNIFF"
             e == [ent[i] EXCEPT !.flags = @ \ {"SCAN_PENDING"}, !.state = s]
  <2>1. s \in EntityStates \ {"CONNECTING"}
    BY DEF EntityStates
  <2>2. ent' = [ent EXCEPT ![i] = e]
    BY <1>1, <1>7 DEF Containers, Entities
  <2> HIDE DEF s
  <2>3. e \in Entities
    <3>1. ent[i].flags \ {"SCAN_PENDING"} \in SUBSET (ConnectFlags \cup Profiles)
      BY <1>1 DEF Entities
    <3> QED BY <1>1, <2>1, <3>1, Zenon DEF Entities
  <2>4. TameAt(ent[i], e)
    BY <1>1, <2>1 DEF Entities, TameAt, Waits
  <2> HIDE DEF e
  <2> QED BY <1>1, <2>2, <2>3, <2>4, ReplaceLemma, TameStep
<1> QED BY <1>3, <1>4, <1>5, <1>6, <1>7 DEF standby_procedure

\* The procedures of an entity that is connected.
LEMMA LinkedLemma ==
    ASSUME IInv, NEW i \in Ids, working_procedure(i) \/ sniff_mode_procedure(i), RestTyped'
    PROVE  IInv'
<1> DEFINE F == [ent EXCEPT ![i].event = "INVALID", ![i].flags = @ \ {"DISCONN_PENDING"}]
<1>1. ent \in Containers /\ ent[i] \in Entities
  BY TypeParts DEF Containers
<1>2. Tame(ent, F)
  <2> DEFINE e == [ent[i] EXCEPT !.event = "INVALID", !.flags = @ \ {"DISCONN_PENDING"}]
  <2>1. e \in Entities
    <3>1. ent[i].flags \ {"DISCONN_PENDING"} \in SUBSET (ConnectFlags \cup Profiles)
      BY <1>1 DEF Entities
    <3>2. "INVALID" \in EntityEvents
      BY DEF EntityEvents
    <3> QED BY <1>1, <3>1, <3>2, Zenon DEF Entities
  <2>2. TameAt(ent[i], e)
    BY <1>1 DEF Entities, TameAt, Waits
  <2>3. F = [ent EXCEPT ![i] = e]
    BY <1>1 DEF Containers, Entities
  <2> HIDE DEF e, F
  <2> QED BY <1>1, <2>1, <2>2, <2>3, ReplaceLemma
<1>3. \E E \in {F, ent} : ent' = E \/ ent' = [E EXCEPT ![i].state = "STANDBY"]
  BY DEF working_procedure, sniff_mode_procedure
<1> HIDE DEF F
<1>4. PICK E \in {F, ent} : ent' = E \/ ent' = [E EXCEPT ![i].state = "STANDBY"]
  BY <1>3
<1>5. Tame(ent, E) /\ E \in Containers
  BY <1>1, <1>2, TameRefl DEF Tame
<1>6. "STANDBY" \in EntityStates \ {"CONNECTING"}
  BY DEF EntityStates
<1>7. Tame(E, E) /\ Tame(E, [E EXCEPT ![i].state = "STANDBY"])
  BY <1>5, <1>6, TameRefl, MoveLemma
<1>8. Tame(ent, ent')
  BY <1>1, <1>4, <1>5, <1>7, TameTrans
<1> QED BY <1>8, TameStep

\* The failure of an attempt: the entity had one to spare.
LEMMA ConnectingLemma ==
    ASSUME IInv, NEW i \in Ids, ent[i].state = "CONNECTING", connecting_procedure(i),
           RestTyped'
    PROVE  IInv'
<1> DEFINE P == [ent EXCEPT ![i].state = "STANDBY", ![i].fails = @ + 1,
                            ![i].flags = @ \ {"CONN_PENDING"}]
           S == [ent EXCEPT ![i].state = "STANDBY", ![i].fails = 0,
                   ![i].flags = @ \ {"CONN_PENDING", "RECONNECTING", "RECONN_FAILED"}]
           Q == [ent EXCEPT ![i].state = "STANDBY"]
           Rest(E) == [E EXCEPT ![1 - i].flags = @ \ {"SCAN_PENDING"}]
<1>1. ent \in Containers /\ ent[i] \in Entities /\ 1 - i \in Ids
  BY TypeParts, IdsLemma DEF Containers
<1>2. "STANDBY" \in EntityStates \ {"CONNECTING"}
  BY DEF EntityStates
<1>3. ent[i].fails \in Nat /\ ent[i].fails < Limit
  BY <1>1 DEF IInv, Spare, Entities
<1>4. ASSUME NEW E \in Containers PROVE Tame(E, Rest(E))
  <2>1. E[1 - i].flags \ {"SCAN_PENDING"} \in SUBSET (ConnectFlags \cup Profiles)
    BY <1>1 DEF Containers, Entities
  <2> QED BY <1>1, <2>1, FlagLemma DEF Waits
<1>5. ent' = Rest(P) \/ ent' = Rest(S) \/ ent' = Rest(Q) \/ ent' = Rest(ent)
  BY DEF connecting_procedure
<1>6. CASE ent' = Rest(S) \/ ent' = Rest(Q) \/ ent' = Rest(ent)
  <2>1. Tame(ent, S)
    <3> DEFINE e == [ent[i] EXCEPT !.state = "STANDBY", !.fails = 0,
                       !.flags = @ \ {"CONN_PENDING", "RECONNECTING", "RECONN_FAILED"}]
    <3>1. e \in Entities
      <4>1. ent[i].flags \ {"CONN_PENDING", "RECONNECTING", "RECONN_FAILED"}
                \in SUBSET (ConnectFlags \cup Profiles)
        BY <1>1 DEF Entities
      <4>2. 0 \in Nat
        OBVIOUS
      <4> QED BY <1>1, <1>2, <4>1, <4>2, Zenon DEF Entities
    <3>2. TameAt(ent[i], e)
      BY <1>1, <1>3 DEF Entities, TameAt, Waits
    <3>3. S = [ent EXCEPT ![i] = e]
      BY <1>1 DEF Containers, Entities
    <3> HIDE DEF e, S
    <3> QED BY <1>1, <3>1, <3>2, <3>3, ReplaceLemma
  <2>2. Tame(ent, Q) /\ Tame(ent, ent)
    BY <1>1, <1>2, MoveLemma, TameRefl
  <2> HIDE DEF S, Q, Rest
  <2>3. PICK E \in {S, Q, ent} : ent' = Rest(E)
    BY <1>6
  <2>4. Tame(ent, E) /\ E \in Containers
    BY <1>1, <2>1, <2>2 DEF Tame
  <2>5. Tame(ent, ent')
    BY <1>1, <1>4, <2>3, <2>4, TameTrans
  <2> QED BY <2>5, TameStep
<1>7. CASE ent' = Rest(P)
  <2> DEFINE e == [ent[i] EXCEPT !.state = "STANDBY", !.fails = @ + 1,
                                 !.flags = @ \ {"CONN_PENDING"}]
  <2>1. e \in Entities
    <3>1. ent[i].flags \ {"CONN_PENDING"} \in SUBSET (ConnectFlags \cup Profiles)
      BY <1>1 DEF Entities
    <3>2. ent[i].fails + 1 \in Nat
      BY <1>3
    <3> QED BY <1>1, <1>2, <3>1, <3>2, Zenon DEF Entities
  <2>2. e.fails = ent[i].fails + 1 /\ e.state = "STANDBY" /\ ~Waits(e)
    BY <1>1 DEF Entities, Waits
  <2>3. P = [ent EXCEPT ![i] = e]
    BY <1>1 DEF Containers, Entities
  <2> HIDE DEF e
  <2>4. P \in Containers /\ P[i] = e /\ \A j \in Ids \ {i} : P[j] = ent[j]
    BY <1>1, <2>1, <2>3 DEF Containers
  <2> HIDE DEF P, Rest
  <2>5. Tame(P, ent')
    BY <1>4, <1>7, <2>4
  <2>6. /\ ent' \in Containers
        /\ \A j \in Ids : ent'[j].fails \in Nat /\ P[j].fails \in Nat /\ TameAt(P[j], ent'[j])
    BY <2>4, <2>5 DEF Tame, Containers, Entities
  <2>7. \A j \in Ids : P[j].fails <= Limit /\ (P[j].state = "CONNECTING" => P[j].fails < Limit)
    <3>1. \A j \in Ids : ent[j].fails <= Limit
      BY DEF IInv, TypeOK, Limit
    <3> QED BY <1>3, <2>2, <2>4, <3>1, LimitLemma DEF IInv, Spare
  <2>8. \A j \in Ids : ent'[j].fails <= Limit
    BY <2>6, <2>7, LimitLemma DEF TameAt
  <2>9. Spare'
    BY <2>6, <2>7, LimitLemma DEF Spare, TameAt
  <2>10. OneWaits'
    <3>1. \A j \in Ags : Waits(ent'[j]) => Waits(ent[j])
      BY <2>2, <2>4, <2>6, IdsLemma DEF TameAt
    <3> QED BY <3>1 DEF OneWaits, IInv, Waits
  <2>11. TypeOK'
    BY <2>6, <2>8 DEF RestTyped, TypeOK, LinkTyped, AuthTyped, AskTyped, Containers, Limit
  <2> QED BY <2>9, <2>10, <2>11 DEF IInv
<1> QED BY <1>5, <1>6, <1>7

\* bt_app_management_sched for one entity.
LEMMA ManageLemma ==
    ASSUME IInv, NEW i \in Ags, bt_app_management_sched(i),
           turn' \in 0 .. AttemptTurn, UNCHANGED surprises
    PROVE  IInv'
<1>1. i \in Ids /\ RestTyped /\ ent \in Containers
  BY IdsLemma, TypeParts
<1>2. CASE ent[i].state = "UNUSED" /\ unused_procedure(i)
  <2>1. RestTyped'
    BY <1>1, <1>2 DEF unused_procedure, RestTyped, LinkTyped, AuthTyped, AskTyped,
       hostVars, connVars, manageVars
  <2> QED BY <1>1, <1>2, <2>1, UnusedLemma
<1>3. CASE ent[i].state = "SCANNING" /\ scanning_procedure(i)
  <2>1. scan' \in {"off", "page", "both"}
    BY <1>1, <1>3 DEF scanning_procedure, ScanOn, RestTyped
  <2>2. RestTyped'
    BY <1>1, <1>3, <2>1 DEF scanning_procedure, RestTyped, LinkTyped, AuthTyped, AskTyped,
       hostVars, connVars
  <2> QED BY <1>1, <1>3, <2>2, ScanningLemma
<1>4. CASE ent[i].state = "STANDBY" /\ standby_procedure(i)
  <2>1. closing' \subseteq Phones
    <3>1. CASE DisconnectLink(ent, i)
      BY <1>1, <3>1, DisconnectLinkLemma DEF RestTyped
    <3>2. CASE UNCHANGED closing
      BY <1>1, <3>2 DEF RestTyped
    <3> QED BY <1>4, <3>1, <3>2 DEF standby_procedure
  <2>2. conn' \in Conns
    <3>1. conn \in Conns /\ ent[i].addr \in Phones \cup {NoPhone}
      BY <1>1 DEF RestTyped, Containers, Entities
    <3>2. Request(conn, ent[i].addr) \in Conns
      <4>1. /\ "FALSE" \in Results /\ "CONNECTING" \in Results
            /\ "START" \in ConnStates /\ "NULL" \in ConnEvents
        BY DEF Results, ConnStates, ConnEvents
      <4> QED BY <3>1, <4>1, Zenon DEF Request, Conns
    <3> QED BY <1>4, <3>1, <3>2 DEF standby_procedure, Reconnect
  <2>3. retry' \in BOOLEAN /\ tempId' \in Ids /\ asked' \in Phones \cup {NoPhone}
    <3>1. ent[i].addr \in Phones \cup {NoPhone}
      BY <1>1 DEF Containers, Entities
    <3> QED BY <1>1, <1>4, <3>1 DEF standby_procedure, Reconnect, RestTyped
  <2>4. RestTyped'
    BY <1>1, <1>4, <2>1, <2>2, <2>3 DEF standby_procedure, RestTyped, LinkTyped,
       AuthTyped, AskTyped
  <2> QED BY <1>1, <1>4, <2>4, StandbyLemma
<1>5. CASE ent[i].state = "WORKING" /\ working_procedure(i)
  <2>1. RestTyped'
    BY <1>1, <1>5 DEF working_procedure, RestTyped, LinkTyped, AuthTyped, AskTyped,
       hostVars, connVars, manageVars
  <2> QED BY <1>1, <1>5, <2>1, LinkedLemma
<1>6. CASE ent[i].state = "SNIFF" /\ sniff_mode_procedure(i)
  <2>1. RestTyped'
    BY <1>1, <1>6 DEF sniff_mode_procedure, RestTyped, LinkTyped, AuthTyped, AskTyped,
       hostVars, connVars, manageVars
  <2> QED BY <1>1, <1>6, <2>1, LinkedLemma
<1>7. CASE ent[i].state = "CONNECTING" /\ connecting_procedure(i)
  <2>1. RestTyped'
    BY <1>1, <1>7 DEF connecting_procedure, RestTyped, LinkTyped, AuthTyped, AskTyped,
       hostVars, connVars, manageVars
  <2> QED BY <1>1, <1>7, <2>1, ConnectingLemma
<1> QED BY <1>2, <1>3, <1>4, <1>5, <1>6, <1>7 DEF bt_app_management_sched

\* A pass of the main loop.
LEMMA LoopLemma ==
    ASSUME IInv, Loop
    PROVE  IInv'
<1>1. CASE Manage
  <2>1. turn \in Ags /\ turn' = turn + 1 /\ bt_app_management_sched(turn)
    BY <1>1 DEF Manage
  <2>2. turn' \in 0 .. AttemptTurn
    BY <2>1, EntityAssumption DEF Ags, AttemptTurn
  <2> QED BY <2>1, <2>2, ManageLemma DEF Loop
<1>2. CASE Schedule
  <2>1. RestTyped /\ AttemptTyped
    BY TypeParts
  <2>2. Orderly
    BY <1>2, <2>1, SchedulerLemma DEF Schedule
  <2>3. turn' \in 0 .. AttemptTurn
    BY <1>2, EntityAssumption DEF Schedule, AttemptTurn
  <2>4. UNCHANGED prof
    BY <1>2 DEF Schedule, bt_connect_scheduler
  <2>5. RestTyped'
    BY <1>2, <2>1, <2>2, <2>3, <2>4 DEF Schedule, Loop, Orderly, AttemptTyped, RestTyped,
       LinkTyped, AuthTyped, AskTyped, manageVars
  <2> QED BY <2>2, <2>5, TameStep DEF Orderly
<1> QED BY <1>1, <1>2 DEF Loop

-----------------------------------------------------------------------------
(* What the host reports. *)

\* What an event and an answer do to the attempt.
LEMMA EventTypes ==
    ASSUME NEW c \in Conns
    PROVE  /\ \A a : \A e \in ConnEvents : SetConnEvent(c, a, e) \in Conns
           /\ \A a : \A s \in ConnStates : SetConnState(c, a, s) \in Conns
           /\ \A a : WithoutLink(c, a) \in Conns
           /\ \A e \in ConnEvents, l \in {"none", "live", "stale"} :
                 [c EXCEPT !.event = e, !.link = l] \in Conns
           /\ c.event \in ConnEvents /\ c.link \in {"none", "live", "stale"}
<1>1. \A e \in ConnEvents : [c EXCEPT !.event = e] \in Conns
  BY Zenon DEF Conns
<1>2. \A s \in ConnStates : [c EXCEPT !.state = s] \in Conns
  BY Zenon DEF Conns
<1>3. \A e \in ConnEvents, l \in {"none", "live", "stale"} :
         [c EXCEPT !.event = e, !.link = l] \in Conns
  BY Zenon DEF Conns
<1>4. c.event \in ConnEvents /\ c.link \in {"none", "live", "stale"}
  BY DEF Conns
<1>5. \A a : WithoutLink(c, a) \in Conns
  BY <1>3, <1>4 DEF WithoutLink, ConnEvents
<1> QED BY <1>1, <1>2, <1>3, <1>4, <1>5 DEF SetConnEvent, SetConnState

\* The names of the events.
LEMMA EventNames ==
    /\ {"NULL", "ACL_FAIL", "ACL_CONNECTED", "AUTH_FAIL", "AUTH_SUCCESS", "ENCYPT_FAIL",
        "ENCYPTED", "SDP_FAIL", "SDP_FINISHED"} \subseteq ConnEvents
    /\ {"KEY_MISSING", "LOW_RESOURCES"} \subseteq ConnStates
BY DEF ConnEvents, ConnStates

LEMMA LinkMadeLemma ==
    ASSUME IInv, NEW a \in Phones, LinkMade(a), UNCHANGED <<turn, surprises>>
    PROVE  IInv'
<1> DEFINE E == Bind(ent, a)
           i == Find(E, a)
           m == IF "RECONNECTING" \in E[i].flags THEN E[i].mac ELSE a \in Macs
           e == [E[i] EXCEPT !.wrap = FALSE, !.mac = m]
<1>1. RestTyped /\ ent \in Containers
  BY TypeParts
<1>2. Tame(ent, E) /\ E \in Containers
  BY <1>1, BindLemma DEF Tame
<1>3. i \in Ids
  <2>1. \E j \in Ags : E[j].addr = a
    <3>1. Find(ent, a) # NoId => Find(ent, a) \in Ags
      BY FindLemma
    <3>2. Alloc(ent) \in Ags
      BY EntityAssumption DEF Alloc, Ags
    <3>3. \A j \in Ags : Attach(ent, j, TRUE, a, "zero")[j].addr = a
      BY <1>1, IdsLemma DEF Attach, Containers, Entities
    <3> QED BY <3>1, <3>2, <3>3 DEF Bind
  <2>2. Ags \subseteq Ids /\ \A j \in Ags : j \in {0, 1}
    BY IdsLemma
  <2>3. \E j \in Ags : E[j].addr = a /\ \A k \in Ags : E[k].addr = a => j <= k
    BY <2>1, EntityAssumption DEF Ags
  <2> HIDE DEF E
  <2> QED BY <2>1, <2>2, <2>3 DEF Find
<1>4. /\ link' = [link EXCEPT ![a] = "up"]
      /\ ent' = [E EXCEPT ![i].wrap = FALSE,
                    ![i].mac = IF "RECONNECTING" \in E[i].flags THEN @ ELSE a \in Macs]
      /\ conn' = SetConnEvent(conn, a, "ACL_CONNECTED")
      /\ evicted' = (evicted \cup Evicted(E)) \ {a}
      /\ UNCHANGED <<prof, closing, auth, ask, scan, retry, tempId, late, asked>>
  BY DEF LinkMade
<1>5. RestTyped'
  <2>1. conn' \in Conns
    <3>1. "ACL_CONNECTED" \in ConnEvents /\ conn \in Conns
      BY <1>1 DEF ConnEvents, RestTyped
    <3> HIDE DEF E, i
    <3> QED BY <3>1, <1>4, EventTypes
  <2>2. LinkTyped'
    BY <1>1, <1>4 DEF RestTyped, LinkTyped
  <2>3. evicted' \subseteq Phones
    BY <1>1, <1>4 DEF RestTyped, Evicted
  <2> QED BY <1>1, <1>4, <2>1, <2>2, <2>3 DEF RestTyped, AuthTyped, AskTyped
<1> HIDE DEF E, i
<1>6. E[i] \in Entities
  BY <1>2, <1>3 DEF Containers
<1>7. e \in Entities /\ TameAt(E[i], e)
  <2>1. m \in BOOLEAN
    <3>1. E[i].mac \in BOOLEAN
      BY <1>6 DEF Entities
    <3>2. (a \in Macs) \in BOOLEAN
      OBVIOUS
    <3>3. CASE "RECONNECTING" \in E[i].flags
      BY <3>1, <3>3
    <3>4. CASE "RECONNECTING" \notin E[i].flags
      BY <3>2, <3>4
    <3> QED BY <3>3, <3>4
  <2> HIDE DEF m
  <2>2. e \in Entities
    BY <1>6, <2>1, Zenon DEF Entities
  <2>3. TameAt(E[i], e)
    BY <1>6 DEF Entities, TameAt, Waits
  <2> QED BY <2>2, <2>3
<1>8. ent' = [E EXCEPT ![i] = e]
  BY <1>2, <1>3, <1>4, <1>6 DEF Containers, Entities
<1> HIDE DEF e
<1> QED BY <1>1, <1>2, <1>3, <1>5, <1>7, <1>8, ReplaceLemma, TameTrans, TameStep

LEMMA LinkFailedLemma ==
    ASSUME IInv, NEW a \in Phones, LinkFailed(a), UNCHANGED <<turn, surprises>>
    PROVE  IInv'
<1>1. RestTyped /\ ent \in Containers
  BY TypeParts
<1>2. conn' \in Conns
  <2>1. conn \in Conns /\ "stale" \in {"none", "live", "stale"}
    BY <1>1 DEF RestTyped
  <2>2. \E e \in {"ACL_FAIL", conn.event}, l \in {"stale", conn.link} :
            conn' = conn \/ conn' = [conn EXCEPT !.event = e, !.link = l]
    BY DEF LinkFailed
  <2>3. \A e \in {"ACL_FAIL", conn.event} : e \in ConnEvents
    BY <2>1, EventTypes DEF ConnEvents
  <2>4. \A l \in {"stale", conn.link} : l \in {"none", "live", "stale"}
    BY <2>1, EventTypes
  <2>5. PICK e \in {"ACL_FAIL", conn.event}, l \in {"stale", conn.link} :
            conn' = conn \/ conn' = [conn EXCEPT !.event = e, !.link = l]
    BY <2>2
  <2>6. [conn EXCEPT !.event = e, !.link = l] \in Conns
    BY <2>1, <2>3, <2>4, EventTypes
  <2> QED BY <2>1, <2>5, <2>6
<1>3. LinkTyped'
  BY <1>1 DEF LinkFailed, RestTyped, LinkTyped
<1>4. RestTyped'
  BY <1>1, <1>2, <1>3 DEF LinkFailed, RestTyped, AuthTyped, AskTyped, manageVars
<1> QED BY <1>1, <1>4, TameRefl, TameStep DEF LinkFailed

LEMMA LinkLostLemma ==
    ASSUME IInv, NEW a \in Phones, NEW reason \in {"timeout", "other"}, LinkLost(a, reason),
           UNCHANGED turn, surprises' \in 0 .. MaxSurprises
    PROVE  IInv'
<1> DEFINE E == ClearFlags(ent, a, Profiles \cup {"DISCONN_PENDING"})
<1>1. RestTyped /\ ent \in Containers
  BY TypeParts
<1>2. PICK F \in EndOfStream(E, a, prof[a]) : ent' = FreeByAddr(F, a, reason)
  BY DEF LinkLost
<1>3. Tame(ent, E) /\ E \in Containers
  BY <1>1, ClearFlagsLemma DEF Tame
<1>4. Tame(E, F) /\ F \in Containers
  BY <1>3, EndOfStreamLemma DEF Tame
<1>5. Tame(F, ent')
  BY <1>2, <1>4, FreeByAddrLemma DEF Reasons
<1>6. Tame(ent, ent')
  BY <1>1, <1>3, <1>4, <1>5, TameTrans
<1>7. /\ link' = [link EXCEPT ![a] = "none"] /\ prof' = [prof EXCEPT ![a] = {}]
      /\ closing' = closing \ {a} /\ auth' = AuthAfterFree(ent, a)
      /\ conn' = WithoutLink(conn, a) /\ ask' \in {"none", ask}
      /\ UNCHANGED manageVars
  BY DEF LinkLost
<1>8. LinkTyped' /\ AskTyped' /\ AuthTyped'
  BY <1>1, <1>7 DEF RestTyped, LinkTyped, AskTyped, AuthTyped, AuthAfterFree
<1>9. conn' \in Conns /\ prof' \in [Phones -> SUBSET Profiles]
  BY <1>1, <1>7, EventTypes DEF RestTyped
<1>10. RestTyped'
  BY <1>1, <1>7, <1>8, <1>9 DEF RestTyped, manageVars
<1> QED BY <1>6, <1>10, TameStep

\* A step that leaves the links and the entities alone.
LEMMA QuietLemma ==
    ASSUME IInv, conn' \in Conns, AskTyped', UNCHANGED <<hostVars, ent, auth, turn>>,
           UNCHANGED <<scan, late, asked, evicted>>,
           retry' \in BOOLEAN, tempId' \in Ids, surprises' \in 0 .. MaxSurprises
    PROVE  IInv'
<1>1. RestTyped /\ ent \in Containers
  BY TypeParts
<1>2. RestTyped'
  BY <1>1 DEF RestTyped, LinkTyped, AuthTyped, hostVars
<1> QED BY <1>1, <1>2, TameRefl, TameStep

LEMMA ProfileUpLemma ==
    ASSUME IInv, NEW a \in Phones \cup {NoPhone}, NEW p \in Profiles, ProfileUp(a, p),
           AskTyped', UNCHANGED turn, surprises' \in 0 .. MaxSurprises
    PROVE  IInv'
<1> DEFINE E == SetFlags(ent, a, {p})
           on == prof[a] \cup {p}
<1>1. RestTyped /\ ent \in Containers
  BY TypeParts
<1>2. Tame(ent, E) /\ E \in Containers
  BY <1>1, SetFlagsLemma DEF Tame
<1>3. ent' = ConnectedWrap(E, a) \/ ent' = E
  BY DEF ProfileUp
<1>4. Tame(ent, ent')
  <2> HIDE DEF E
  <2>1. Tame(E, ConnectedWrap(E, a)) /\ Tame(E, E)
    BY <1>2, ConnectedWrapLemma, TameRefl
  <2> QED BY <1>1, <1>2, <1>3, <2>1, TameTrans
<1>5. prof' \in [Phones -> SUBSET Profiles]
  BY <1>1 DEF ProfileUp, RestTyped
<1>6. conn' \in Conns
  <2>1. conn' = SetConnEvent(conn, a, Connected(p)) /\ conn \in Conns
    BY <1>1 DEF ProfileUp, RestTyped
  <2> QED BY <2>1, EventTypes, ProfileNames
<1>7. late' \in Phones \cup {NoPhone}
  BY <1>1 DEF ProfileUp, RestTyped
<1>8. RestTyped'
  BY <1>1, <1>5, <1>6, <1>7 DEF ProfileUp, RestTyped, LinkTyped, AuthTyped
<1> QED BY <1>4, <1>8, TameStep

LEMMA ProfileDownLemma ==
    ASSUME IInv, NEW a \in Phones \cup {NoPhone}, NEW p \in Profiles, ProfileDown(a, p),
           AskTyped', UNCHANGED turn, surprises' \in 0 .. MaxSurprises
    PROVE  IInv'
<1> DEFINE E == ClearFlags(ent, a, {p})
<1>1. RestTyped /\ ent \in Containers
  BY TypeParts
<1>2. Tame(ent, E) /\ E \in Containers
  BY <1>1, ClearFlagsLemma DEF Tame
<1>3. Tame(ent, ent')
  <2>1. ent' \in EndOfStream(E, a, {p})
    BY DEF ProfileDown
  <2> HIDE DEF E
  <2>2. Tame(E, ent')
    BY <1>2, <2>1, EndOfStreamLemma
  <2> QED BY <1>1, <1>2, <2>2, TameTrans
<1>4. prof' \in [Phones -> SUBSET Profiles]
  BY <1>1 DEF ProfileDown, RestTyped
<1>5. conn' \in Conns
  <2>1. conn' = SetConnEvent(conn, a, Disconnected(p)) /\ conn \in Conns
    BY <1>1 DEF ProfileDown, RestTyped
  <2> QED BY <2>1, EventTypes, ProfileNames
<1>6. RestTyped'
  BY <1>1, <1>4, <1>5 DEF ProfileDown, RestTyped, LinkTyped, AuthTyped, manageVars
<1> QED BY <1>3, <1>6, TameStep

\* The answers of the host.
LEMMA AnswerLemma ==
    ASSUME IInv, HostAnswers(Succeeds \/ Fails \/ Refuses("missing", "KEY_MISSING")
                                \/ Refuses("resources", "LOW_RESOURCES")),
           UNCHANGED turn, surprises' \in 0 .. MaxSurprises
    PROVE  IInv'
<1>1. RestTyped /\ conn \in Conns /\ AskTyped' /\ conn.addr \in Phones \cup {NoPhone}
  BY TypeParts DEF HostAnswers, AskTyped, RestTyped, Conns
<1>2. ASSUME NEW event \in ConnEvents, Answer(event) PROVE IInv'
  <2>1. conn' \in Conns
    BY <1>1, <1>2, EventTypes DEF Answer
  <2> QED BY <1>1, <1>2, <2>1, QuietLemma DEF Answer, RestTyped, manageVars
<1>3. ASSUME NEW what, NEW state \in ConnStates, Refuses(what, state) PROVE IInv'
  <2>1. conn' \in Conns
    BY <1>1, <1>3, EventTypes DEF Refuses
  <2> QED BY <1>1, <1>3, <2>1, QuietLemma DEF Refuses, RestTyped, manageVars
<1>4. ASSUME NEW P \in SdpResults,
             conn' = [conn EXCEPT !.event = "SDP_FINISHED", !.profile = @ \cup P],
             UNCHANGED <<hostVars, ent, auth, manageVars>>
      PROVE  IInv'
  <2>1. conn.profile \cup P \in SUBSET Profiles
    BY <1>1, ManageAssumption DEF Conns
  <2>2. conn' \in Conns
    BY <1>1, <1>4, <2>1, EventNames, Zenon DEF Conns
  <2> QED BY <1>1, <1>4, <2>2, QuietLemma DEF RestTyped, manageVars
<1>5. ASSUME NEW p \in Profiles, ProfileUp(conn.addr, p) \/ ProfileDown(conn.addr, p)
      PROVE  IInv'
  BY <1>1, <1>5, ProfileUpLemma, ProfileDownLemma
<1>6. /\ "AUTH_SUCCESS" \in ConnEvents /\ "ENCYPTED" \in ConnEvents
      /\ "AUTH_FAIL" \in ConnEvents /\ "ENCYPT_FAIL" \in ConnEvents
      /\ "SDP_FAIL" \in ConnEvents
      /\ "KEY_MISSING" \in ConnStates /\ "LOW_RESOURCES" \in ConnStates
  BY DEF ConnEvents, ConnStates
<1>7. CASE Succeeds
  BY <1>2, <1>4, <1>5, <1>6, <1>7 DEF Succeeds
<1>8. CASE Fails
  BY <1>2, <1>5, <1>6, <1>8 DEF Fails
<1> QED BY <1>3, <1>6, <1>7, <1>8 DEF HostAnswers

LEMMA LateLemma ==
    ASSUME IInv, LateConnected, UNCHANGED <<turn, surprises>>
    PROVE  IInv'
<1>1. RestTyped /\ ent \in Containers
  BY TypeParts
<1>2. Tame(ent, ent')
  BY <1>1, ConnectedWrapLemma DEF LateConnected
<1>3. RestTyped'
  BY <1>1 DEF LateConnected, RestTyped, LinkTyped, AuthTyped, AskTyped, hostVars, connVars
<1> QED BY <1>2, <1>3, TameStep

\* The times, and the answer to a cancelled page.
LEMMA TimeLemma ==
    ASSUME IInv, CancelAnswered \/ Expire \/ RetryExpires, UNCHANGED <<turn, surprises>>
    PROVE  IInv'
<1>1. RestTyped /\ conn \in Conns /\ AskTyped
  BY TypeParts DEF RestTyped
<1>2. /\ [conn EXCEPT !.cancel = "answered"] \in Conns
      /\ [conn EXCEPT !.expired = TRUE] \in Conns
  BY <1>1, Zenon DEF Conns
<1>3. CASE CancelAnswered
  BY <1>1, <1>2, <1>3, QuietLemma DEF CancelAnswered, RestTyped, AskTyped, manageVars
<1>4. CASE Expire
  BY <1>1, <1>2, <1>4, QuietLemma DEF Expire, RestTyped, AskTyped, manageVars
<1>5. CASE RetryExpires
  BY <1>1, <1>5, QuietLemma DEF RetryExpires, RestTyped, AskTyped, connVars
<1> QED BY <1>3, <1>4, <1>5

LEMMA AwaitedLemma ==
    ASSUME IInv, Awaited, UNCHANGED turn
    PROVE  IInv'
<1>1. UNCHANGED <<turn, surprises>> /\ surprises \in 0 .. MaxSurprises
  BY TypeParts DEF Awaited, RestTyped
<1>2. ASSUME NEW a \in Phones,
             \/ LinkMade(a) \/ LinkFailed(a)
             \/ \E reason \in {"timeout", "other"} : LinkLost(a, reason)
      PROVE  IInv'
  BY <1>1, <1>2, LinkMadeLemma, LinkFailedLemma, LinkLostLemma
<1>3. CASE HostAnswers(Succeeds \/ Fails)
  <2>1. HostAnswers(Succeeds \/ Fails \/ Refuses("missing", "KEY_MISSING")
                       \/ Refuses("resources", "LOW_RESOURCES"))
    BY <1>3 DEF HostAnswers
  <2> QED BY <1>1, <2>1, AnswerLemma
<1>4. CASE LateConnected
  BY <1>1, <1>4, LateLemma
<1>5. CASE CancelAnswered \/ Expire \/ RetryExpires
  BY <1>1, <1>5, TimeLemma
<1> QED BY <1>2, <1>3, <1>4, <1>5 DEF Awaited

LEMMA SurpriseLemma ==
    ASSUME IInv, Surprise, UNCHANGED turn
    PROVE  IInv'
<1>1. /\ RestTyped /\ ent \in Containers /\ conn \in Conns /\ AskTyped
      /\ surprises' \in 0 .. MaxSurprises
  BY TypeParts, ManageAssumption DEF Surprise, RestTyped
<1>2. CASE HostAnswers(Refuses("missing", "KEY_MISSING")
                          \/ Refuses("resources", "LOW_RESOURCES"))
  <2>1. HostAnswers(Succeeds \/ Fails \/ Refuses("missing", "KEY_MISSING")
                       \/ Refuses("resources", "LOW_RESOURCES"))
    BY <1>2 DEF HostAnswers
  <2> QED BY <1>1, <2>1, AnswerLemma
<1>3. ASSUME NEW a \in Phones, NEW reason \in LossReasons, LinkLost(a, reason)
      PROVE  IInv'
  BY <1>1, <1>3, LinkLostLemma, ManageAssumption
<1>4. ASSUME NEW a \in Phones, Call(a)
      PROVE  IInv'
  <2>1. LinkTyped'
    BY <1>1, <1>4 DEF Call, RestTyped, LinkTyped
  <2>2. RestTyped'
    BY <1>1, <1>4, <2>1 DEF Call, RestTyped, AuthTyped, AskTyped, connVars, manageVars
  <2> QED BY <1>1, <1>4, <2>2, TameRefl, TameStep DEF Call
<1>5. ASSUME NEW a \in Phones, PhoneEncrypts(a)
      PROVE  IInv'
  <2>1. conn' \in Conns
    BY <1>1, <1>5, EventTypes DEF PhoneEncrypts, ConnEvents
  <2> QED BY <1>1, <1>5, <2>1, QuietLemma DEF PhoneEncrypts, RestTyped, AskTyped, manageVars
<1>6. ASSUME NEW a \in Phones, NEW p \in Profiles, PhoneConnects(a, p)
      PROVE  IInv'
  <2>1. AskTyped'
    BY <1>1, <1>6 DEF PhoneConnects, AskTyped
  <2> QED BY <1>1, <1>6, <2>1, ProfileUpLemma DEF PhoneConnects
<1>7. ASSUME NEW a \in Phones, NEW p \in Profiles, PhoneDisconnects(a, p)
      PROVE  IInv'
  <2>1. AskTyped'
    BY <1>1, <1>7 DEF PhoneDisconnects, AskTyped
  <2> QED BY <1>1, <1>7, <2>1, ProfileDownLemma DEF PhoneDisconnects
<1>8. ASSUME NEW a \in Phones, NEW on \in BOOLEAN, Play(a, on)
      PROVE  IInv'
  <2>1. Tame(ent, ent')
    BY <1>1, <1>8, SetWorkLemma DEF Play
  <2>2. RestTyped'
    BY <1>1, <1>8 DEF Play, RestTyped, LinkTyped, AuthTyped, AskTyped, hostVars, connVars,
       manageVars
  <2> QED BY <2>1, <2>2, TameStep
<1>9. CASE MatchButton
  <2> DEFINE e(i) == IF i \in Ags THEN [ent[i] EXCEPT !.event = "BOTH_SCANNING"] ELSE ent[i]
  <2>1. ASSUME NEW i \in Ids PROVE e(i) \in Entities /\ TameAt(ent[i], e(i))
    <3>1. ent[i] \in Entities /\ "BOTH_SCANNING" \in EntityEvents
      BY <1>1 DEF Containers, EntityEvents
    <3> QED BY <3>1 DEF Entities, TameAt, Waits
  <2>2. ent' = [i \in Ids |-> e(i)]
    BY <1>9 DEF MatchButton
  <2> HIDE DEF e
  <2>3. Tame(ent, ent')
    BY <2>1, <2>2 DEF Tame, Containers
  <2>4. RestTyped'
    BY <1>1, <1>9 DEF MatchButton, RestTyped, LinkTyped, AuthTyped, AskTyped, hostVars,
       connVars, manageVars
  <2> QED BY <2>3, <2>4, TameStep
<1> QED BY <1>2, <1>3, <1>4, <1>5, <1>6, <1>7, <1>8, <1>9 DEF Surprise

-----------------------------------------------------------------------------
(* The invariant. *)

LEMMA InitLemma == Init => IInv
<1> SUFFICES ASSUME Init PROVE IInv
  OBVIOUS
<1>1. FreeEntity \in Entities
  BY Zenon DEF FreeEntity, Entities, EntityStates, EntityEvents, Reasons
<1>2. \A i \in Ids : ent[i] \in Entities /\ ent[i].fails = 0
                     /\ ent[i].state = "UNUSED" /\ ent[i].flags = {}
  <2> TAKE i \in Ids
  <2> DEFINE E == IF i \in Ags THEN [FreeEntity EXCEPT !.event = "ENABLE_COMPLETE"]
                  ELSE FreeEntity
  <2>1. E \in Entities
    BY <1>1 DEF Entities, EntityEvents
  <2>2. E.fails = 0 /\ E.state = "UNUSED" /\ E.flags = {}
    BY DEF FreeEntity
  <2>3. ent[i] = IF i + 1 \in DOMAIN Paired /\ i \in Ags
                 THEN [E EXCEPT !.used = TRUE, !.addr = Paired[i + 1]] ELSE E
    BY DEF Init
  <2>4. i + 1 \in DOMAIN Paired => Paired[i + 1] \in Phones
    BY ManageAssumption DEF Ids
  <2> HIDE DEF E
  <2>5. i + 1 \in DOMAIN Paired =>
           [E EXCEPT !.used = TRUE, !.addr = Paired[i + 1]] \in Entities
    BY <2>1, <2>4, Zenon DEF Entities
  <2> QED BY <2>1, <2>2, <2>3, <2>5 DEF Entities
<1>3. ent \in Containers
  <2>1. ent = [i \in Ids |-> ent[i]]
    BY DEF Init
  <2> QED BY <1>2, <2>1 DEF Containers
<1>4. conn \in Conns
  <2>1. /\ "NULL" \in ConnEvents /\ "START" \in ConnStates /\ "FALSE" \in Results
        /\ 0 \in 0 .. MaxInnerCount + 1
    BY DEF ConnEvents, ConnStates, Results, MaxInnerCount
  <2> QED BY <2>1 DEF Init, ConnInit, Conns
<1>5. RestTyped
  <2>1. turn \in 0 .. AttemptTurn /\ tempId \in Ids /\ surprises \in 0 .. MaxSurprises
    BY EntityAssumption, ManageAssumption DEF Init, AttemptTurn, Ids
  <2> QED BY <1>4, <2>1 DEF Init, ConnInit, RestTyped, LinkTyped, AuthTyped, AskTyped
<1>6. TypeOK
  BY <1>2, <1>3, <1>5, TypeParts, LimitLemma
<1>7. Spare /\ OneWaits
  BY <1>2, IdsLemma DEF Spare, OneWaits
<1> QED BY <1>6, <1>7 DEF IInv

LEMMA StepLemma == IInv /\ [Next]_vars => IInv'
<1> SUFFICES ASSUME IInv, [Next]_vars PROVE IInv'
  OBVIOUS
<1>1. CASE Loop
  BY <1>1, LoopLemma
<1>2. CASE Host
  BY <1>2, AwaitedLemma, SurpriseLemma DEF Host
<1>3. CASE UNCHANGED vars
  BY <1>3 DEF vars, hostVars, connVars, manageVars, IInv, TypeOK, Spare, OneWaits
<1> QED BY <1>1, <1>2, <1>3 DEF Next

\* The invariant holds in every behaviour of the connections.
THEOREM InductiveInvariant == Spec => []IInv
<1> QED BY InitLemma, StepLemma, PTL DEF Spec

\* Every variable keeps its type, and no phone fails more often than it may be tried
\* (bt_app_standby_procedure, bt_app_connecting_procedure).
THEOREM TypeCorrect == Spec => []TypeOK
<1>1. IInv => TypeOK
  BY DEF IInv
<1> QED BY <1>1, InductiveInvariant, PTL

\* Two entities never wait for an attempt at once (BT_CONNECT_STATE_CONN_PENDING).
THEOREM OnePhoneWaits == Spec => []OneWaits
<1>1. IInv => OneWaits
  BY DEF IInv
<1> QED BY <1>1, InductiveInvariant, PTL

-----------------------------------------------------------------------------
(* What a step of the attempt does to the request, to its answer and to    *)
(* the result; c is the attempt once its last event was looked at.         *)

AuthAnswers == {"AUTH_SUCCESS", "AUTH_FAIL"}
Final == {"SUCCESS", "FAIL"}

\* Authentication is asked for over a link that was just looked up, or again over the same.
Careful(c) ==
    /\ conn'.state # "AUTH_FAIL"
    /\ conn'.state = "WAIT_AUTH" =>
          \/ conn'.link = "live"
          \/ conn'.link = c.link /\ c.state = "WAIT_AUTH" /\ ask' = ask
          \/ conn'.link = c.link /\ c.state = "AUTH_FAIL"
    /\ ask' # ask /\ ask' = "auth" => conn'.state = "WAIT_AUTH"
    /\ ask' # ask /\ ask' = "encrypt" =>
          \/ c.state = "ENCYPT_FAIL"
          \/ c.state = "AUTH_SUCCESS" /\ conn'.link = c.link

\* The result that is handed over is that of the attempt.
Telling(c) ==
    /\ conn'.s_result \in {c.s_result, "CONNECTING"} \cup Final
    /\ conn'.active => conn'.result \in {c.result, "SUCCESS"}
    /\ conn'.active /\ conn'.state = "END" =>
          \/ conn'.s_result \in Final
          \/ /\ "HFP" \in Profiles /\ conn'.s_result = c.s_result
             /\ c.state \in {"WAIT_HFP", "HFP_CONNECTED"}
    /\ ~conn'.active => /\ c.state = "END" /\ conn'.state = "END" /\ conn'.link = "none"
                        /\ conn'.result = c.s_result /\ conn'.s_result = c.s_result

\* A request that is counted as made again finds the failure taken back, but for AVRCP.
Renewing(c) ==
    /\ conn'.state = "START" => c.state = "START" /\ ask' = ask
    /\ ask' # ask /\ ask' \in Profiles => ask' \notin prof[c.addr]
    /\ \/ ask' = ask /\ conn'.event = c.event /\ conn'.count \in {c.count, 1}
       \/ ask' = ask /\ c.state = "START"
       \/ conn'.count = 1
       \/ conn'.event = "NULL" /\ conn'.active
       \/ ask' = "AVRCP"
       \/ ask' = "none" /\ ~conn'.active
    /\ ~conn'.active => ask' = "none"

Outcome(c) ==
    /\ conn'.addr = c.addr /\ conn'.event \in {c.event, "NULL"}
    /\ Careful(c) /\ Telling(c) /\ Renewing(c)

\* The states in which the link is looked up.
Looking == {"START", "WAIT_ACL", "ACL_CONNECTED"}

\* d is the attempt c before it moves on.
Near(c, d) ==
    /\ d \in Conns /\ d.active /\ d.addr = c.addr /\ d.event = c.event
    /\ d.result = c.result /\ d.s_result = c.s_result
    /\ d.count \in {c.count, 1}
    /\ d.state = c.state \/ d.state \in {Connected(p) : p \in Profiles}
    /\ d.state # "END"
    /\ d.link = c.link \/ c.state \in Looking

\* The names of the states of a profile are those of no other state.
LEMMA NamesApart ==
    ASSUME NEW p \in Profiles
    PROVE  /\ Connected(p) \in {"HFP_CONNECTED", "A2DP_CONNECTED", "AVRCP_CONNECTED"}
           /\ Waiting(p) \in {"WAIT_HFP", "WAIT_A2DP", "WAIT_AVRCP"}
           /\ Failed(p) \in {"HFP_FAIL", "A2DP_FAIL", "AVRCP_FAIL"}
           /\ p \notin {"auth", "encrypt", "sdp", "none"}
BY EntityAssumption DEF Connected, Waiting, Failed

LEMMA NearStay ==
    ASSUME NEW c, NEW d, Near(c, d), d.state # "AUTH_FAIL", Stay(d)
    PROVE  Outcome(c)
<1>1. conn' = d /\ ask' = ask
  BY DEF Stay
<1>2. d.state \notin {"WAIT_AUTH", "START"} \/ d.state = c.state
  BY NamesApart DEF Near
<1>3. d.link = c.link \/ c.state # "WAIT_AUTH"
  BY DEF Near, Looking
<1> QED BY <1>1, <1>2, <1>3 DEF Near, Outcome, Careful, Telling, Renewing

LEMMA NearEnds ==
    ASSUME NEW c, NEW d, Near(c, d), Fail(d) \/ Succeed(d)
    PROVE  Outcome(c)
<1>1. d \in Conns
  BY DEF Near
<1>2. PICK s \in Final : Stay([d EXCEPT !.state = "END", !.s_result = s])
  <2>1. \E s \in Final : Stay([d EXCEPT !.state = "END", !.s_result = s])
    BY DEF Fail, Succeed, Final
  <2> QED BY <2>1
<1>3. /\ conn'.state = "END" /\ conn'.s_result = s /\ conn'.active = d.active
      /\ conn'.addr = d.addr /\ conn'.event = d.event /\ conn'.result = d.result
      /\ conn'.count = d.count /\ ask' = ask
  BY <1>1, <1>2 DEF Stay, Conns
<1> QED BY <1>3 DEF Near, Outcome, Careful, Telling, Renewing

LEMMA NearGivesUp ==
    ASSUME NEW c, Near(c, c), GiveUp(c)
    PROVE  Outcome(c)
<1>1. c \in Conns
  BY DEF Near
<1>2. /\ conn'.state = "WAIT_DISCONNECTED" /\ conn'.s_result = c.s_result
      /\ conn'.active = c.active /\ conn'.addr = c.addr /\ conn'.event = c.event
      /\ conn'.result = c.result /\ conn'.count = c.count /\ ask' = ask
  BY <1>1 DEF GiveUp, Conns
<1> QED BY <1>2 DEF Near, Outcome, Careful, Telling, Renewing

\* A request, with what is needed for authentication and encryption.
LEMMA NearAsks ==
    ASSUME NEW c, NEW d, Near(c, d), NEW r \in Requests, NEW w \in WaitStates,
           \/ conn' = [d EXCEPT !.state = w, !.count = 1]
           \/ conn' = [d EXCEPT !.state = w, !.event = "NULL", !.count = @ + 1]
           \/ conn' = [d EXCEPT !.state = w, !.count = @ + 1] /\ r = "AVRCP"
           \/ \E e \in BOOLEAN : conn' = [d EXCEPT !.state = w, !.count = 1, !.expired = e],
           ask' = r,
           r = "auth" <=> w = "WAIT_AUTH",
           r = "auth" => d.link = "live" \/ (c.state = "AUTH_FAIL" /\ d.link = c.link),
           r = "encrypt" => c.state \in {"ENCYPT_FAIL", "AUTH_SUCCESS"},
           r \in Profiles => r \notin prof[c.addr]
    PROVE  Outcome(c)
<1>1. d \in Conns
  BY DEF Near
<1>2. /\ conn'.state = w /\ conn'.s_result = d.s_result /\ conn'.active = d.active
      /\ conn'.addr = d.addr /\ conn'.result = d.result /\ conn'.link = d.link
      /\ conn'.event \in {d.event, "NULL"}
      /\ conn'.count = 1 \/ conn'.event = "NULL" \/ r = "AVRCP"
  BY <1>1 DEF Conns
<1>3. w \notin {"START", "END", "AUTH_FAIL"}
  BY DEF WaitStates
<1>4. r = "encrypt" => c.state \notin Looking
  BY DEF Looking
<1>5. Careful(c)
  BY <1>2, <1>3, <1>4 DEF Near, Careful
<1>6. Telling(c) /\ Renewing(c)
  BY <1>2, <1>3 DEF Near, Telling, Renewing
<1> QED BY <1>2, <1>5, <1>6 DEF Near, Outcome

LEMMA NearAskLink ==
    ASSUME NEW c, NEW d, Near(c, d),
           \/ AskLink(d, "auth", "WAIT_AUTH") /\ d.link = "live" /\ c.state = "ACL_CONNECTED"
           \/ AskLink(d, "encrypt", "WAIT_ENCYPTED") /\ c.state = "AUTH_SUCCESS",
           d.state = c.state
    PROVE  Outcome(c)
<1>1. CASE conn' = d /\ ask' = ask
  <2>1. d.state \notin {"AUTH_FAIL", "WAIT_AUTH", "START"}
    OBVIOUS
  <2> QED BY <1>1, <2>1 DEF Near, Outcome, Careful, Telling, Renewing
<1>2. CASE /\ conn' = [d EXCEPT !.state = "WAIT_AUTH", !.count = 1] /\ ask' = "auth"
           /\ d.link = "live"
  <2>1. "auth" \notin Profiles /\ "auth" \in Requests /\ "WAIT_AUTH" \in WaitStates
    BY NamesApart DEF Requests, WaitStates
  <2> QED BY <1>2, <2>1, NearAsks
<1>3. CASE /\ conn' = [d EXCEPT !.state = "WAIT_ENCYPTED", !.count = 1] /\ ask' = "encrypt"
           /\ c.state = "AUTH_SUCCESS"
  <2>1. /\ "encrypt" \notin Profiles /\ "encrypt" \in Requests
        /\ "WAIT_ENCYPTED" \in WaitStates
    BY NamesApart DEF Requests, WaitStates
  <2> QED BY <1>3, <2>1, NearAsks
<1> QED BY <1>1, <1>2, <1>3 DEF AskLink

LEMMA NearAgain ==
    ASSUME NEW c, Near(c, c), NEW r \in Requests, NEW w \in WaitStates, Again(c, r, w),
           r = "auth" <=> w = "WAIT_AUTH",
           r = "auth" => c.state = "AUTH_FAIL",
           r = "encrypt" => c.state = "ENCYPT_FAIL",
           r \in Profiles => r \notin prof[c.addr]
    PROVE  Outcome(c)
BY NearAsks DEF Again

LEMMA NearConnects ==
    ASSUME NEW c, NEW d, Near(c, d), NEW p \in Profiles, NEW e \in BOOLEAN, Connect(d, p, e)
    PROVE  Outcome(c)
<1>1. d \in Conns /\ d.addr = c.addr
  BY DEF Near
<1>2. CASE p \notin prof[d.addr]
  <2>1. conn' = [d EXCEPT !.state = Waiting(p), !.count = 1, !.expired = e] /\ ask' = p
    BY <1>2 DEF Connect
  <2>2. /\ Waiting(p) \in WaitStates /\ Waiting(p) # "WAIT_AUTH" /\ p \in Requests
        /\ p \notin {"auth", "encrypt"}
    BY NamesApart, ProfileNames DEF Requests
  <2> QED BY <1>1, <1>2, <2>1, <2>2, NearAsks
<1>3. CASE p \in prof[d.addr]
  <2>1. /\ conn' = [d EXCEPT !.state = Connected(p), !.profile = @ \ {p}]
        /\ ask' = ask
    BY <1>3 DEF Connect
  <2>2. Connected(p) \notin {"END", "START", "WAIT_AUTH", "AUTH_FAIL"}
    BY NamesApart
  <2>3. /\ conn'.state = Connected(p) /\ conn'.s_result = d.s_result
        /\ conn'.active = d.active /\ conn'.addr = d.addr /\ conn'.event = d.event
        /\ conn'.result = d.result /\ conn'.count = d.count
    BY <1>1, <2>1 DEF Conns
  <2> QED BY <2>1, <2>2, <2>3 DEF Near, Outcome, Careful, Telling, Renewing
<1> QED BY <1>2, <1>3

\* The parts of the attempt that its steps change before they move on.
LEMMA NearParts ==
    ASSUME NEW c, Near(c, c)
    PROVE  /\ c.state \in Looking => \A l \in {"none", "live"} :
                 /\ Near(c, [c EXCEPT !.link = l])
                 /\ Near(c, Cancelled([c EXCEPT !.link = l]))
                 /\ Near(c, [c EXCEPT !.link = l, !.expired = FALSE])
           /\ Near(c, [c EXCEPT !.expired = FALSE])
           /\ Near(c, [c EXCEPT !.expired = FALSE, !.count = 1])
           /\ \A p \in Profiles : Near(c, [c EXCEPT !.state = Connected(p)])
           /\ \A p \in Profiles, P \in SUBSET Profiles :
                 Near(c, [c EXCEPT !.state = Connected(p), !.profile = P])
<1>1. c \in Conns /\ c.active /\ c.state # "END"
  BY DEF Near
<1>2. ASSUME c.state \in Looking, NEW l \in {"none", "live"}
      PROVE  /\ Near(c, [c EXCEPT !.link = l])
             /\ Near(c, [c EXCEPT !.link = l, !.expired = FALSE])
  <2>1. [c EXCEPT !.link = l] \in Conns /\ [c EXCEPT !.link = l, !.expired = FALSE] \in Conns
    BY <1>1, CountLemma
  <2> QED BY <1>1, <1>2, <2>1 DEF Near, Conns
<1>3. ASSUME c.state \in Looking, NEW l \in {"none", "live"}
      PROVE  Near(c, Cancelled([c EXCEPT !.link = l]))
  <2> DEFINE d == [c EXCEPT !.link = l]
  <2>1. Near(c, d)
    BY <1>2, <1>3
  <2> HIDE DEF d
  <2>2. d \in Conns /\ Cancelled(d) \in Conns
    BY <2>1, CancelledLemma DEF Near
  <2>3. Near(c, Cancelled(d))
    BY <1>3, <2>1, <2>2 DEF Near, Cancelled, Conns
  <2> QED BY <2>3 DEF d
<1>4. Near(c, [c EXCEPT !.expired = FALSE])
  <2>1. [c EXCEPT !.expired = FALSE] \in Conns
    BY <1>1, CountLemma
  <2> QED BY <1>1, <2>1 DEF Near, Conns
<1>5. Near(c, [c EXCEPT !.expired = FALSE, !.count = 1])
  <2>1. [c EXCEPT !.expired = FALSE, !.count = 1] \in Conns
    BY <1>1, CountLemma
  <2> QED BY <1>1, <2>1 DEF Near, Conns
<1>6. ASSUME NEW p \in Profiles, NEW P \in SUBSET Profiles
      PROVE  /\ Near(c, [c EXCEPT !.state = Connected(p)])
             /\ Near(c, [c EXCEPT !.state = Connected(p), !.profile = P])
  <2>1. Connected(p) \in ConnStates /\ Connected(p) # "END"
    BY ProfileNames, NamesApart
  <2>2. /\ [c EXCEPT !.state = Connected(p)] \in Conns
        /\ [c EXCEPT !.state = Connected(p), !.profile = P] \in Conns
    BY <1>1, <2>1, CountLemma
  <2> QED BY <1>1, <2>1, <2>2 DEF Near, Conns
<1>7. {} \in SUBSET Profiles
  OBVIOUS
<1> QED BY <1>2, <1>3, <1>4, <1>5, <1>6, <1>7

\* The link is looked for.
LEMMA StartOutcome ==
    ASSUME NEW c, Near(c, c),
           \/ c.state = "START" /\ Start(c)
           \/ c.state = "WAIT_ACL" /\ WaitAcl(c)
           \/ c.state = "ACL_CONNECTED" /\ AclConnected(c)
    PROVE  Outcome(c)
<1>1. c \in Conns /\ c.active /\ c.state \in Looking
  BY DEF Near, Looking
<1>2. /\ Near(c, [c EXCEPT !.link = "none"])
      /\ Near(c, Cancelled([c EXCEPT !.link = "live"]))
      /\ Near(c, [c EXCEPT !.link = "none", !.expired = FALSE])
      /\ Near(c, [c EXCEPT !.link = "live", !.expired = FALSE])
  BY <1>1, NearParts
<1>3. Cancelled([c EXCEPT !.link = "live"]).state = c.state
  BY <1>1 DEF Cancelled, Conns
<1>4. CASE c.state = "START" /\ Start(c)
  <2>1. CASE /\ conn' = [c EXCEPT !.link = "none", !.cancel = "none", !.expired = FALSE,
                               !.s_result = "CONNECTING", !.state = "WAIT_ACL"]
             /\ ask' = ask
    <3>1. /\ conn'.state = "WAIT_ACL" /\ conn'.s_result = "CONNECTING" /\ conn'.active
          /\ conn'.addr = c.addr /\ conn'.event = c.event /\ conn'.result = c.result
          /\ conn'.count = c.count
      BY <1>1, <2>1 DEF Conns
    <3> QED BY <2>1, <3>1 DEF Outcome, Careful, Telling, Renewing
  <2>2. ASSUME NEW d, d = [c EXCEPT !.link = "none", !.cancel = "none"],
               Fail(d) \/ Stay([d EXCEPT !.count = @ + 1])
        PROVE  Outcome(c)
    <3>1. d \in Conns
      BY <1>1, <2>2, Zenon DEF Conns
    <3>2. Near(c, d)
      BY <1>1, <1>4, <2>2, <3>1 DEF Near, Conns
    <3>3. CASE Stay([d EXCEPT !.count = @ + 1])
      <4>1. /\ conn'.state = "START" /\ conn'.s_result = c.s_result /\ conn'.active
            /\ conn'.addr = c.addr /\ conn'.event = c.event /\ conn'.result = c.result
            /\ ask' = ask
        BY <1>1, <1>4, <2>2, <3>1, <3>3 DEF Stay, Conns
      <4> QED BY <1>4, <4>1 DEF Outcome, Careful, Telling, Renewing
    <3> QED BY <2>2, <3>2, <3>3, NearEnds
  <2>3. CASE Stay(Cancelled([c EXCEPT !.link = "live"]))
    BY <1>2, <1>3, <1>4, <2>3, NearStay
  <2> QED BY <1>4, <2>1, <2>2, <2>3 DEF Start
<1>5. CASE c.state = "WAIT_ACL" /\ WaitAcl(c)
  <2>1. CASE Stay(c)
    BY <1>5, <2>1, NearStay
  <2>2. CASE Fail([c EXCEPT !.link = "none"])
    BY <1>2, <2>2, NearEnds
  <2>3. CASE Stay(Cancelled([c EXCEPT !.link = "live"]))
    BY <1>2, <1>3, <1>5, <2>3, NearStay
  <2> QED BY <1>5, <2>1, <2>2, <2>3 DEF WaitAcl
<1>6. CASE c.state = "ACL_CONNECTED" /\ AclConnected(c)
  <2>1. CASE Fail([c EXCEPT !.link = "none", !.expired = FALSE])
    BY <1>2, <2>1, NearEnds
  <2>2. CASE AskLink([c EXCEPT !.link = "live", !.expired = FALSE], "auth", "WAIT_AUTH")
    <3> DEFINE d == [c EXCEPT !.link = "live", !.expired = FALSE]
    <3>1. d.link = "live" /\ d.state = c.state /\ Near(c, d) /\ AskLink(d, "auth", "WAIT_AUTH")
      BY <1>1, <1>2, <2>2 DEF Conns
    <3> HIDE DEF d
    <3> QED BY <1>6, <3>1, NearAskLink
  <2> QED BY <1>6, <2>1, <2>2 DEF AclConnected
<1> QED BY <1>4, <1>5, <1>6

\* Authentication, encryption and the search for services.
LEMMA LinkOutcome ==
    ASSUME NEW c, Near(c, c),
           \/ c.state = "AUTH_SUCCESS" /\ AuthSuccess(c)
           \/ c.state = "ENCYPTED" /\ Encypted(c)
           \/ c.state # "AUTH_FAIL" /\ (WaitLink(c) \/ WaitDisconnected(c))
           \/ Fail(c) \/ KeyMissing(c) \/ LowResources(c)
           \/ c.state = "AUTH_FAIL" /\ AuthFail(c)
           \/ c.state = "ENCYPT_FAIL" /\ EncyptFail(c)
           \/ SdpFail(c)
    PROVE  Outcome(c)
<1>1. c \in Conns
  BY DEF Near
<1>2. /\ "auth" \notin Profiles /\ "encrypt" \notin Profiles /\ "sdp" \notin Profiles
      /\ "auth" \in Requests /\ "encrypt" \in Requests /\ "sdp" \in Requests
      /\ "WAIT_AUTH" \in WaitStates /\ "WAIT_ENCYPTED" \in WaitStates
      /\ "WAIT_SDP" \in WaitStates
  BY NamesApart DEF Requests, WaitStates
<1>3. CASE c.state = "AUTH_SUCCESS" /\ AuthSuccess(c)
  <2> DEFINE d == [c EXCEPT !.expired = FALSE]
  <2>1. d.state = c.state /\ Near(c, d) /\ AskLink(d, "encrypt", "WAIT_ENCYPTED")
    BY <1>1, <1>3, NearParts DEF AuthSuccess, Conns
  <2> HIDE DEF d
  <2> QED BY <1>3, <2>1, NearAskLink
<1>4. CASE c.state = "ENCYPTED" /\ Encypted(c)
  <2>1. /\ conn'.state = "WAIT_SDP" /\ conn'.s_result = c.s_result
        /\ conn'.active = c.active /\ conn'.addr = c.addr /\ conn'.event = c.event
        /\ conn'.result = c.result /\ conn'.count = 1 /\ ask' = "sdp"
    BY <1>1, <1>4 DEF Encypted, Conns
  <2> QED BY <1>2, <2>1 DEF Near, Outcome, Careful, Telling, Renewing
<1>5. CASE GiveUp(c)
  BY <1>5, NearGivesUp
<1>6. CASE c.state # "AUTH_FAIL" /\ (WaitLink(c) \/ WaitDisconnected(c))
  BY <1>5, <1>6, NearStay, NearEnds DEF WaitLink, WaitDisconnected
<1>7. CASE c.state = "AUTH_FAIL" /\ AuthFail(c)
  BY <1>2, <1>5, <1>7, NearAgain DEF AuthFail, KeyMissing
<1>8. CASE c.state = "ENCYPT_FAIL" /\ EncyptFail(c)
  BY <1>2, <1>5, <1>8, NearAgain DEF EncyptFail
<1>9. CASE SdpFail(c)
  BY <1>2, <1>5, <1>9, NearAgain DEF SdpFail
<1> QED BY <1>3, <1>4, <1>5, <1>6, <1>7, <1>8, <1>9, NearEnds DEF KeyMissing, LowResources

\* A profile that the phone has connected.  The end of an attempt that only wanted
\* HFP leaves s_result as it was.
LEMMA ConnectedOutcome ==
    ASSUME NEW c, Near(c, c), NEW p \in Profiles, c.state \in {Waiting(p), Connected(p)},
           ProfileConnected(c, p)
    PROVE  Outcome(c)
<1> DEFINE d == [c EXCEPT !.state = Connected(p), !.profile = @ \ {p}]
<1>1. c \in Conns /\ c.profile \ {p} \in SUBSET Profiles
  BY DEF Near, Conns
<1>2. Near(c, d) /\ d.state = Connected(p)
  BY <1>1, NearParts DEF Conns
<1>3. d \in Conns /\ d.profile \subseteq Profiles
  BY <1>2 DEF Near, Conns
<1>4. d.state # "AUTH_FAIL"
  BY <1>2, NamesApart
<1>5. \/ Stay(d) \/ Succeed(d)
      \/ "AVRCP" \in d.profile /\ Connect(d, "AVRCP", FALSE)
      \/ "A2DP" \in d.profile /\ Connect(d, "A2DP", FALSE)
      \/ p = "HFP" /\ Stay([d EXCEPT !.state = "END", !.result = "SUCCESS"])
  <2>1. p \in {"HFP", "A2DP", "AVRCP"}
    BY EntityAssumption
  <2>2. CASE p = "HFP" /\ HfpConnected(c)
    BY <2>2 DEF HfpConnected, Connected
  <2>3. CASE p = "A2DP" /\ A2dpConnected(c)
    BY <2>3 DEF A2dpConnected, Connected
  <2>4. CASE p = "AVRCP" /\ AvrcpConnected(c)
    BY <2>4 DEF AvrcpConnected, Connected
  <2> QED BY <2>1, <2>2, <2>3, <2>4 DEF ProfileConnected
<1>6. CASE p = "HFP" /\ Stay([d EXCEPT !.state = "END", !.result = "SUCCESS"])
  <2>1. c.state \in {"WAIT_HFP", "HFP_CONNECTED"}
    BY <1>6 DEF Waiting, Connected
  <2> HIDE DEF d
  <2>2. /\ conn'.state = "END" /\ conn'.result = "SUCCESS" /\ conn'.s_result = d.s_result
        /\ conn'.active = d.active /\ conn'.addr = d.addr /\ conn'.event = d.event
        /\ conn'.count = d.count /\ ask' = ask
    BY <1>3, <1>6 DEF Stay, Conns
  <2> QED BY <1>2, <1>6, <2>1, <2>2 DEF Near, Outcome, Careful, Telling, Renewing
<1> HIDE DEF d
<1> QED BY <1>2, <1>3, <1>4, <1>5, <1>6, NearStay, NearEnds, NearConnects

\* A profile that is connected at last, or failed.
LEMMA ProfileOutcome ==
    ASSUME NEW c, Near(c, c), NEW p \in Profiles,
           \/ c.state = "SDP_FINISHED" /\ SdpFinished(c)
           \/ c.state = Waiting(p) /\ WaitProfile(c, p)
           \/ ProfileFail(c, p)
           \/ p = "AVRCP" /\ AvrcpFail(c)
    PROVE  Outcome(c)
<1>1. c \in Conns /\ c.profile \subseteq Profiles
  BY DEF Near, Conns
<1>2. /\ Waiting(p) \in WaitStates /\ p \in Requests /\ p \notin {"auth", "encrypt"}
      /\ Waiting(p) \notin {"WAIT_AUTH", "AUTH_FAIL"} /\ Connected(p) # "AUTH_FAIL"
  BY ProfileNames, NamesApart DEF Requests
<1>3. CASE c.state = "SDP_FINISHED" /\ SdpFinished(c)
  <2> DEFINE d == [c EXCEPT !.expired = FALSE, !.count = 1]
             x == [d EXCEPT !.profile = @ \ {"HFP"}]
  <2>1. Near(c, d) /\ d.state = c.state
    BY <1>1, NearParts DEF Conns
  <2>2. Near(c, x)
    <3> HIDE DEF d
    <3>1. d \in Conns /\ d.profile \ {"HFP"} \in SUBSET Profiles
      BY <2>1 DEF Near, Conns
    <3>2. x \in Conns
      BY <3>1, CountLemma
    <3> QED BY <2>1, <3>1, <3>2 DEF Near, Conns
  <2>3. \/ "HFP" \in c.profile /\ Connect(d, "HFP", FALSE)
        \/ "A2DP" \in c.profile /\ Connect(x, "A2DP", FALSE)
        \/ Stay(d)
    BY <1>3 DEF SdpFinished
  <2> HIDE DEF d, x
  <2> QED BY <1>1, <1>3, <2>1, <2>2, <2>3, NearConnects, NearStay
<1>4. CASE c.state = Waiting(p) /\ WaitProfile(c, p)
  BY <1>2, <1>4, ConnectedOutcome, LinkOutcome DEF WaitProfile
<1>5. CASE ProfileFail(c, p)
  <2> DEFINE d == [c EXCEPT !.state = Connected(p)]
  <2>1. Near(c, d) /\ d.state = Connected(p)
    BY <1>1, NearParts DEF Conns
  <2>2. \/ Stay(d) \/ GiveUp(c)
        \/ p \notin prof[c.addr] /\ Again(c, p, Waiting(p))
    BY <1>5 DEF ProfileFail
  <2> HIDE DEF d
  <2> QED BY <1>2, <2>1, <2>2, NearStay, NearGivesUp, NearAgain
<1>6. CASE p = "AVRCP" /\ AvrcpFail(c)
  <2> DEFINE d == [c EXCEPT !.state = "A2DP_CONNECTED"]
             x == [c EXCEPT !.expired = FALSE]
  <2>2. Near(c, x)
    BY NearParts
  <2>3. c.expired \in BOOLEAN
    BY <1>1 DEF Conns
  <2>4. \/ Stay(d) \/ GiveUp(c)
        \/ "HFP" \in c.profile /\ Connect(x, "HFP", FALSE)
        \/ "A2DP" \in c.profile /\ Connect(c, "A2DP", c.expired)
        \/ /\ conn' = [c EXCEPT !.state = "WAIT_AVRCP", !.count = @ + 1]
           /\ ask' = "AVRCP" /\ "AVRCP" \notin prof[c.addr]
    BY <1>6 DEF AvrcpFail
  <2>5. CASE Stay(d)
    <3>1. /\ conn'.state = "A2DP_CONNECTED" /\ conn'.s_result = c.s_result
          /\ conn'.active = c.active /\ conn'.addr = c.addr /\ conn'.event = c.event
          /\ conn'.result = c.result /\ conn'.count = c.count /\ ask' = ask
      BY <1>1, <2>5 DEF Stay, Conns
    <3> QED BY <3>1 DEF Near, Outcome, Careful, Telling, Renewing
  <2>6. CASE /\ conn' = [c EXCEPT !.state = "WAIT_AVRCP", !.count = @ + 1]
             /\ ask' = "AVRCP" /\ "AVRCP" \notin prof[c.addr]
    BY <1>2, <1>6, <2>6, NearAsks DEF WaitStates
  <2> HIDE DEF d, x
  <2> QED BY <1>1, <2>2, <2>3, <2>4, <2>5, <2>6, NearGivesUp, NearConnects
<1> QED BY <1>3, <1>4, <1>5, <1>6

LEMMA EndOutcome ==
    ASSUME NEW c \in Conns, c.active, c.state = "END", End(c)
    PROVE  Outcome(c)
<1>1. /\ conn'.state = "END" /\ conn'.s_result = c.s_result /\ conn'.result = c.s_result
      /\ ~conn'.active /\ conn'.addr = c.addr /\ conn'.event = "NULL"
      /\ conn'.link = "none" /\ ask' = "none"
  BY DEF End, Conns
<1>2. "none" \notin Profiles
  BY NamesApart
<1> QED BY <1>1, <1>2 DEF Outcome, Careful, Telling, Renewing

\* A step of the attempt.
LEMMA AttemptOutcome ==
    ASSUME NEW c \in Conns, c.active, Attempt(c)
    PROVE  Outcome(c)
<1>1. \A p \in Profiles : {Waiting(p), Connected(p), Failed(p)} \cap {"END", "AUTH_FAIL"} = {}
  BY NamesApart
<1>2. CASE c.state = "END"
  <2>1. End(c)
    BY <1>1, <1>2 DEF Attempt
  <2> QED BY <1>2, <2>1, EndOutcome
<1>3. CASE c.state # "END"
  <2>1. Near(c, c)
    BY <1>3 DEF Near
  <2>2. CASE \/ c.state = "START" /\ Start(c)
             \/ c.state = "WAIT_ACL" /\ WaitAcl(c)
             \/ c.state = "ACL_CONNECTED" /\ AclConnected(c)
    BY <2>1, <2>2, StartOutcome
  <2>3. CASE \/ c.state = "AUTH_SUCCESS" /\ AuthSuccess(c)
             \/ c.state = "ENCYPTED" /\ Encypted(c)
             \/ c.state \in {"WAIT_AUTH", "WAIT_ENCYPTED", "WAIT_SDP"} /\ WaitLink(c)
             \/ c.state = "WAIT_DISCONNECTED" /\ WaitDisconnected(c)
             \/ c.state = "ACL_FAIL" /\ Fail(c)
             \/ c.state = "KEY_MISSING" /\ KeyMissing(c)
             \/ c.state = "LOW_RESOURCES" /\ LowResources(c)
             \/ c.state = "AUTH_FAIL" /\ AuthFail(c)
             \/ c.state = "ENCYPT_FAIL" /\ EncyptFail(c)
             \/ c.state = "SDP_FAIL" /\ SdpFail(c)
    BY <2>1, <2>3, LinkOutcome
  <2>4. ASSUME NEW p \in Profiles,
               \/ c.state = Waiting(p) /\ WaitProfile(c, p)
               \/ c.state = Connected(p) /\ ProfileConnected(c, p)
               \/ ProfileFail(c, p)
               \/ p = "AVRCP" /\ AvrcpFail(c)
        PROVE  Outcome(c)
    BY <2>1, <2>4, ConnectedOutcome, ProfileOutcome
  <2>5. CASE c.state = "SDP_FINISHED" /\ SdpFinished(c)
    <3>1. CASE Profiles = {}
      <4> DEFINE d == [c EXCEPT !.expired = FALSE, !.count = 1]
      <4>1. Near(c, d) /\ Stay(d) /\ d.state = "SDP_FINISHED"
        BY <2>1, <2>5, <3>1, NearParts DEF SdpFinished, Conns
      <4> HIDE DEF d
      <4> QED BY <4>1, NearStay
    <3>2. CASE Profiles # {}
      BY <2>1, <2>5, <3>2, ProfileOutcome
    <3> QED BY <3>1, <3>2
  <2>6. \/ c.state = "START" /\ Start(c)
        \/ c.state = "WAIT_ACL" /\ WaitAcl(c)
        \/ c.state = "ACL_CONNECTED" /\ AclConnected(c)
        \/ c.state = "AUTH_SUCCESS" /\ AuthSuccess(c)
        \/ c.state = "ENCYPTED" /\ Encypted(c)
        \/ c.state \in {"WAIT_AUTH", "WAIT_ENCYPTED", "WAIT_SDP"} /\ WaitLink(c)
        \/ c.state = "SDP_FINISHED" /\ SdpFinished(c)
        \/ \E p \in Profiles :
             \/ c.state = Waiting(p) /\ WaitProfile(c, p)
             \/ c.state = Connected(p) /\ ProfileConnected(c, p)
             \/ ProfileFail(c, p) \/ (p = "AVRCP" /\ AvrcpFail(c))
        \/ c.state = "WAIT_DISCONNECTED" /\ WaitDisconnected(c)
        \/ c.state = "ACL_FAIL" /\ Fail(c)
        \/ c.state = "KEY_MISSING" /\ KeyMissing(c)
        \/ c.state = "LOW_RESOURCES" /\ LowResources(c)
        \/ c.state = "AUTH_FAIL" /\ AuthFail(c)
        \/ c.state = "ENCYPT_FAIL" /\ EncyptFail(c)
        \/ c.state = "SDP_FAIL" /\ SdpFail(c)
    BY <1>3 DEF Attempt
  <2> QED BY <2>2, <2>3, <2>4, <2>5, <2>6
<1> QED BY <1>2, <1>3

\* A step of the attempt: it may ask for the end of its link, or page its phone.
LEMMA AttemptEffect ==
    ASSUME NEW c, Attempt(c)
    PROVE  \/ link' = link /\ (ent' = ent \/ DisconnectToReconnect(c.addr))
           \/ /\ ent' = ent /\ link[c.addr] = "none"
              /\ link' = [link EXCEPT ![c.addr] = "paging"]
<1> DEFINE Effect == \/ link' = link /\ (ent' = ent \/ DisconnectToReconnect(c.addr))
                     \/ /\ ent' = ent /\ link[c.addr] = "none"
                        /\ link' = [link EXCEPT ![c.addr] = "paging"]
<1>1. /\ \A d : Stay(d) \/ Fail(d) \/ Succeed(d) => Effect
      /\ \A d : GiveUp(d) /\ d.addr = c.addr => Effect
      /\ \A d, r, w : AskLink(d, r, w) \/ Again(d, r, w) => Effect
      /\ \A d, p, e : Connect(d, p, e) => Effect
  BY DEF Stay, Fail, Succeed, GiveUp, AskLink, Again, Connect
<1>2. Start(c) => Effect
  BY <1>1 DEF Start
<1> HIDE DEF Effect
<1>3. WaitAcl(c) \/ AclConnected(c) \/ AuthSuccess(c) \/ WaitLink(c) \/ SdpFinished(c) => Effect
  BY <1>1 DEF WaitAcl, AclConnected, AuthSuccess, WaitLink, SdpFinished
<1>4. Encypted(c) \/ End(c) => Effect
  BY DEF Encypted, End, Effect
<1>5. ASSUME NEW p, ProfileConnected(c, p), p \in Profiles PROVE Effect
  <2>1. HfpConnected(c) \/ A2dpConnected(c) \/ AvrcpConnected(c) => Effect
    BY <1>1 DEF HfpConnected, A2dpConnected, AvrcpConnected
  <2> QED BY <1>5, <2>1, EntityAssumption DEF ProfileConnected
<1>6. WaitDisconnected(c) \/ KeyMissing(c) \/ LowResources(c) \/ AuthFail(c)
          \/ EncyptFail(c) \/ SdpFail(c) => Effect
  BY <1>1 DEF WaitDisconnected, KeyMissing, LowResources, AuthFail, EncyptFail, SdpFail
<1>7. ASSUME NEW p, ProfileFail(c, p) PROVE Effect
  BY <1>1, <1>7 DEF ProfileFail
<1>8. AvrcpFail(c) => Effect
  <2>1. UNCHANGED <<link, closing, ent, auth>> => Effect
    BY DEF Effect
  <2> QED BY <1>1, <2>1 DEF AvrcpFail
<1>9. Effect
  BY <1>1, <1>2, <1>3, <1>4, <1>5, <1>6, <1>7, <1>8 DEF Attempt, WaitProfile
<1> QED BY <1>9 DEF Effect

\* Where the last event leads.
LEMMA EventLeads ==
    ASSUME NEW event, NEW state, NEW s, s = EventToState(event, state)
    PROVE  /\ s \in {"END", "START", "WAIT_AUTH"} => s = state
           /\ s \in AuthAnswers => s = state \/ (event = s /\ state = "WAIT_AUTH")
           /\ s = "ENCYPT_FAIL" => state \in {s, "WAIT_ENCYPTED"}
           /\ state \in {"START", "KEY_MISSING", "LOW_RESOURCES", "WAIT_DISCONNECTED", "END"}
                 => s \in {state, "ACL_FAIL"}
           /\ s \in {"KEY_MISSING", "LOW_RESOURCES", "WAIT_DISCONNECTED"} => s = state
           /\ s \in {"HFP_CONNECTED", "WAIT_HFP"} => state \in {"HFP_CONNECTED", "WAIT_HFP"}
<1>1. s \in {state, "ACL_FAIL"} \/ <<event, state, s>> \in Expected
  <2>1. CASE \E x \in Expected : x[1] = event /\ x[2] = state
    <3> DEFINE y == CHOOSE x \in Expected : x[1] = event /\ x[2] = state
    <3>1. y \in Expected /\ y[1] = event /\ y[2] = state
      BY <2>1
    <3>2. \A x \in Expected : x = <<x[1], x[2], x[3]>>
      BY DEF Expected
    <3>3. s \in {"ACL_FAIL", y[3]}
      BY <2>1 DEF EventToState
    <3> HIDE DEF y
    <3> QED BY <3>1, <3>2, <3>3
  <2>2. CASE ~ \E x \in Expected : x[1] = event /\ x[2] = state
    BY <2>2 DEF EventToState
  <2> QED BY <2>1, <2>2
<1>2. CASE <<event, state, s>> \in Expected
  <2>1. CASE \E p \in Profiles : /\ state = Waiting(p) /\ s \in {Connected(p), Failed(p)}
    BY <2>1, EntityAssumption DEF Waiting, Connected, Failed, AuthAnswers
  <2>2. CASE <<event, state, s>> \in
                {<<"ACL_CONNECTED", "WAIT_ACL", "ACL_CONNECTED">>,
                 <<"AUTH_SUCCESS", "WAIT_AUTH", "AUTH_SUCCESS">>,
                 <<"AUTH_FAIL", "WAIT_AUTH", "AUTH_FAIL">>,
                 <<"ENCYPTED", "WAIT_ENCYPTED", "ENCYPTED">>,
                 <<"ENCYPT_FAIL", "WAIT_ENCYPTED", "ENCYPT_FAIL">>,
                 <<"SDP_FINISHED", "WAIT_SDP", "SDP_FINISHED">>,
                 <<"SDP_FAIL", "WAIT_SDP", "SDP_FAIL">>}
    BY <2>2 DEF AuthAnswers
  <2> QED BY <1>2, <2>1, <2>2 DEF Expected
<1>3. CASE s \in {state, "ACL_FAIL"}
  BY <1>3 DEF AuthAnswers
<1> QED BY <1>1, <1>2, <1>3

\* A pass of the scheduler: the attempt once its last event was looked at, and its step.
LEMMA PassOutcome ==
    ASSUME IInv, conn.active, bt_connect_scheduler
    PROVE  \E c \in Conns :
              /\ c = [conn EXCEPT !.state = EventToState(conn.event, conn.state)]
              /\ c.state = EventToState(conn.event, conn.state)
              /\ c.active /\ c.addr = conn.addr /\ c.event = conn.event
              /\ c.link = conn.link /\ c.count = conn.count
              /\ c.result = conn.result /\ c.s_result = conn.s_result
              /\ Attempt(c) /\ Outcome(c)
<1> DEFINE s == EventToState(conn.event, conn.state)
           c == [conn EXCEPT !.state = s]
<1>1. conn \in Conns /\ conn.event \in ConnEvents /\ conn.state \in ConnStates
  BY TypeParts DEF RestTyped, Conns
<1>2. s \in ConnStates /\ Attempt(c)
  BY <1>1, EventToStateLemma DEF bt_connect_scheduler
<1> HIDE DEF s
<1>3. c \in Conns
  BY <1>1, <1>2, CountLemma
<1>4. /\ c.state = s /\ c.active /\ c.addr = conn.addr /\ c.event = conn.event
      /\ c.link = conn.link /\ c.count = conn.count
      /\ c.result = conn.result /\ c.s_result = conn.s_result
  BY <1>1 DEF Conns
<1> HIDE DEF c
<1>5. Outcome(c)
  BY <1>2, <1>3, <1>4, AttemptOutcome
<1> QED BY <1>2, <1>3, <1>4, <1>5 DEF c, s

-----------------------------------------------------------------------------
(* The link of the attempt.  An answer about authentication comes over a   *)
(* link that is up, and while authentication is asked for or answered the  *)
(* attempt knows its link: what was found in CONN_ACL_CONNECTED is there   *)
(* until the link is lost, and the loss takes the question and the answer  *)
(* with it.                                                                *)

Live ==
    /\ conn.active /\ conn.event \in AuthAnswers => Up(conn.addr)
    /\ conn.active /\ conn.state = "WAIT_AUTH" /\ (ask = "auth" \/ conn.event \in AuthAnswers)
          => conn.link = "live"
    /\ conn.state # "AUTH_FAIL"

\* The request that LinkIsLive is about.
Careless ==
    ask' # ask /\ (ask' = "auth" \/ (ask' = "encrypt" /\ conn.state = "WAIT_AUTH"))

\* Nothing happens to the attempt that matters here.
LEMMA LiveSame ==
    ASSUME Live, ask' \in {ask, "none"}, conn'.event \in {conn.event, "NULL"},
           conn'.state \in {conn.state, "START"},
           conn'.active = conn.active \/ conn'.event = "NULL",
           conn'.state = "START" \/ conn'.active = conn.active,
           conn'.addr = conn.addr \/ conn'.event = "NULL",
           conn'.link = conn.link,
           conn'.event # "NULL" /\ Up(conn.addr) => Up(conn.addr)'
    PROVE  Live'
BY DEF Live, AuthAnswers

LEMMA LiveManage ==
    ASSUME IInv, Live, NEW i \in Ids, bt_app_management_sched(i)
    PROVE  Live' /\ ask' = ask
<1>1. link' = link /\ ask' = ask
  BY DEF bt_app_management_sched, unused_procedure, scanning_procedure, standby_procedure,
     working_procedure, sniff_mode_procedure, connecting_procedure, hostVars, connVars
<1>2. conn' = conn \/ conn' = Request(conn, ent[i].addr)
  BY DEF bt_app_management_sched, unused_procedure, scanning_procedure, standby_procedure,
     working_procedure, sniff_mode_procedure, connecting_procedure, hostVars, connVars,
     Reconnect
<1>3. conn \in Conns
  BY TypeParts DEF RestTyped
<1>4. CASE conn' = conn
  BY <1>1, <1>4, LiveSame DEF Up
<1>5. CASE conn' = [conn EXCEPT !.result = "FALSE"]
  <2>1. /\ conn'.active = conn.active /\ conn'.addr = conn.addr /\ conn'.event = conn.event
        /\ conn'.state = conn.state /\ conn'.link = conn.link
    BY <1>3, <1>5 DEF Conns
  <2> QED BY <1>1, <2>1, LiveSame DEF Up
<1>6. CASE conn' = [conn EXCEPT !.active = TRUE, !.addr = ent[i].addr,
                         !.result = "CONNECTING", !.state = "START", !.event = "NULL"]
  <2>1. conn'.event = "NULL" /\ conn'.state = "START"
    BY <1>3, <1>6 DEF Conns
  <2> QED BY <1>1, <2>1 DEF Live, AuthAnswers
<1> QED BY <1>1, <1>2, <1>4, <1>5, <1>6 DEF Request

\* A step of the attempt.
LEMMA LiveSchedule ==
    ASSUME IInv, Live, bt_connect_scheduler
    PROVE  Live' /\ (Careless => conn'.link = "live")
<1>1. CASE ~conn.active
  <2>1. conn' = conn /\ ask' = ask /\ link' = link
    BY <1>1 DEF bt_connect_scheduler
  <2> QED BY <2>1, LiveSame DEF Careless, Up
<1>2. CASE conn.active
  <2>1. PICK c \in Conns :
              /\ c.state = EventToState(conn.event, conn.state)
              /\ c.active /\ c.addr = conn.addr /\ c.event = conn.event
              /\ c.link = conn.link /\ Attempt(c) /\ Outcome(c)
    BY <1>2, PassOutcome
  <2>2. Up(conn.addr) => Up(conn.addr)'
    <3>1. LinkTyped /\ conn'.addr = conn.addr
      BY <2>1, TypeParts DEF RestTyped, Outcome
    <3>2. link' = link \/ (link[conn.addr] = "none"
                              /\ link' = [link EXCEPT ![conn.addr] = "paging"])
      BY <2>1, AttemptEffect
    <3> QED BY <3>1, <3>2 DEF Up, LinkTyped
  <2>3. /\ c.state = "WAIT_AUTH" => conn.state = "WAIT_AUTH"
        /\ c.state \in AuthAnswers =>
              c.state = conn.state \/ (conn.event = c.state /\ conn.state = "WAIT_AUTH")
        /\ c.state = "ENCYPT_FAIL" => conn.state # "WAIT_AUTH"
    BY <2>1, EventLeads
  <2>4. c.state = "AUTH_FAIL" => conn.link = "live"
    BY <1>2, <2>3 DEF Live, AuthAnswers
  <2>5. conn'.addr = conn.addr /\ conn'.event \in {conn.event, "NULL"} /\ Careful(c)
    BY <2>1 DEF Outcome
  <2>6. /\ conn'.active /\ conn'.event \in AuthAnswers => Up(conn.addr)'
        /\ conn'.state # "AUTH_FAIL"
    BY <1>2, <2>2, <2>5 DEF Live, AuthAnswers, Careful
  <2>7. ASSUME conn'.state = "WAIT_AUTH", ask' = "auth" \/ conn'.event \in AuthAnswers
        PROVE  conn'.link = "live"
    BY <1>2, <2>1, <2>3, <2>4, <2>5, <2>7 DEF Live, AuthAnswers, Careful
  <2>8. ASSUME Careless PROVE conn'.link = "live"
    <3>1. CASE ask' = "auth"
      BY <2>5, <2>7, <2>8, <3>1 DEF Careful, Careless
    <3>2. CASE ask' = "encrypt" /\ conn.state = "WAIT_AUTH"
      BY <1>2, <2>1, <2>3, <2>5, <2>8, <3>2 DEF Careful, Careless, Live, AuthAnswers
    <3> QED BY <2>8, <3>1, <3>2 DEF Careless
  <2> QED BY <2>5, <2>6, <2>7, <2>8 DEF Live
<1> QED BY <1>1, <1>2

\* An event that says nothing about authentication.
LEMMA LiveEvent ==
    ASSUME IInv, Live, NEW a, NEW e, e \notin AuthAnswers, conn' = SetConnEvent(conn, a, e),
           link' = link, ask' \in {ask, "none"}
    PROVE  Live'
<1>1. conn \in Conns
  BY TypeParts DEF RestTyped
<1>2. /\ conn'.active = conn.active /\ conn'.addr = conn.addr
      /\ conn'.link = conn.link /\ conn'.state = conn.state
      /\ conn'.event \in {conn.event, e}
  BY <1>1 DEF SetConnEvent, Conns
<1>3. Up(conn.addr)' <=> Up(conn.addr)
  BY <1>2 DEF Up
<1> QED BY <1>2, <1>3 DEF Live

\* A link comes and goes.
LEMMA LiveLinks ==
    ASSUME IInv, Live, NEW a \in Phones,
           \/ LinkMade(a) \/ LinkFailed(a)
           \/ \E reason \in Reasons : LinkLost(a, reason)
    PROVE  Live' /\ ask' \in {ask, "none"}
<1>1. conn \in Conns /\ link \in [Phones -> {"none", "paging", "incoming", "up"}]
  BY TypeParts DEF RestTyped, LinkTyped
<1>2. /\ conn'.active = conn.active /\ conn'.addr = conn.addr
      /\ conn'.state = conn.state
      /\ a # conn.addr => conn' = conn /\ ask' = ask
      /\ ask' \in {ask, "none"}
  BY <1>1 DEF LinkMade, LinkFailed, LinkLost, SetConnEvent, WithoutLink, Conns
<1>3. /\ link' \in [Phones -> {"none", "paging", "incoming", "up"}]
      /\ \A b \in Phones \ {a} : link'[b] = link[b]
  BY <1>1 DEF LinkMade, LinkFailed, LinkLost
<1>4. CASE a # conn.addr
  <2>1. Up(conn.addr)' <=> Up(conn.addr)
    BY <1>2, <1>3, <1>4 DEF Up
  <2> QED BY <1>2, <1>4, <2>1 DEF Live
<1>5. CASE a = conn.addr /\ LinkMade(a)
  <2>1. Up(conn.addr)' /\ ask' = ask /\ conn'.link = conn.link
    BY <1>1, <1>2, <1>5 DEF LinkMade, Up, SetConnEvent, Conns
  <2>2. conn'.event = conn.event \/ conn'.event = "ACL_CONNECTED"
    BY <1>1, <1>5 DEF LinkMade, SetConnEvent, Conns
  <2> QED BY <1>2, <2>1, <2>2 DEF Live, AuthAnswers
<1>6. CASE a = conn.addr /\ LinkFailed(a)
  <2>1. ~Up(conn.addr) /\ ask' = "none"
    BY <1>1, <1>6 DEF LinkFailed, Up
  <2>2. conn'.event \in {conn.event, "ACL_FAIL"}
    BY <1>1, <1>6 DEF LinkFailed, Conns
  <2> QED BY <1>2, <2>1, <2>2 DEF Live, AuthAnswers
<1>7. CASE a = conn.addr /\ \E reason \in Reasons : LinkLost(a, reason)
  <2>1. conn'.event = "NULL" /\ ask' = "none"
    BY <1>1, <1>7 DEF LinkLost, WithoutLink, Conns
  <2> QED BY <1>2, <2>1 DEF Live, AuthAnswers
<1> QED BY <1>2, <1>4, <1>5, <1>6, <1>7

LEMMA LiveAnswer ==
    ASSUME IInv, Live, HostAnswers(Succeeds \/ Fails \/ Refuses("missing", "KEY_MISSING")
                                      \/ Refuses("resources", "LOW_RESOURCES"))
    PROVE  Live' /\ ask' = "none"
<1>1. conn \in Conns /\ ask' = "none" /\ Up(conn.addr)
  BY TypeParts DEF HostAnswers, RestTyped
<1>2. /\ \A p \in Profiles : Connected(p) \notin AuthAnswers /\ Disconnected(p) \notin AuthAnswers
      /\ \A e \in {"ENCYPTED", "ENCYPT_FAIL", "SDP_FAIL", "SDP_FINISHED"} : e \notin AuthAnswers
  BY EntityAssumption DEF Connected, Disconnected, AuthAnswers
<1>3. ASSUME NEW e \in AuthAnswers, ask = "auth", conn' = SetConnEvent(conn, conn.addr, e),
             link' = link
      PROVE  Live'
  <2>1. /\ conn'.active = conn.active /\ conn'.addr = conn.addr
        /\ conn'.link = conn.link /\ conn'.state = conn.state
    BY <1>1, <1>3 DEF SetConnEvent, Conns
  <2>2. Up(conn.addr)'
    BY <1>1, <1>3, <2>1 DEF Up
  <2> QED BY <1>1, <1>3, <2>1, <2>2 DEF Live
<1>4. ASSUME NEW P, link' = link,
             conn' = [conn EXCEPT !.event = "SDP_FINISHED", !.profile = @ \cup P]
      PROVE  Live'
  <2>1. conn'.state = conn.state /\ conn'.event = "SDP_FINISHED"
    BY <1>1, <1>4 DEF Conns
  <2> QED BY <1>1, <2>1 DEF Live, AuthAnswers
<1>5. ASSUME NEW s \in {"KEY_MISSING", "LOW_RESOURCES"}, link' = link,
             conn' = SetConnState(conn, conn.addr, s)
      PROVE  Live'
  <2>1. /\ conn'.active = conn.active /\ conn'.addr = conn.addr
        /\ conn'.link = conn.link /\ conn'.event = conn.event
        /\ conn'.state = s \/ (conn'.state = conn.state /\ ~conn'.active)
    BY <1>1, <1>5 DEF SetConnState, Conns
  <2>2. Up(conn.addr)'
    BY <1>1, <1>5, <2>1 DEF Up
  <2> QED BY <1>1, <2>1, <2>2 DEF Live
<1>6. ASSUME NEW p \in Profiles, ProfileUp(conn.addr, p) \/ ProfileDown(conn.addr, p)
      PROVE  Live'
  <2>1. \E e \in {Connected(p), Disconnected(p)} :
            conn' = SetConnEvent(conn, conn.addr, e) /\ link' = link
    BY <1>6 DEF ProfileUp, ProfileDown
  <2> QED BY <1>1, <1>2, <2>1, LiveEvent
<1>7. ASSUME NEW e \in {"ENCYPTED", "ENCYPT_FAIL", "SDP_FAIL"}, Answer(e)
      PROVE  Live'
  BY <1>1, <1>2, <1>7, LiveEvent DEF Answer, hostVars
<1>8. ASSUME NEW e \in AuthAnswers, ask = "auth", Answer(e) PROVE Live'
  BY <1>3, <1>8 DEF Answer, hostVars
<1>9. CASE Succeeds
  BY <1>1, <1>4, <1>6, <1>7, <1>8, <1>9 DEF Succeeds, hostVars, AuthAnswers
<1>10. CASE Fails
  BY <1>1, <1>6, <1>7, <1>8, <1>10 DEF Fails, AuthAnswers
<1>11. CASE Refuses("missing", "KEY_MISSING") \/ Refuses("resources", "LOW_RESOURCES")
  BY <1>1, <1>5, <1>11 DEF Refuses, hostVars
<1> QED BY <1>1, <1>9, <1>10, <1>11 DEF HostAnswers

LEMMA LiveHost ==
    ASSUME IInv, Live, Host
    PROVE  Live' /\ ask' \in {ask, "none"}
<1>1. conn \in Conns /\ link \in [Phones -> {"none", "paging", "incoming", "up"}]
  BY TypeParts DEF RestTyped, LinkTyped
<1> DEFINE Kept1 == Live' /\ ask' \in {ask, "none"}
<1>2. ASSUME NEW a \in Phones,
             \/ LinkMade(a) \/ LinkFailed(a)
             \/ \E reason \in Reasons : LinkLost(a, reason)
      PROVE  Kept1
  BY <1>2, LiveLinks
<1>3. CASE \/ HostAnswers(Succeeds \/ Fails)
           \/ HostAnswers(Refuses("missing", "KEY_MISSING")
                             \/ Refuses("resources", "LOW_RESOURCES"))
  <2>1. HostAnswers(Succeeds \/ Fails \/ Refuses("missing", "KEY_MISSING")
                       \/ Refuses("resources", "LOW_RESOURCES"))
    BY <1>3 DEF HostAnswers
  <2> QED BY <2>1, LiveAnswer
<1>4. ASSUME link' = link, ask' = ask, conn'.active = conn.active, conn'.addr = conn.addr,
             conn'.link = conn.link, conn'.state = conn.state, conn'.event = conn.event
      PROVE  Kept1
  <2>1. Up(conn.addr)' <=> Up(conn.addr)
    BY <1>4 DEF Up
  <2> QED BY <1>4, <2>1 DEF Live
<1>5. CASE CancelAnswered \/ Expire
  <2>1. \/ conn' = [conn EXCEPT !.cancel = "answered"]
        \/ conn' = [conn EXCEPT !.expired = TRUE]
    BY <1>5 DEF CancelAnswered, Expire
  <2>2. link' = link /\ ask' = ask
    BY <1>5 DEF CancelAnswered, Expire, hostVars
  <2>3. /\ conn'.active = conn.active /\ conn'.addr = conn.addr
        /\ conn'.link = conn.link /\ conn'.state = conn.state
        /\ conn'.event = conn.event
    BY <1>1, <2>1 DEF Conns
  <2> QED BY <1>4, <2>2, <2>3
<1>6. CASE LateConnected \/ RetryExpires \/ MatchButton
  BY <1>4, <1>6 DEF LateConnected, RetryExpires, MatchButton, hostVars, connVars
<1>7. ASSUME NEW a \in Phones, Call(a)
      PROVE  Kept1
  <2>1. link[a] = "none" /\ link' = [link EXCEPT ![a] = "incoming"] /\ conn' = conn /\ ask' = ask
    BY <1>7 DEF Call, connVars
  <2>2. Up(conn.addr)' <=> Up(conn.addr)
    BY <1>1, <2>1 DEF Up
  <2> QED BY <2>1, <2>2 DEF Live
<1>8. ASSUME NEW a \in Phones, PhoneEncrypts(a)
      PROVE  Kept1
  BY <1>8, LiveEvent DEF PhoneEncrypts, hostVars, AuthAnswers
<1>9. ASSUME NEW a \in Phones, NEW p \in Profiles,
             PhoneConnects(a, p) \/ PhoneDisconnects(a, p)
      PROVE  Kept1
  <2>1. Connected(p) \notin AuthAnswers /\ Disconnected(p) \notin AuthAnswers
    BY EntityAssumption DEF Connected, Disconnected, AuthAnswers
  <2>2. /\ \E e \in {Connected(p), Disconnected(p)} : conn' = SetConnEvent(conn, a, e)
        /\ link' = link /\ ask' \in {ask, "none"}
    BY <1>9 DEF PhoneConnects, PhoneDisconnects, ProfileUp, ProfileDown
  <2> QED BY <2>1, <2>2, LiveEvent
<1>10. ASSUME NEW a \in Phones, NEW on \in BOOLEAN, Play(a, on)
       PROVE  Kept1
  BY <1>4, <1>10 DEF Play, hostVars, connVars
<1>11. CASE Awaited
  BY <1>2, <1>3, <1>5, <1>6, <1>11 DEF Awaited, Reasons
<1>12. CASE Surprise
  <2>1. LossReasons \subseteq Reasons
    BY ManageAssumption DEF Reasons
  <2> QED BY <1>2, <1>3, <1>6, <1>7, <1>8, <1>9, <1>10, <1>12, <2>1 DEF Surprise
<1> QED BY <1>11, <1>12 DEF Host

LEMMA LiveStep ==
    IInv /\ Live /\ [Next]_vars =>
        Live' /\ [Careless => conn'.link = "live"]_vars
<1> SUFFICES ASSUME IInv, Live, [Next]_vars
             PROVE  Live' /\ (vars' # vars => (Careless => conn'.link = "live"))
  OBVIOUS
<1>1. CASE Manage
  BY <1>1, IdsLemma, LiveManage DEF Manage, Careless
<1>2. CASE Schedule
  BY <1>2, LiveSchedule DEF Schedule
<1>3. CASE Host
  BY <1>3, LiveHost DEF Careless
<1>4. CASE UNCHANGED vars
  BY <1>4 DEF vars, hostVars, connVars, Live, Up
<1> QED BY <1>1, <1>2, <1>3, <1>4 DEF Next, Loop

\* Authentication is never asked for over a link that is gone, nor encryption when it is
\* asked for the first time, whatever the host refuses (hci_acl_send_auth_req with
\* g_conn_st.link in bt_connect_scheduler).
THEOREM RequestsFindTheirLink == Spec => LinkIsLive
<1>1. Init => Live
  <2> SUFFICES ASSUME Init PROVE Live
    OBVIOUS
  <2>1. ~conn.active /\ conn.state = "START"
    BY DEF Init, ConnInit
  <2> QED BY <2>1 DEF Live
<1>2. IInv /\ Live /\ [Next]_vars => Live' /\ [Careless => conn'.link = "live"]_vars
  BY LiveStep
<1>3. LinkIsLive <=> [][Careless => conn'.link = "live"]_vars
  BY DEF LinkIsLive, Careless
<1> QED BY <1>1, <1>2, <1>3, InductiveInvariant, PTL DEF Spec

-----------------------------------------------------------------------------
(* The entities of the phones that are linked.  A phone that has no entity *)
(* takes one that is not in use or, if there is none, the last: only there *)
(* does a phone lose its entity to another one, and it is remembered.      *)

Linked == {a \in Phones : link[a] = "up"}

\* The linked phones whose entity was not given to another one.
Minded == Linked \ evicted

\* E has an entity for every phone of U.
Kept(E, U) ==
    /\ \A i \in Ags : E[i].used => E[i].addr \in Phones
    /\ \A i \in Ags : Waits(E[i]) => E[i].used
    /\ \A i, j \in Ags : E[i].addr = E[j].addr /\ E[i].addr # NoPhone => i = j
    /\ \A a \in U : \E i \in Ags : E[i].addr = a /\ E[i].used /\ E[i].handle

\* An entity keeps its phone, and the link if that is one of U; it does not begin to wait.
SafeAt(d, e, U) ==
    /\ e.addr = d.addr
    /\ e.state = "CONNECTING" => d.state = "CONNECTING"
    /\ e.used => d.used \/ d.addr \in Phones
    /\ Waits(e) => Waits(d) /\ (d.used => e.used)
    /\ d.used /\ d.handle /\ d.addr \in U => e.used /\ e.handle

Safe(E, F, U) == \A i \in Ids : SafeAt(E[i], F[i], U)

\* Most steps change nothing of this.
Same(E, F) ==
    \A i \in Ids : /\ F[i].used = E[i].used /\ F[i].handle = E[i].handle
                   /\ F[i].addr = E[i].addr /\ (Waits(F[i]) => Waits(E[i]))
                   /\ F[i].state = "CONNECTING" => E[i].state = "CONNECTING"

LEMMA SafeLemma ==
    ASSUME NEW E, NEW F, NEW G, NEW U
    PROVE  /\ Same(E, F) => Safe(E, F, U)
           /\ Same(E, F) /\ Same(F, G) => Same(E, G)
           /\ Safe(E, F, U) /\ Safe(F, G, U) => Safe(E, G, U)
           /\ Same(E, E)
BY DEF Same, Safe, SafeAt

LEMMA KeptLemma ==
    ASSUME NEW E \in Containers, NEW F \in Containers, NEW U, NEW W,
           NEW V \in SUBSET (U \cap W), Kept(E, U), Safe(E, F, W)
    PROVE  Kept(F, V)
<1>1. \A i \in Ags : i \in Ids /\ SafeAt(E[i], F[i], W)
  BY IdsLemma DEF Safe
<1>2. \A i \in Ags : E[i].used \in BOOLEAN /\ F[i].used \in BOOLEAN
                     /\ E[i].handle \in BOOLEAN /\ F[i].handle \in BOOLEAN
  BY IdsLemma DEF Containers, Entities
<1>3. \A i \in Ags : (F[i].used => F[i].addr \in Phones) /\ (Waits(F[i]) => F[i].used)
  BY <1>1 DEF SafeAt, Kept
<1>4. \A i, j \in Ags : F[i].addr = F[j].addr /\ F[i].addr # NoPhone => i = j
  BY <1>1 DEF SafeAt, Kept
<1>5. \A a \in V : \E i \in Ags : F[i].addr = a /\ F[i].used /\ F[i].handle
  BY <1>1 DEF SafeAt, Kept
<1> QED BY <1>3, <1>4, <1>5 DEF Kept

\* A link is bound to the entity of its phone (bt_app_entity_bind), and every phone that
\* does not lose its entity to this one keeps it.
LEMMA BindKeeps ==
    ASSUME NEW E \in Containers, NEW U, Kept(E, U), NEW a \in Phones,
           NEW V \in SUBSET (U \cup {a}),
           \A b \in V \ {a} : \A i \in Ags :
               E[i].used /\ E[i].addr = b => Bind(E, a)[i].addr = b
    PROVE  /\ Kept(Bind(E, a), V)
           /\ \E i \in Ags : Bind(E, a)[i].addr = a
           /\ \A i \in Ags : /\ Waits(Bind(E, a)[i]) => Waits(E[i])
                             /\ Bind(E, a)[i].state = E[i].state
<1> DEFINE k == IF Find(E, a) # NoId THEN Find(E, a) ELSE Alloc(E)
           F == Attach(E, k, TRUE, a, "zero")
<1>1. k \in Ags /\ k \in Ids
  BY FindLemma, IdsLemma, EntityAssumption DEF Alloc, Ags
<1>2. \A i \in Ags : E[i].addr = a => i = k
  <2> SUFFICES ASSUME NEW i \in Ags, E[i].addr = a PROVE i = k
    OBVIOUS
  <2>1. \E j \in Ags : E[j].addr = a /\ \A l \in Ags : E[l].addr = a => j <= l
    BY EntityAssumption DEF Ags
  <2>2. Find(E, a) \in Ags /\ Find(E, a) # NoId
    BY <2>1, IdsLemma DEF Find
  <2>3. E[k].addr = a
    BY <2>2, FindLemma
  <2>4. a # NoPhone
    BY EntityAssumption
  <2> QED BY <1>1, <2>3, <2>4 DEF Kept
<1>3. Bind(E, a) = F
  BY DEF Bind
<1> HIDE DEF k
<1>4. /\ F[k].used /\ F[k].handle /\ F[k].addr = a /\ F[k].flags = E[k].flags
      /\ F[k].state = E[k].state
      /\ \A i \in Ids \ {k} : F[i] = E[i]
  BY <1>1 DEF Attach, Containers, Entities
<1> HIDE DEF F
<1>5. \A i \in Ags : i \in Ids /\ E[i].used \in BOOLEAN
  BY IdsLemma DEF Containers, Entities
<1>6. \A i \in Ags : (Waits(F[i]) => Waits(E[i])) /\ F[i].state = E[i].state
  BY <1>4, <1>5 DEF Waits
<1>7. \A i \in Ags : (F[i].used => F[i].addr \in Phones) /\ (Waits(F[i]) => F[i].used)
  BY <1>4, <1>5 DEF Kept, Waits
<1>8. \A i, j \in Ags : F[i].addr = F[j].addr /\ F[i].addr # NoPhone => i = j
  BY <1>2, <1>4, <1>5 DEF Kept
<1>9. \A b \in V : \E i \in Ags : F[i].addr = b /\ F[i].used /\ F[i].handle
  <2> SUFFICES ASSUME NEW b \in V
               PROVE  \E i \in Ags : F[i].addr = b /\ F[i].used /\ F[i].handle
    OBVIOUS
  <2>1. CASE b = a
    BY <1>1, <1>4, <2>1
  <2>2. CASE b # a
    <3>1. PICK i \in Ags : E[i].addr = b /\ E[i].used /\ E[i].handle
      BY <2>2 DEF Kept
    <3>2. F[i].addr = b
      BY <1>3, <2>2, <3>1
    <3>3. i # k
      BY <1>4, <2>2, <3>2
    <3> QED BY <1>4, <1>5, <3>1, <3>3
  <2> QED BY <2>1, <2>2
<1> QED BY <1>1, <1>3, <1>4, <1>6, <1>7, <1>8, <1>9 DEF Kept

\* The operations that leave the phones and the links of the entities alone.
LEMMA SameOperations ==
    ASSUME NEW E \in Containers, NEW a
    PROVE  /\ \A event : Same(E, SetEvent(E, a, event))
           /\ \A F \in SUBSET Profiles : Same(E, SetFlags(E, a, F))
           /\ \A F : Same(E, ClearFlags(E, a, F))
           /\ \A work : Same(E, SetWork(E, a, work))
           /\ \A F : Same(E, ClearAll(E, F))
           /\ Same(E, ConnectedWrap(E, a))
           /\ \A P : \A F \in EndOfStream(E, a, P) : Same(E, F)
<1>1. \A i \in Ids : E[i] \in Entities
  BY DEF Containers
<1>2. ASSUME NEW event PROVE Same(E, SetEvent(E, a, event))
  BY <1>1, FindLemma DEF SetEvent, Same, Waits, Containers, Entities
<1>3. ASSUME NEW F \in SUBSET Profiles PROVE Same(E, SetFlags(E, a, F))
  BY <1>1, FindLemma, EntityAssumption DEF SetFlags, Same, Waits, Containers, Entities
<1>4. ASSUME NEW F PROVE Same(E, ClearFlags(E, a, F))
  BY <1>1, FindLemma DEF ClearFlags, Same, Waits, Containers, Entities
<1>5. ASSUME NEW work PROVE Same(E, SetWork(E, a, work))
  BY <1>1, FindLemma DEF SetWork, Same, Waits, Containers, Entities
<1>6. ASSUME NEW F PROVE Same(E, ClearAll(E, F))
  BY <1>1 DEF ClearAll, Same, Waits, Containers, Entities
<1>7. Same(E, ConnectedWrap(E, a))
  BY <1>1, FindLemma DEF ConnectedWrap, Same, Waits, Containers, Entities
<1>8. ASSUME NEW P, NEW F \in EndOfStream(E, a, P) PROVE Same(E, F)
  BY <1>5, SafeLemma DEF EndOfStream
<1> QED BY <1>2, <1>3, <1>4, <1>5, <1>6, <1>7, <1>8

\* The link of a phone is gone: only its own entity may be freed.
LEMMA FreeByAddrSafe ==
    ASSUME NEW E \in Containers, NEW a \in Phones, NEW reason \in Reasons, NEW U, a \notin U
    PROVE  Safe(E, FreeByAddr(E, a, reason), U)
<1>1. \A i \in Ids : E[i] \in Entities
  BY DEF Containers
<1>2. CASE Find(E, a) = NoId
  BY <1>2, SafeLemma DEF FreeByAddr
<1>3. CASE Find(E, a) # NoId
  <2> DEFINE i == Find(E, a)
             R == IF reason = "timeout" THEN {"RECONNECTING"} ELSE {}
             A == Attach(E, i, FALSE, a, reason)
             B == [A EXCEPT ![i].flags = @ \cup R]
  <2>1. i \in Ids /\ E[i].addr = a
    BY <1>3, FindLemma, IdsLemma
  <2>2. \E G \in {B, Free(E, i, reason), E} :
           FreeByAddr(E, a, reason) = SetEvent(G, a, "DISCONNECTED")
    <3> HIDE DEF i
    <3>1. i # NoId
      BY <2>1, IdsLemma
    <3>2. Find(E, a) = i
      BY DEF i
    <3> QED BY <3>1, <3>2 DEF FreeByAddr
  <2>3. PICK G \in {B, Free(E, i, reason), E} :
           FreeByAddr(E, a, reason) = SetEvent(G, a, "DISCONNECTED")
    BY <2>2
  <2> HIDE DEF i
  <2>4. A \in Containers /\ Free(E, i, reason) \in Containers
    BY <2>1, AttachLemma, FreeLemma DEF Tame
  <2>5. R \subseteq ConnectFlags /\ "CONN_PENDING" \notin R
    BY DEF ConnectFlags
  <2> HIDE DEF R
  <2>6. B \in Containers
    <3> HIDE DEF A
    <3> QED BY <2>1, <2>4, <2>5, FlagLemma DEF Containers, Entities, Tame, Waits
  <2>7. Safe(E, B, U)
    BY <1>1, <2>1, <2>5 DEF Attach, Safe, SafeAt, Waits, Containers, Entities
  <2>8. Safe(E, Free(E, i, reason), U)
    BY <1>1, <2>1 DEF Free, Safe, SafeAt, Waits, Containers, Entities
  <2>9. Safe(E, E, U)
    BY SafeLemma
  <2> HIDE DEF A, B
  <2>10. Safe(E, G, U) /\ G \in Containers
    BY <2>3, <2>4, <2>6, <2>7, <2>8, <2>9
  <2> QED BY <2>3, <2>10, SameOperations, SafeLemma
<1> QED BY <1>2, <1>3

\* Asking the host to close a link leaves the entity bound to it.
LEMMA DisconnectLinkSafe ==
    ASSUME NEW E \in Containers, NEW i \in Ids, DisconnectLink(E, i)
    PROVE  Safe(E, ent', Linked)
<1>1. \A j \in Ids : E[j] \in Entities
  BY DEF Containers
<1>2. CASE Up(E[i].addr)
  BY <1>1, <1>2 DEF DisconnectLink, Safe, SafeAt, Waits, Containers, Entities
<1>3. CASE ~Up(E[i].addr)
  <2>1. E[i].addr \notin Linked
    BY <1>3 DEF Up, Linked
  <2> QED BY <1>1, <1>3, <2>1 DEF DisconnectLink, Free, Safe, SafeAt, Waits, Containers, Entities
<1> QED BY <1>2, <1>3

LEMMA DisconnectToReconnectSafe ==
    ASSUME ent \in Containers, NEW a, DisconnectToReconnect(a)
    PROVE  Safe(ent, ent', Linked)
<1>1. CASE Up(a) /\ Find(ent, a) # NoId
  <2> DEFINE E == SetEvent(ent, a, "DISCONN_CONN")
             i == Find(ent, a)
  <2>1. Same(ent, E) /\ E \in Containers
    BY SetEventLemma, SameOperations DEF EntityEvents, Tame
  <2>2. i \in Ids /\ DisconnectLink(E, i)
    BY <1>1, FindLemma, IdsLemma DEF DisconnectToReconnect
  <2> HIDE DEF E, i
  <2>3. Safe(E, ent', Linked)
    BY <2>1, <2>2, DisconnectLinkSafe
  <2> QED BY <2>1, <2>3, SafeLemma
<1>2. CASE ~(Up(a) /\ Find(ent, a) # NoId)
  BY <1>2, SafeLemma DEF DisconnectToReconnect
<1> QED BY <1>1, <1>2

\* The management of an entity: it keeps the phones and the links, unless it makes the
\* entity wait for an attempt when no other one does.
Starts(i) ==
    /\ ent[i].used /\ ent[i].addr # NoPhone /\ \A j \in Ags : ~Waits(ent[j])
    /\ ent' = [ent EXCEPT ![i].state = "CONNECTING",
                 ![i].flags = @ \cup {"RECONNECTING", "CONN_PENDING"}]
    /\ conn' = Request(conn, ent[i].addr)
    /\ asked' = ent[i].addr

LEMMA ScanOnSame ==
    ASSUME NEW E \in Containers, NEW i \in Ids, ScanOn(E, i)
    PROVE  Same(E, ent')
<1>1. CASE ent' = E \/ ent' = [E EXCEPT ![i].state = "STANDBY"]
  BY <1>1 DEF Same, Waits, Containers, Entities
<1>2. CASE ent' = [ClearAll(E, {"SCAN_PENDING"}) EXCEPT ![i].state = "STANDBY"]
  <2> DEFINE C == ClearAll(E, {"SCAN_PENDING"})
  <2>1. Same(E, C) /\ C \in Containers
    BY ClearAllLemma, SameOperations DEF Tame
  <2>2. ent' = [C EXCEPT ![i].state = "STANDBY"]
    BY <1>2
  <2> HIDE DEF C
  <2>3. Same(C, ent')
    BY <2>1, <2>2 DEF Same, Waits, Containers, Entities
  <2> QED BY <2>1, <2>3, SafeLemma
<1>3. CASE \E F \in {E, ClearAll(E, {"RECONN_FAILED"})} :
             ent' = [F EXCEPT ![i].event = "INVALID", ![i].flags = @ \cup {"SCAN_PENDING"}]
  <2>1. PICK F \in {E, ClearAll(E, {"RECONN_FAILED"})} :
             ent' = [F EXCEPT ![i].event = "INVALID", ![i].flags = @ \cup {"SCAN_PENDING"}]
    BY <1>3
  <2>2. Same(E, F) /\ F \in Containers
    BY ClearAllLemma, SameOperations, SafeLemma DEF Tame
  <2>3. Same(F, ent')
    BY <2>1, <2>2 DEF Same, Waits, Containers, Entities
  <2> QED BY <2>2, <2>3, SafeLemma
<1> QED BY <1>1, <1>2, <1>3 DEF ScanOn

LEMMA ProcedureSame ==
    ASSUME ent \in Containers, NEW i \in Ids,
           \/ unused_procedure(i) \/ scanning_procedure(i) \/ working_procedure(i)
           \/ sniff_mode_procedure(i) \/ connecting_procedure(i)
    PROVE  Same(ent, ent') /\ conn' = conn /\ asked' = asked
<1>1. conn' = conn /\ asked' = asked
  BY DEF unused_procedure, scanning_procedure, working_procedure, sniff_mode_procedure,
     connecting_procedure, connVars, manageVars
<1> SUFFICES Same(ent, ent')
  BY <1>1
<1>2. CASE unused_procedure(i)
  BY <1>2 DEF unused_procedure, To, ToOn, Same, Waits, Containers, Entities
<1>3. CASE scanning_procedure(i)
  <2>1. CASE ent' = [ClearAll(ent, {"SCAN_PENDING"}) EXCEPT
                        ![i].event = "INVALID", ![i].state = "STANDBY"]
    <3> DEFINE C == ClearAll(ent, {"SCAN_PENDING"})
    <3>1. Same(ent, C) /\ C \in Containers
      BY ClearAllLemma, SameOperations DEF Tame
    <3>2. ent' = [C EXCEPT ![i].event = "INVALID", ![i].state = "STANDBY"]
      BY <2>1
    <3> HIDE DEF C
    <3>3. Same(C, ent')
      BY <3>1, <3>2 DEF Same, Waits, Containers, Entities
    <3> QED BY <3>1, <3>3, SafeLemma
  <2>2. CASE To(i, "STANDBY")
    BY <2>2 DEF To, Same, Waits, Containers, Entities
  <2>3. CASE ScanOn([ent EXCEPT ![i].flags = @ \ {"SCAN_PENDING"}], i)
    <3> DEFINE E == [ent EXCEPT ![i].flags = @ \ {"SCAN_PENDING"}]
    <3>1. ent[i].flags \ {"SCAN_PENDING"} \in SUBSET (ConnectFlags \cup Profiles)
      BY DEF Containers, Entities
    <3>2. E \in Containers
      BY <3>1, FlagLemma DEF Tame, Waits
    <3>3. Same(ent, E)
      BY DEF Same, Waits, Containers, Entities
    <3>4. ScanOn(E, i)
      BY <2>3
    <3> HIDE DEF E
    <3> QED BY <3>2, <3>3, <3>4, ScanOnSame, SafeLemma
  <2>4. CASE ScanOn(ent, i)
    BY <2>4, ScanOnSame
  <2> QED BY <1>3, <2>1, <2>2, <2>3, <2>4 DEF scanning_procedure
<1>4. CASE working_procedure(i) \/ sniff_mode_procedure(i)
  BY <1>4 DEF working_procedure, sniff_mode_procedure, Same, Waits, Containers, Entities
<1>5. CASE connecting_procedure(i)
  <2>1. 1 - i \in Ids
    BY IdsLemma
  <2> QED BY <1>5, <2>1 DEF connecting_procedure, Same, Waits, Containers, Entities
<1> QED BY <1>2, <1>3, <1>4, <1>5

LEMMA ManageSafe ==
    ASSUME ent \in Containers, NEW i \in Ids, bt_app_management_sched(i)
    PROVE  \/ Safe(ent, ent', Linked) /\ conn' = conn /\ asked' = asked
           \/ Starts(i)
<1>1. CASE Same(ent, ent') /\ conn' = conn /\ asked' = asked
  BY <1>1, SafeLemma
<1>2. CASE standby_procedure(i)
  <2>1. CASE ToOn(i, "SCANNING") /\ UNCHANGED <<conn, asked>>
    <3>1. Same(ent, ent')
      BY <2>1 DEF ToOn, Same, Waits, Containers, Entities
    <3> QED BY <1>1, <2>1, <3>1
  <2>2. CASE UNCHANGED <<ent, conn, asked>>
    BY <1>1, <2>2, SafeLemma
  <2>3. CASE DisconnectLink(ent, i) /\ UNCHANGED <<conn, asked>>
    BY <2>3, DisconnectLinkSafe
  <2>4. CASE ent[i].used /\ ~ent[i].handle /\ ent[i].addr # NoPhone /\ Reconnect(i)
    <3>1. CASE ent' = GivenUp(ent, i) /\ UNCHANGED <<conn, asked>>
      BY <2>4, <3>1 DEF GivenUp, Free, Safe, SafeAt, Waits, Containers, Entities
    <3>2. CASE /\ ~Blocked(i)
               /\ ent' = [ent EXCEPT ![i].state = "CONNECTING",
                            ![i].flags = @ \cup {"RECONNECTING", "CONN_PENDING"}]
               /\ conn' = Request(conn, ent[i].addr) /\ asked' = ent[i].addr
      BY <2>4, <3>2 DEF Starts, Blocked, AnyFlag, Waits
    <3> QED BY <2>2, <2>4, <3>1, <3>2 DEF Reconnect
  <2>5. CASE /\ ent' = [ent EXCEPT ![i].flags = @ \ {"SCAN_PENDING"},
                          ![i].state = IF ent[i].work THEN "WORKING" ELSE "SNIFF"]
             /\ UNCHANGED <<conn, asked>>
    <3>1. Same(ent, ent')
      BY <2>5 DEF Same, Waits, Containers, Entities
    <3> QED BY <1>1, <2>5, <3>1
  <2> QED BY <1>2, <2>1, <2>2, <2>3, <2>4, <2>5 DEF standby_procedure
<1> QED BY <1>1, <1>2, ProcedureSame DEF bt_app_management_sched

LEMMA ManageKeeps ==
    ASSUME ent \in Containers, ent' \in Containers, NEW i \in Ags,
           bt_app_management_sched(i), Kept(ent, Minded)
    PROVE  Kept(ent', Minded)
<1>1. i \in Ids
  BY IdsLemma
<1>2. CASE Safe(ent, ent', Linked)
  BY <1>2, KeptLemma DEF Minded
<1>3. CASE Starts(i)
  <2>1. /\ ent'[i].used = ent[i].used /\ ent'[i].addr = ent[i].addr
        /\ ent'[i].handle = ent[i].handle
        /\ \A j \in Ids \ {i} : ent'[j] = ent[j]
    BY <1>1, <1>3 DEF Starts, Containers, Entities
  <2>2. \A j \in Ags : j \in Ids
    BY IdsLemma
  <2>3. \A j \in Ags : (ent'[j].used => ent'[j].addr \in Phones)
                       /\ (Waits(ent'[j]) => ent'[j].used)
    BY <1>3, <2>1, <2>2 DEF Kept, Starts
  <2>4. \A j, k \in Ags : ent'[j].addr = ent'[k].addr /\ ent'[j].addr # NoPhone => j = k
    BY <2>1, <2>2 DEF Kept
  <2>5. \A a \in Minded : \E j \in Ags : ent'[j].addr = a /\ ent'[j].used /\ ent'[j].handle
    BY <2>1, <2>2 DEF Kept
  <2> QED BY <2>3, <2>4, <2>5 DEF Kept
<1> QED BY <1>1, <1>2, <1>3, ManageSafe

LEMMA SchedulerSafe ==
    ASSUME ent \in Containers, LinkTyped, bt_connect_scheduler
    PROVE  Safe(ent, ent', Linked) /\ Linked' = Linked
<1>1. CASE ~conn.active
  BY <1>1, SafeLemma DEF bt_connect_scheduler, Linked
<1>2. CASE conn.active
  <2> DEFINE c == [conn EXCEPT !.state = EventToState(conn.event, conn.state)]
  <2>1. Attempt(c)
    BY <1>2 DEF bt_connect_scheduler
  <2> HIDE DEF c
  <2>2. CASE link' = link /\ (ent' = ent \/ DisconnectToReconnect(c.addr))
    BY <2>2, SafeLemma, DisconnectToReconnectSafe DEF Linked
  <2>3. CASE /\ ent' = ent /\ link[c.addr] = "none"
             /\ link' = [link EXCEPT ![c.addr] = "paging"]
    <3>1. \A a \in Phones : link'[a] = "up" <=> link[a] = "up"
      BY <2>3 DEF LinkTyped
    <3> QED BY <2>3, <3>1, SafeLemma DEF Linked
  <2> QED BY <2>1, <2>2, <2>3, AttemptEffect
<1> QED BY <1>1, <1>2

\* What the host reports keeps the phones of the entities, and the links that stay.
LEMMA HostSafe ==
    ASSUME IInv, ~ \E a \in Phones : LinkMade(a), Host
    PROVE  Safe(ent, ent', Linked') /\ Linked' \subseteq Linked
<1>1. ent \in Containers /\ LinkTyped /\ conn \in Conns
  BY TypeParts DEF RestTyped
<1>2. ASSUME Same(ent, ent'), link' = link
      PROVE  Safe(ent, ent', Linked') /\ Linked' \subseteq Linked
  BY <1>2, SafeLemma DEF Linked
<1>3. Same(ent, ent)
  BY SafeLemma
<1>4. ASSUME NEW a, NEW p \in Profiles, ProfileUp(a, p) \/ ProfileDown(a, p)
      PROVE  Same(ent, ent') /\ link' = link
  <2>1. CASE ProfileUp(a, p)
    <3> DEFINE E == SetFlags(ent, a, {p})
    <3>1. Same(ent, E) /\ E \in Containers
      BY <1>1, SetFlagsLemma, SameOperations DEF Tame
    <3>2. (ent' = ConnectedWrap(E, a) \/ ent' = E) /\ link' = link
      BY <2>1 DEF ProfileUp
    <3> HIDE DEF E
    <3> QED BY <3>1, <3>2, SameOperations, SafeLemma
  <2>2. CASE ProfileDown(a, p)
    <3> DEFINE E == ClearFlags(ent, a, {p})
    <3>1. Same(ent, E) /\ E \in Containers
      BY <1>1, ClearFlagsLemma, SameOperations DEF Tame
    <3>2. ent' \in EndOfStream(E, a, {p}) /\ link' = link
      BY <2>2 DEF ProfileDown
    <3> HIDE DEF E
    <3> QED BY <3>1, <3>2, SameOperations, SafeLemma
  <2> QED BY <1>4, <2>1, <2>2
<1>5. ASSUME NEW a \in Phones, NEW reason \in Reasons, LinkLost(a, reason)
      PROVE  Safe(ent, ent', Linked') /\ Linked' \subseteq Linked
  <2> DEFINE E == ClearFlags(ent, a, Profiles \cup {"DISCONN_PENDING"})
  <2>1. a \notin Linked' /\ Linked' \subseteq Linked
    BY <1>1, <1>5 DEF LinkLost, Linked, LinkTyped
  <2>2. PICK F \in EndOfStream(E, a, prof[a]) : ent' = FreeByAddr(F, a, reason)
    BY <1>5 DEF LinkLost
  <2>3. Same(ent, E) /\ E \in Containers
    BY <1>1, ClearFlagsLemma, SameOperations DEF Tame
  <2> HIDE DEF E
  <2>4. Same(E, F) /\ F \in Containers
    BY <2>2, <2>3, EndOfStreamLemma, SameOperations DEF Tame
  <2>5. Safe(F, ent', Linked')
    BY <2>1, <2>2, <2>4, FreeByAddrSafe
  <2> QED BY <2>1, <2>3, <2>4, <2>5, SafeLemma
<1>6. ASSUME NEW a \in Phones, LinkFailed(a) \/ Call(a)
      PROVE  Safe(ent, ent', Linked') /\ Linked' \subseteq Linked
  <2>1. ent' = ent /\ Linked' \subseteq Linked
    BY <1>1, <1>6 DEF LinkFailed, Call, Linked, LinkTyped
  <2> QED BY <2>1, SafeLemma
<1>7. ASSUME HostAnswers(Succeeds \/ Fails) \/ HostAnswers(Refuses("missing", "KEY_MISSING")
                       \/ Refuses("resources", "LOW_RESOURCES"))
      PROVE  Same(ent, ent') /\ link' = link
  BY <1>3, <1>4, <1>7 DEF HostAnswers, Succeeds, Fails, Refuses, Answer, hostVars
<1>8. CASE CancelAnswered \/ Expire \/ RetryExpires
  BY <1>2, <1>3, <1>8 DEF CancelAnswered, Expire, RetryExpires, hostVars
<1>9. CASE LateConnected
  BY <1>1, <1>2, <1>9, SameOperations DEF LateConnected, hostVars
<1>10. ASSUME NEW a \in Phones, NEW p \in Profiles, PhoneConnects(a, p) \/ PhoneDisconnects(a, p)
       PROVE  Safe(ent, ent', Linked') /\ Linked' \subseteq Linked
  BY <1>2, <1>4, <1>10 DEF PhoneConnects, PhoneDisconnects
<1>11. ASSUME NEW a \in Phones, PhoneEncrypts(a)
       PROVE  Safe(ent, ent', Linked') /\ Linked' \subseteq Linked
  BY <1>2, <1>3, <1>11 DEF PhoneEncrypts, hostVars
<1>12. ASSUME NEW a \in Phones, NEW on \in BOOLEAN, Play(a, on)
       PROVE  Safe(ent, ent', Linked') /\ Linked' \subseteq Linked
  BY <1>1, <1>2, <1>12, SameOperations DEF Play, hostVars
<1>13. CASE MatchButton
  <2>1. Same(ent, ent') /\ link' = link
    BY <1>1, <1>13 DEF MatchButton, Same, Waits, Containers, Entities, hostVars
  <2> QED BY <1>2, <2>1
<1>14. CASE Awaited
  BY <1>2, <1>5, <1>6, <1>7, <1>8, <1>9, <1>14 DEF Awaited, Reasons
<1>15. CASE Surprise
  <2>1. LossReasons \subseteq Reasons
    BY ManageAssumption DEF Reasons
  <2> QED BY <1>2, <1>5, <1>6, <1>7, <1>10, <1>11, <1>12, <1>13, <1>15, <2>1 DEF Surprise
<1> QED BY <1>14, <1>15 DEF Host

\* A link that is made.
LEMMA LinkMadeBinds ==
    ASSUME IInv, Kept(ent, Minded), NEW a \in Phones, LinkMade(a)
    PROVE  /\ Kept(ent', Minded')
           /\ \A i \in Ags : /\ Waits(ent'[i]) => Waits(ent[i])
                             /\ ent'[i].state = ent[i].state
<1> DEFINE E == Bind(ent, a)
<1>1. ent \in Containers /\ LinkTyped
  BY TypeParts DEF RestTyped
<1>2. E \in Containers
  BY <1>1, BindLemma DEF Tame
<1>3. /\ Kept(E, Minded')
      /\ \E i \in Ags : E[i].addr = a
      /\ \A i \in Ags : /\ Waits(E[i]) => Waits(ent[i])
                        /\ E[i].state = ent[i].state
  <2>1. link' = [link EXCEPT ![a] = "up"] /\ evicted' = (evicted \cup Evicted(E)) \ {a}
    BY DEF LinkMade
  <2>2. Minded' \subseteq Minded \cup {a} /\ Minded' \cap Evicted(E) \subseteq {a}
    BY <1>1, <2>1 DEF Minded, Linked, LinkTyped
  <2>3. \A b \in Minded' \ {a} : \A i \in Ags :
            ent[i].used /\ ent[i].addr = b => E[i].addr = b
    BY <2>2 DEF Evicted, Minded, Linked
  <2> QED BY <1>1, <2>2, <2>3, BindKeeps
<1>5. \E i \in Ids : \E m : ent' = [E EXCEPT ![i].wrap = FALSE, ![i].mac = m]
  <2>1. Find(E, a) # NoId
    <3>1. PICK i \in Ags : E[i].addr = a
      BY <1>3
    <3>2. \E j \in Ags : E[j].addr = a /\ \A k \in Ags : E[k].addr = a => j <= k
      BY <3>1, EntityAssumption DEF Ags
    <3>3. Find(E, a) \in Ags
      BY <3>1, <3>2 DEF Find
    <3> QED BY <3>3, IdsLemma
  <2>2. Find(E, a) \in Ids
    BY <2>1, FindLemma, IdsLemma
  <2> QED BY <2>2 DEF LinkMade
<1> HIDE DEF E
<1>6. PICK i \in Ids : \E m : ent' = [E EXCEPT ![i].wrap = FALSE, ![i].mac = m]
  BY <1>5
<1>7. \A j \in Ids : /\ ent'[j].used = E[j].used /\ ent'[j].handle = E[j].handle
                     /\ ent'[j].addr = E[j].addr /\ ent'[j].flags = E[j].flags
                     /\ ent'[j].state = E[j].state
  BY <1>2, <1>6 DEF Containers, Entities
<1>8. \A j \in Ags : j \in Ids
  BY IdsLemma
<1>9. Kept(ent', Minded')
  BY <1>3, <1>7, <1>8 DEF Kept, Waits
<1> QED BY <1>3, <1>7, <1>8, <1>9 DEF Waits

\* No other step takes an entity away from its phone.
LEMMA EvictedStays ==
    ASSUME \/ Manage \/ Schedule \/ UNCHANGED vars
           \/ Host /\ ~ \E a \in Phones : LinkMade(a)
    PROVE  evicted' = evicted
<1>1. Manage => evicted' = evicted
  BY DEF Manage, bt_app_management_sched, unused_procedure, scanning_procedure,
     standby_procedure, working_procedure, sniff_mode_procedure, connecting_procedure,
     manageVars
<1>2. Schedule \/ UNCHANGED vars => evicted' = evicted
  BY DEF Schedule, manageVars, vars
<1>3. \A a, p : ProfileUp(a, p) \/ ProfileDown(a, p) => evicted' = evicted
  BY DEF ProfileUp, ProfileDown, manageVars
<1>4. Succeeds \/ Fails \/ Refuses("missing", "KEY_MISSING")
          \/ Refuses("resources", "LOW_RESOURCES") => evicted' = evicted
  BY <1>3 DEF Succeeds, Fails, Refuses, Answer, manageVars
<1>5. ASSUME Host, ~ \E a \in Phones : LinkMade(a) PROVE evicted' = evicted
  <2>1. CASE Awaited
    BY <1>4, <1>5, <2>1 DEF Awaited, LinkFailed, LinkLost, HostAnswers, CancelAnswered,
       LateConnected, Expire, RetryExpires, manageVars
  <2>2. CASE Surprise
    BY <1>3, <1>4, <2>2 DEF Surprise, HostAnswers, LinkLost, Call, PhoneEncrypts,
       PhoneConnects, PhoneDisconnects, Play, MatchButton, manageVars
  <2> QED BY <1>5, <2>1, <2>2 DEF Host
<1> QED BY <1>1, <1>2, <1>5

LEMMA KeptStep == IInv /\ IInv' /\ Kept(ent, Minded) /\ [Next]_vars => Kept(ent', Minded')
<1> SUFFICES ASSUME IInv, IInv', Kept(ent, Minded), [Next]_vars
             PROVE  Kept(ent', Minded')
  OBVIOUS
<1>1. ent \in Containers /\ ent' \in Containers /\ LinkTyped
  BY TypeParts DEF IInv, TypeOK, Containers, RestTyped
<1>2. CASE Manage
  <2>1. link' = link
    BY <1>2 DEF Manage, bt_app_management_sched, unused_procedure, scanning_procedure,
       standby_procedure, working_procedure, sniff_mode_procedure, connecting_procedure,
       hostVars
  <2>2. Minded' = Minded
    BY <1>2, <2>1, EvictedStays DEF Minded, Linked
  <2>3. Kept(ent', Minded)
    BY <1>1, <1>2, ManageKeeps DEF Manage
  <2> QED BY <2>2, <2>3
<1>3. CASE Schedule
  <2>1. Safe(ent, ent', Linked) /\ Linked' = Linked
    BY <1>1, <1>3, SchedulerSafe DEF Schedule
  <2>2. Minded' = Minded /\ Minded \subseteq Linked
    BY <1>3, <2>1, EvictedStays DEF Minded
  <2>3. Kept(ent', Minded)
    BY <1>1, <2>1, <2>2, KeptLemma
  <2> QED BY <2>2, <2>3
<1>4. CASE Host
  <2>1. CASE \E a \in Phones : LinkMade(a)
    BY <2>1, LinkMadeBinds
  <2>2. CASE ~ \E a \in Phones : LinkMade(a)
    <3>1. Safe(ent, ent', Linked') /\ Linked' \subseteq Linked
      BY <1>4, <2>2, HostSafe
    <3>2. Minded' \subseteq Minded /\ Minded' \subseteq Linked'
      BY <1>4, <2>2, <3>1, EvictedStays DEF Minded
    <3> QED BY <1>1, <3>1, <3>2, KeptLemma
  <2> QED BY <2>1, <2>2
<1>5. CASE UNCHANGED vars
  <2>1. Minded' = Minded /\ ent' = ent
    BY <1>5 DEF vars, hostVars, manageVars, Minded, Linked
  <2> QED BY <2>1
<1> QED BY <1>2, <1>3, <1>4, <1>5 DEF Next, Loop

\* The phones that were paired, each once, have the first entities.
LEMMA InitKept == Init => Kept(ent, Minded)
<1> SUFFICES ASSUME Init PROVE Kept(ent, Minded)
  OBVIOUS
<1>1. Minded = {}
  BY DEF Init, Minded, Linked
<1>2. ASSUME NEW i \in Ags
      PROVE  /\ ent[i].flags = {}
             /\ ent[i].used => i + 1 \in DOMAIN Paired /\ ent[i].addr = Paired[i + 1]
             /\ ~ent[i].used => ent[i].addr = NoPhone
  <2>1. i \in Ids
    BY IdsLemma
  <2>2. ent[i] = LET E == [FreeEntity EXCEPT !.event = "ENABLE_COMPLETE"]
                 IN  IF i + 1 \in DOMAIN Paired
                     THEN [E EXCEPT !.used = TRUE, !.addr = Paired[i + 1]] ELSE E
    BY <2>1 DEF Init
  <2> QED BY <2>2 DEF FreeEntity
<1>3. \A n \in DOMAIN Paired : Paired[n] \in Phones
  BY ManageAssumption
<1>4. \A i, j \in Ags : i + 1 = j + 1 => i = j
  BY DEF Ags
<1>5. \A i \in Ags : ent[i].used <=> ent[i].addr # NoPhone
  BY <1>2, <1>3, EntityAssumption
<1>6. \A i, j \in Ags : ent[i].addr = ent[j].addr /\ ent[i].addr # NoPhone => i = j
  BY <1>2, <1>4, <1>5, ManageAssumption
<1>7. \A i \in Ags : (ent[i].used => ent[i].addr \in Phones) /\ ~Waits(ent[i])
  BY <1>2, <1>3 DEF Waits
<1> QED BY <1>1, <1>6, <1>7 DEF Kept

\* Every phone that has a link has an entity, used and bound to the link, so that its loss is
\* noticed (bt_app_entity_bind, bt_app_entity_free_by_addr), unless its entity was given to
\* another phone since (bt_app_entity_alloc).
THEOREM LinksHaveEntities == Spec => []LinkHasEntity
<1> DEFINE K == Kept(ent, Minded)
<1>1. Init => K
  BY InitKept
<1>2. IInv /\ IInv' /\ K /\ [Next]_vars => K'
  BY KeptStep DEF Kept
<1>3. K => LinkHasEntity
  BY DEF Kept, Minded, Linked, LinkHasEntity
<1> HIDE DEF K
<1> QED BY <1>1, <1>2, <1>3, InductiveInvariant, PTL DEF Spec

-----------------------------------------------------------------------------
(* The result of an attempt.  It is taken over from s_result when the      *)
(* attempt ends.  s_result tells of no attempt only while none has looked  *)
(* for a link, and it still says CONNECTING at the end of an attempt that  *)
(* only wanted HFP (HfpConnected).                                         *)

\* The states of an attempt whose s_result may not be its own.
Unheard == {"START", "KEY_MISSING", "LOW_RESOURCES", "WAIT_DISCONNECTED"}

Told ==
    /\ ~conn.active => conn.link = "none"
    /\ conn.active /\ conn.state = "END" =>
          conn.s_result \in Final \/ ("HFP" \in Profiles /\ conn.s_result = "CONNECTING")
    /\ conn.s_result = "FALSE" => conn.state \in Unheard
    /\ WaiterIsAnswered

\* No entity begins to wait.
NoNewWaiter ==
    \A i \in Ags : Waits(ent'[i]) /\ ent'[i].state = "CONNECTING" =>
        Waits(ent[i]) /\ ent[i].state = "CONNECTING"

LEMMA SafeIsNoNewWaiter ==
    ASSUME NEW U, Safe(ent, ent', U) PROVE NoNewWaiter
BY IdsLemma DEF Safe, SafeAt, NoNewWaiter

\* What an event, or the loss of a link, does to the attempt.
Undecided ==
    /\ conn'.active = conn.active /\ conn'.addr = conn.addr
    /\ conn'.result = conn.result /\ conn'.s_result = conn.s_result
    /\ conn'.state \in {conn.state, "KEY_MISSING", "LOW_RESOURCES"}
    /\ conn.link = "none" => conn'.link = "none"

LEMMA UndecidedTold ==
    ASSUME Told, Undecided, asked' = asked, NoNewWaiter PROVE Told'
BY DEF Told, Undecided, NoNewWaiter, WaiterIsAnswered, Waits, Unheard

\* Only an entity that asks for an attempt changes what was asked for.
LEMMA AskedStays == Host => asked' = asked
<1>1. \A a, p : ProfileUp(a, p) \/ ProfileDown(a, p) => asked' = asked
  BY DEF ProfileUp, ProfileDown, manageVars
<1>2. Succeeds \/ Fails \/ Refuses("missing", "KEY_MISSING")
          \/ Refuses("resources", "LOW_RESOURCES") => asked' = asked
  BY <1>1 DEF Succeeds, Fails, Refuses, Answer, manageVars
<1>3. Awaited => asked' = asked
  BY <1>2 DEF Awaited, LinkMade, LinkFailed, LinkLost, HostAnswers, CancelAnswered,
     LateConnected, Expire, RetryExpires, manageVars
<1>4. Surprise => asked' = asked
  BY <1>1, <1>2 DEF Surprise, HostAnswers, LinkLost, Call, PhoneEncrypts,
     PhoneConnects, PhoneDisconnects, Play, MatchButton, manageVars
<1> QED BY <1>3, <1>4 DEF Host

LEMMA HostUndecided ==
    ASSUME IInv, Host PROVE Undecided /\ asked' = asked
<1> SUFFICES Undecided
  BY AskedStays
<1>1. conn \in Conns
  BY TypeParts DEF RestTyped
<1>2. ASSUME conn' = conn PROVE Undecided
  BY <1>2 DEF Undecided
<1>3. ASSUME NEW a, NEW e, conn' = SetConnEvent(conn, a, e) PROVE Undecided
  BY <1>1, <1>3 DEF SetConnEvent, Undecided, Conns
<1>4. ASSUME NEW a, NEW s \in {"KEY_MISSING", "LOW_RESOURCES"}, conn' = SetConnState(conn, a, s)
      PROVE  Undecided
  BY <1>1, <1>4 DEF SetConnState, Undecided, Conns
<1>5. ASSUME NEW a, NEW p, ProfileUp(a, p) \/ ProfileDown(a, p) PROVE Undecided
  BY <1>3, <1>5 DEF ProfileUp, ProfileDown
<1>6. ASSUME NEW a \in Phones, LinkMade(a) \/ LinkFailed(a) \/ \E r \in Reasons : LinkLost(a, r)
      PROVE  Undecided
  <2>1. LinkMade(a) => Undecided
    BY <1>3 DEF LinkMade
  <2>2. LinkFailed(a) => Undecided
    BY <1>1 DEF LinkFailed, Undecided, Conns
  <2>3. (\E r \in Reasons : LinkLost(a, r)) => Undecided
    BY <1>1 DEF LinkLost, WithoutLink, Undecided, Conns
  <2> QED BY <1>6, <2>1, <2>2, <2>3
<1>7. ASSUME HostAnswers(Succeeds \/ Fails) \/ HostAnswers(Refuses("missing", "KEY_MISSING")
                       \/ Refuses("resources", "LOW_RESOURCES"))
      PROVE  Undecided
  <2>1. CASE Succeeds
    <3>1. ASSUME NEW P, conn' = [conn EXCEPT !.event = "SDP_FINISHED", !.profile = @ \cup P]
          PROVE  Undecided
      BY <1>1, <3>1 DEF Undecided, Conns
    <3> QED BY <1>3, <1>5, <2>1, <3>1 DEF Succeeds, Answer
  <2>2. CASE Fails
    BY <1>3, <1>5, <2>2 DEF Fails, Answer
  <2>3. CASE Refuses("missing", "KEY_MISSING") \/ Refuses("resources", "LOW_RESOURCES")
    BY <1>4, <2>3 DEF Refuses
  <2> QED BY <1>7, <2>1, <2>2, <2>3 DEF HostAnswers
<1>8. CASE Awaited
  <2>1. CancelAnswered \/ Expire => Undecided
    BY <1>1 DEF CancelAnswered, Expire, Undecided, Conns
  <2>2. LateConnected \/ RetryExpires => Undecided
    BY <1>2 DEF LateConnected, RetryExpires, connVars
  <2> QED BY <1>6, <1>7, <1>8, <2>1, <2>2 DEF Awaited, Reasons
<1>9. CASE Surprise
  <2>1. ASSUME NEW a \in Phones, Call(a) \/ PhoneEncrypts(a) \/ (\E on \in BOOLEAN : Play(a, on))
        PROVE  Undecided
    BY <1>2, <1>3, <2>1 DEF Call, PhoneEncrypts, Play, connVars
  <2>2. ASSUME NEW a \in Phones, NEW p \in Profiles, PhoneConnects(a, p) \/ PhoneDisconnects(a, p)
        PROVE  Undecided
    BY <1>5, <2>2 DEF PhoneConnects, PhoneDisconnects
  <2>3. MatchButton => Undecided
    BY <1>2 DEF MatchButton, connVars
  <2>4. LossReasons \subseteq Reasons
    BY ManageAssumption DEF Reasons
  <2> QED BY <1>6, <1>7, <1>9, <2>1, <2>2, <2>3, <2>4 DEF Surprise
<1> QED BY <1>8, <1>9 DEF Host

\* An entity that begins to wait finds the attempt its own, or is refused.
LEMMA StartsTold ==
    ASSUME IInv, Told, NEW i \in Ags, Starts(i) PROVE Told'
<1>1. conn \in Conns /\ ent \in Containers /\ i \in Ids
  BY TypeParts, IdsLemma DEF RestTyped
<1>2. CASE conn.active
  <2>1. conn' = [conn EXCEPT !.result = "FALSE"]
    BY <1>2 DEF Starts, Request
  <2>2. conn'.active /\ conn'.result = "FALSE" /\ conn'.state = conn.state
        /\ conn'.s_result = conn.s_result
    BY <1>1, <1>2, <2>1 DEF Conns
  <2> QED BY <1>2, <2>2 DEF Told, WaiterIsAnswered
<1>3. CASE ~conn.active
  <2>1. conn' = [conn EXCEPT !.active = TRUE, !.addr = ent[i].addr, !.result = "CONNECTING",
                   !.state = "START", !.event = "NULL"]
    BY <1>3 DEF Starts, Request, Told
  <2>2. conn'.active /\ conn'.addr = asked' /\ conn'.state = "START"
    BY <1>1, <2>1 DEF Conns, Starts
  <2> QED BY <2>2 DEF Told, WaiterIsAnswered, Unheard
<1> QED BY <1>2, <1>3

\* An attempt that has not looked for a link does so, fails, or stays as it is.
LEMMA UnheardStep ==
    ASSUME NEW c \in Conns, c.state \in Unheard \cup {"ACL_FAIL"}, Attempt(c)
    PROVE  conn'.s_result = "FALSE" => conn'.state \in Unheard
<1>1. \A p \in Profiles : c.state \notin {Waiting(p), Connected(p), Failed(p)}
  BY NamesApart DEF Unheard
<1>2. ASSUME NEW d \in Conns, Fail(d)
      PROVE  conn'.s_result # "FALSE"
  BY <1>2 DEF Fail, Stay, Conns
<1>3. CASE c.state = "START" /\ Start(c)
  <2>1. CASE conn' = [c EXCEPT !.link = "none", !.cancel = "none", !.expired = FALSE,
                               !.s_result = "CONNECTING", !.state = "WAIT_ACL"]
    BY <2>1 DEF Conns
  <2>2. ASSUME NEW d, d = [c EXCEPT !.link = "none", !.cancel = "none"],
               Fail(d) \/ Stay([d EXCEPT !.count = @ + 1])
        PROVE  conn'.s_result = "FALSE" => conn'.state \in Unheard
    <3>1. d \in Conns /\ d.state = "START"
      BY <1>3, <2>2, Zenon DEF Conns
    <3>2. Stay([d EXCEPT !.count = @ + 1]) => conn'.state = "START"
      BY <3>1 DEF Stay, Conns
    <3> QED BY <1>2, <2>2, <3>1, <3>2 DEF Unheard
  <2>3. CASE Stay(Cancelled([c EXCEPT !.link = "live"]))
    BY <1>3, <2>3 DEF Stay, Cancelled, Conns, Unheard
  <2> QED BY <1>3, <2>1, <2>2, <2>3 DEF Start
<1>4. CASE GiveUp(c)
  BY <1>4 DEF GiveUp, Conns, Unheard
<1>5. CASE c.state = "WAIT_DISCONNECTED" /\ WaitDisconnected(c)
  BY <1>2, <1>5 DEF WaitDisconnected, Stay, Unheard
<1>6. CASE Fail(c)
  BY <1>2, <1>6
<1>7. \/ c.state = "START" /\ Start(c)
      \/ c.state = "WAIT_DISCONNECTED" /\ WaitDisconnected(c)
      \/ Fail(c) \/ KeyMissing(c) \/ LowResources(c)
  BY <1>1 DEF Attempt, Unheard
<1> QED BY <1>3, <1>4, <1>5, <1>6, <1>7 DEF KeyMissing, LowResources

LEMMA ScheduleTold ==
    ASSUME IInv, Told, bt_connect_scheduler, asked' = asked, NoNewWaiter
    PROVE  Told'
<1>1. conn \in Conns /\ conn.s_result \in Results
  BY TypeParts DEF RestTyped, Conns
<1>2. CASE ~conn.active
  <2>1. Undecided
    BY <1>2 DEF bt_connect_scheduler, Undecided
  <2> QED BY <2>1, UndecidedTold
<1>3. CASE conn.active
  <2>1. PICK c \in Conns :
              /\ c.state = EventToState(conn.event, conn.state)
              /\ c.active /\ c.addr = conn.addr
              /\ c.result = conn.result /\ c.s_result = conn.s_result
              /\ Attempt(c) /\ Outcome(c)
    BY <1>3, PassOutcome
  <2>2. conn'.addr = conn.addr /\ Telling(c)
    BY <2>1 DEF Outcome
  <2>3. conn'.s_result = "FALSE" => conn'.state \in Unheard
    <3> SUFFICES ASSUME conn'.s_result = "FALSE" PROVE conn'.state \in Unheard
      OBVIOUS
    <3>1. c.s_result = "FALSE"
      BY <2>2 DEF Telling, Final
    <3>2. conn.state \in Unheard
      BY <2>1, <3>1 DEF Told
    <3>3. c.state \in Unheard \cup {"ACL_FAIL"}
      BY <2>1, <3>2, EventLeads DEF Unheard
    <3> QED BY <2>1, <3>3, UnheardStep
  <2>4. ASSUME conn'.active, conn'.state = "END"
        PROVE  conn'.s_result \in Final
                  \/ ("HFP" \in Profiles /\ conn'.s_result = "CONNECTING")
    <3>1. CASE /\ "HFP" \in Profiles /\ conn'.s_result = c.s_result
               /\ c.state \in {"WAIT_HFP", "HFP_CONNECTED"}
      <4>1. conn.state \notin Unheard
        BY <2>1, <3>1, EventLeads DEF Unheard
      <4>2. conn.s_result # "FALSE"
        BY <4>1 DEF Told
      <4> QED BY <1>1, <2>1, <3>1, <4>2 DEF Results, Final
    <3> QED BY <2>2, <2>4, <3>1 DEF Telling
  <2>5. CASE conn'.active
    BY <1>3, <2>1, <2>2, <2>3, <2>4, <2>5
       DEF Told, Telling, WaiterIsAnswered, NoNewWaiter, Waits
  <2>6. CASE ~conn'.active
    <3>1. conn.state = "END"
      BY <2>1, <2>2, <2>6, EventLeads DEF Telling
    <3>2. conn'.link = "none" /\ conn'.result = conn.s_result
      BY <2>1, <2>2, <2>6 DEF Telling
    <3>3. conn'.result \in Final \/ ("HFP" \in Profiles /\ conn'.result = "CONNECTING")
      BY <1>3, <3>1, <3>2 DEF Told
    <3> QED BY <2>3, <2>6, <3>2, <3>3 DEF Told, WaiterIsAnswered, Final
  <2> QED BY <2>5, <2>6
<1> QED BY <1>2, <1>3

LEMMA ToldStep == IInv /\ Kept(ent, Minded) /\ Told /\ [Next]_vars => Told'
<1> SUFFICES ASSUME IInv, Kept(ent, Minded), Told, [Next]_vars
             PROVE  Told'
  OBVIOUS
<1>1. ent \in Containers /\ LinkTyped
  BY TypeParts DEF RestTyped
<1>2. CASE Manage
  <2>1. turn \in Ags /\ turn \in Ids /\ bt_app_management_sched(turn)
    BY <1>2, IdsLemma DEF Manage
  <2>2. CASE Safe(ent, ent', Linked) /\ conn' = conn /\ asked' = asked
    BY <2>2, SafeIsNoNewWaiter, UndecidedTold DEF Undecided
  <2>3. CASE Starts(turn)
    BY <2>1, <2>3, StartsTold
  <2> QED BY <1>1, <2>1, <2>2, <2>3, ManageSafe
<1>3. CASE Schedule
  <2>1. Safe(ent, ent', Linked) /\ asked' = asked
    BY <1>1, <1>3, SchedulerSafe DEF Schedule, manageVars
  <2> QED BY <1>3, <2>1, SafeIsNoNewWaiter, ScheduleTold DEF Schedule
<1>4. CASE Host
  <2>1. NoNewWaiter
    <3>1. CASE \E a \in Phones : LinkMade(a)
      BY <3>1, LinkMadeBinds DEF NoNewWaiter
    <3>2. CASE ~ \E a \in Phones : LinkMade(a)
      BY <1>4, <3>2, HostSafe, SafeIsNoNewWaiter
    <3> QED BY <3>1, <3>2
  <2> QED BY <1>4, <2>1, HostUndecided, UndecidedTold
<1>5. CASE UNCHANGED vars
  BY <1>5 DEF vars, connVars, manageVars, Told, WaiterIsAnswered
<1> QED BY <1>2, <1>3, <1>4, <1>5 DEF Next, Loop

\* An entity that waits for the result of an attempt gets one: of the attempt it asked for,
\* or of the one that kept it from its own (bt_connection_req, get_connection_state,
\* bt_app_connecting_procedure), but for an attempt that only wanted HFP (HfpConnected).
THEOREM WaitersAreAnswered == Spec => []WaiterIsAnswered
<1> DEFINE K == Kept(ent, Minded)
<1>1. Init => K
  BY InitKept
<1>2. IInv /\ IInv' /\ K /\ [Next]_vars => K'
  BY KeptStep DEF Kept
<1>3. Init => Told
  <2> SUFFICES ASSUME Init PROVE Told
    OBVIOUS
  <2>1. \A i \in Ags : ent[i].state = "UNUSED"
    <3>1. \A i \in Ags : i \in Ids
      BY IdsLemma
    <3>2. \A i \in Ags : ent[i] = LET E == [FreeEntity EXCEPT !.event = "ENABLE_COMPLETE"]
                 IN  IF i + 1 \in DOMAIN Paired
                     THEN [E EXCEPT !.used = TRUE, !.addr = Paired[i + 1]] ELSE E
      BY <3>1 DEF Init
    <3> QED BY <3>2 DEF FreeEntity
  <2>2. ~conn.active /\ conn.link = "none" /\ conn.state = "START"
    BY DEF Init, ConnInit
  <2> QED BY <2>1, <2>2 DEF Told, WaiterIsAnswered, Unheard
<1>4. IInv /\ K /\ Told /\ [Next]_vars => Told'
  BY ToldStep
<1>5. Told => WaiterIsAnswered
  BY DEF Told
<1> HIDE DEF K
<1> QED BY <1>1, <1>2, <1>3, <1>4, <1>5, InductiveInvariant, PTL DEF Spec

-----------------------------------------------------------------------------
(* The answers of a request.  An answer takes the request away, and what   *)
(* the phone does of itself is no failure of a profile that is asked for:  *)
(* that one is not connected.  So no failure comes while a request waits,  *)
(* and the one that was there is taken back when the request is repeated.  *)

Fresh ==
    /\ ~conn.active => ask = "none"
    /\ ask \in Profiles /\ conn.addr \in Phones => ask \notin prof[conn.addr]
    /\ ask # "none" => conn.state # "START"
    /\ RetryIsFresh

\* The events that tell of no failure of a request.
LEMMA FailureNames ==
    /\ \A r \in Requests : FailureOf(r) \notin
           {"NULL", "ACL_FAIL", "ACL_CONNECTED", "AUTH_SUCCESS", "ENCYPTED", "SDP_FINISHED"}
    /\ \A r \in Requests, p \in Profiles : FailureOf(r) # Connected(p)
    /\ \A r \in Requests, p \in Profiles : FailureOf(r) = Disconnected(p) => r = p
    /\ "none" \notin Requests
<1>1. /\ "auth" \notin Profiles /\ "encrypt" \notin Profiles /\ "sdp" \notin Profiles
      /\ "none" \notin Profiles
  BY NamesApart
<1>2. /\ FailureOf("auth") = "AUTH_FAIL" /\ FailureOf("encrypt") = "ENCYPT_FAIL"
      /\ FailureOf("sdp") = "SDP_FAIL"
      /\ \A p \in Profiles : FailureOf(p) = Disconnected(p)
  BY <1>1 DEF FailureOf
<1>3. /\ \A p \in Profiles : Disconnected(p) \in
             {"HFP_DISCONNECTED", "A2DP_DISCONNECTED", "AVRCP_DISCONNECTED"}
      /\ \A p \in Profiles : Connected(p) \in
             {"HFP_CONNECTED", "A2DP_CONNECTED", "AVRCP_CONNECTED"}
      /\ \A p, q \in Profiles : Disconnected(p) = Disconnected(q) => p = q
  BY EntityAssumption DEF Disconnected, Connected
<1>4. \A r \in Requests : r \in {"auth", "encrypt", "sdp"} \/ r \in Profiles
  BY DEF Requests
<1>5. "none" \notin Requests
  BY <1>1 DEF Requests
<1> QED BY <1>2, <1>3, <1>4, <1>5

\* No failure of what is asked for comes.
LEMMA FreshQuiet ==
    ASSUME Fresh, ask' \in {ask, "none"},
           conn'.active = conn.active, conn'.addr = conn.addr, conn'.state = conn.state,
           conn'.count = conn.count,
           ask' \in Requests /\ conn'.event # conn.event => conn'.event # FailureOf(ask'),
           ask' \in Profiles /\ conn.addr \in Phones => ask' \notin prof'[conn.addr]
    PROVE  Fresh'
<1>1. "none" \notin Requests
  BY FailureNames
<1>2. FailureOf(ask)' = FailureOf(ask')
  BY DEF FailureOf, Disconnected
<1> QED BY <1>1, <1>2 DEF Fresh, RetryIsFresh

\* The host leaves the request and the profiles of the attempt alone.
LEMMA FreshEvent ==
    ASSUME IInv, Fresh, NEW a, NEW e, conn' = SetConnEvent(conn, a, e), ask' = ask, prof' = prof,
           ask \in Requests => e # FailureOf(ask)
    PROVE  Fresh'
<1>1. conn \in Conns
  BY TypeParts DEF RestTyped
<1>2. /\ conn'.active = conn.active /\ conn'.addr = conn.addr
      /\ conn'.state = conn.state /\ conn'.count = conn.count
      /\ conn'.event \in {conn.event, e}
  BY <1>1 DEF SetConnEvent, Conns
<1> QED BY <1>2, FreshQuiet DEF Fresh

LEMMA FreshManage ==
    ASSUME IInv, Fresh, NEW i \in Ids, bt_app_management_sched(i)
    PROVE  Fresh'
<1>1. prof' = prof /\ ask' = ask
  BY DEF bt_app_management_sched, unused_procedure, scanning_procedure, standby_procedure,
     working_procedure, sniff_mode_procedure, connecting_procedure, hostVars, connVars
<1>2. conn' = conn \/ conn' = Request(conn, ent[i].addr)
  BY DEF bt_app_management_sched, unused_procedure, scanning_procedure, standby_procedure,
     working_procedure, sniff_mode_procedure, connecting_procedure, hostVars, connVars,
     Reconnect
<1>3. conn \in Conns
  BY TypeParts DEF RestTyped
<1>4. CASE conn' = conn
  BY <1>1, <1>4, FreshQuiet DEF Fresh
<1>5. CASE conn' = [conn EXCEPT !.result = "FALSE"]
  <2>1. /\ conn'.active = conn.active /\ conn'.addr = conn.addr /\ conn'.event = conn.event
        /\ conn'.state = conn.state /\ conn'.count = conn.count
    BY <1>3, <1>5 DEF Conns
  <2> QED BY <1>1, <2>1, FreshQuiet DEF Fresh
<1>6. CASE ~conn.active
  <2>1. ask' = "none"
    BY <1>1, <1>6 DEF Fresh
  <2>2. "none" \notin Requests /\ "none" \notin Profiles
    BY FailureNames DEF Requests
  <2> QED BY <2>1, <2>2 DEF Fresh, RetryIsFresh
<1> QED BY <1>2, <1>4, <1>5, <1>6 DEF Request

LEMMA FreshSchedule ==
    ASSUME IInv, Fresh, bt_connect_scheduler
    PROVE  Fresh'
<1>1. prof' = prof
  BY DEF bt_connect_scheduler
<1>2. CASE ~conn.active
  <2>1. conn' = conn /\ ask' = ask
    BY <1>2 DEF bt_connect_scheduler
  <2> QED BY <1>1, <2>1, FreshQuiet DEF Fresh
<1>3. CASE conn.active
  <2>1. PICK c \in Conns :
              /\ c.state = EventToState(conn.event, conn.state)
              /\ c.active /\ c.addr = conn.addr /\ c.event = conn.event
              /\ c.count = conn.count /\ Outcome(c)
    BY <1>3, PassOutcome
  <2>2. /\ conn'.addr = conn.addr /\ Renewing(c)
        /\ c.state = "START" => conn.state = "START"
    BY <2>1, EventLeads DEF Outcome
  <2>3. "none" \notin Requests /\ "none" \notin Profiles
    BY FailureNames DEF Requests
  <2>4. \A r \in Requests : FailureOf(r) # "NULL"
    BY FailureNames
  <2>5. ~conn'.active => ask' = "none"
    BY <2>2 DEF Renewing
  <2>6. ask' \in Profiles /\ conn'.addr \in Phones => ask' \notin prof'[conn'.addr]
    BY <1>1, <2>1, <2>2 DEF Renewing, Fresh
  <2>7. ask' # "none" => conn'.state # "START"
    BY <2>2 DEF Renewing, Fresh
  <2>8. RetryIsFresh'
    <3> SUFFICES ASSUME ask' \in Requests \ {"AVRCP"}, conn'.active, conn'.count > 1
                 PROVE  conn'.event # FailureOf(ask')
      BY DEF RetryIsFresh, FailureOf, Disconnected
    <3>1. CASE ask' = ask /\ conn'.event = c.event /\ conn'.count \in {c.count, 1}
      BY <1>3, <2>1, <3>1 DEF Fresh, RetryIsFresh
    <3>2. CASE ask' = ask /\ c.state = "START"
      BY <2>2, <2>3, <3>2 DEF Fresh
    <3> QED BY <2>2, <2>3, <2>4, <3>1, <3>2 DEF Renewing
  <2> QED BY <2>5, <2>6, <2>7, <2>8 DEF Fresh
<1> QED BY <1>2, <1>3

\* A link comes and goes.
LEMMA FreshLinks ==
    ASSUME IInv, Fresh, NEW a \in Phones,
           \/ LinkMade(a) \/ LinkFailed(a)
           \/ \E reason \in Reasons : LinkLost(a, reason)
    PROVE  Fresh'
<1>1. conn \in Conns /\ prof \in [Phones -> SUBSET Profiles]
  BY TypeParts DEF RestTyped
<1>2. "none" \notin Requests /\ "none" \notin Profiles
  BY FailureNames DEF Requests
<1>3. CASE LinkMade(a)
  BY <1>3, FreshEvent, FailureNames DEF LinkMade
<1>4. CASE LinkFailed(a) \/ \E reason \in Reasons : LinkLost(a, reason)
  <2>1. /\ conn'.active = conn.active /\ conn'.addr = conn.addr
        /\ conn'.state = conn.state /\ conn'.count = conn.count
        /\ a # conn.addr => conn' = conn /\ ask' = ask
        /\ a = conn.addr => ask' = "none"
    BY <1>1, <1>4 DEF LinkFailed, LinkLost, WithoutLink, Conns
  <2>2. \A b \in Phones \ {a} : prof'[b] = prof[b]
    BY <1>1, <1>4 DEF LinkFailed, LinkLost
  <2> QED BY <1>2, <2>1, <2>2, FreshQuiet DEF Fresh
<1> QED BY <1>3, <1>4

\* What a phone does of itself.
LEMMA FreshPhone ==
    ASSUME IInv, Fresh, NEW a \in Phones, NEW p \in Profiles,
           PhoneConnects(a, p) \/ PhoneDisconnects(a, p)
    PROVE  Fresh'
<1>1. conn \in Conns /\ prof \in [Phones -> SUBSET Profiles] /\ AskTyped
  BY TypeParts DEF RestTyped
<1>2. CASE PhoneConnects(a, p)
  <2>1. /\ conn' = SetConnEvent(conn, a, Connected(p))
        /\ prof' = [prof EXCEPT ![a] = prof[a] \cup {p}]
        /\ ask' = IF a = conn.addr /\ ask = p THEN "none" ELSE ask
    BY <1>2 DEF PhoneConnects, ProfileUp
  <2>2. /\ conn'.active = conn.active /\ conn'.addr = conn.addr
        /\ conn'.state = conn.state /\ conn'.count = conn.count
        /\ conn'.event \in {conn.event, Connected(p)}
    BY <1>1, <2>1 DEF SetConnEvent, Conns
  <2>3. ask' \in Profiles /\ conn.addr \in Phones => ask' \notin prof'[conn.addr]
    <3>1. "none" \notin Profiles
      BY NamesApart
    <3> QED BY <1>1, <2>1, <3>1 DEF Fresh
  <2> QED BY <2>1, <2>2, <2>3, FreshQuiet, FailureNames
<1>3. CASE PhoneDisconnects(a, p)
  <2>1. /\ conn' = SetConnEvent(conn, a, Disconnected(p))
        /\ prof' = [prof EXCEPT ![a] = @ \ {p}]
        /\ ask' = ask /\ p \in prof[a]
    BY <1>3 DEF PhoneDisconnects, ProfileDown
  <2>2. /\ conn'.active = conn.active /\ conn'.addr = conn.addr
        /\ conn'.state = conn.state /\ conn'.count = conn.count
        /\ conn'.event = conn.event \/ (a = conn.addr /\ conn'.event = Disconnected(p))
    BY <1>1, <2>1 DEF SetConnEvent, Conns
  <2>3. a = conn.addr => ask # p
    BY <2>1 DEF Fresh
  <2>4. ask' \in Profiles /\ conn.addr \in Phones => ask' \notin prof'[conn.addr]
    BY <1>1, <2>1 DEF Fresh
  <2> QED BY <2>1, <2>2, <2>3, <2>4, FreshQuiet, FailureNames
<1> QED BY <1>2, <1>3

LEMMA FreshHost ==
    ASSUME IInv, Fresh, Host
    PROVE  Fresh'
<1>1. conn \in Conns /\ AskTyped
  BY TypeParts DEF RestTyped
<1>2. ASSUME NEW a \in Phones,
             \/ LinkMade(a) \/ LinkFailed(a)
             \/ \E reason \in Reasons : LinkLost(a, reason)
      PROVE  Fresh'
  BY <1>2, FreshLinks
<1>3. ASSUME NEW A, HostAnswers(A) PROVE Fresh'
  <2>1. ask' = "none" /\ "none" \notin Requests /\ "none" \notin Profiles
    BY <1>3, FailureNames DEF HostAnswers, Requests
  <2> QED BY <2>1 DEF Fresh, RetryIsFresh
<1>4. ASSUME prof' = prof, ask' = ask, conn'.active = conn.active, conn'.addr = conn.addr,
             conn'.state = conn.state, conn'.count = conn.count, conn'.event = conn.event
      PROVE  Fresh'
  BY <1>4, FreshQuiet DEF Fresh
<1>5. CASE CancelAnswered \/ Expire
  <2>1. \/ conn' = [conn EXCEPT !.cancel = "answered"]
        \/ conn' = [conn EXCEPT !.expired = TRUE]
    BY <1>5 DEF CancelAnswered, Expire
  <2>2. prof' = prof /\ ask' = ask
    BY <1>5 DEF CancelAnswered, Expire, hostVars
  <2>3. /\ conn'.active = conn.active /\ conn'.addr = conn.addr
        /\ conn'.state = conn.state /\ conn'.count = conn.count /\ conn'.event = conn.event
    BY <1>1, <2>1 DEF Conns
  <2> QED BY <1>4, <2>2, <2>3
<1>6. CASE LateConnected \/ RetryExpires \/ MatchButton
  BY <1>4, <1>6 DEF LateConnected, RetryExpires, MatchButton, hostVars, connVars
<1>7. ASSUME NEW a \in Phones, Call(a)
      PROVE  Fresh'
  BY <1>4, <1>7 DEF Call, connVars
<1>8. ASSUME NEW a \in Phones, PhoneEncrypts(a)
      PROVE  Fresh'
  <2>1. conn' = SetConnEvent(conn, a, "ENCYPTED") /\ ask' = ask /\ prof' = prof
    BY <1>8 DEF PhoneEncrypts, hostVars
  <2>2. ask \in Requests => "ENCYPTED" # FailureOf(ask)
    BY FailureNames
  <2> QED BY <2>1, <2>2, FreshEvent
<1>9. ASSUME NEW a \in Phones, NEW p \in Profiles,
             PhoneConnects(a, p) \/ PhoneDisconnects(a, p)
      PROVE  Fresh'
  BY <1>9, FreshPhone
<1>10. ASSUME NEW a \in Phones, NEW on \in BOOLEAN, Play(a, on)
       PROVE  Fresh'
  BY <1>4, <1>10 DEF Play, hostVars, connVars
<1>11. CASE Awaited
  BY <1>2, <1>3, <1>5, <1>6, <1>11 DEF Awaited, Reasons
<1>12. CASE Surprise
  <2>1. LossReasons \subseteq Reasons
    BY ManageAssumption DEF Reasons
  <2> QED BY <1>2, <1>3, <1>6, <1>7, <1>8, <1>9, <1>10, <1>12, <2>1 DEF Surprise
<1> QED BY <1>11, <1>12 DEF Host

LEMMA FreshStep == IInv /\ Fresh /\ [Next]_vars => Fresh'
<1> SUFFICES ASSUME IInv, Fresh, [Next]_vars PROVE Fresh'
  OBVIOUS
<1>1. CASE Manage
  BY <1>1, IdsLemma, FreshManage DEF Manage
<1>2. CASE Schedule
  BY <1>2, FreshSchedule DEF Schedule
<1>3. CASE Host
  BY <1>3, FreshHost
<1>4. CASE UNCHANGED vars
  BY <1>4, FreshQuiet DEF vars, hostVars, connVars, Fresh
<1> QED BY <1>1, <1>2, <1>3, <1>4 DEF Next, Loop

\* A request that was made again, but for that of AVRCP, is not judged by the failure of the
\* one before (g_conn_st.event = CONN_EVENT_NULL in the failures of bt_connect_scheduler).
THEOREM RetriesAreFresh == Spec => []RetryIsFresh
<1>1. Init => Fresh
  <2> SUFFICES ASSUME Init PROVE Fresh
    OBVIOUS
  <2>1. ask = "none" /\ ~conn.active
    BY DEF Init, ConnInit
  <2>2. "none" \notin Profiles
    BY NamesApart
  <2> QED BY <2>1, <2>2 DEF Fresh, RetryIsFresh
<1>2. IInv /\ Fresh /\ [Next]_vars => Fresh'
  BY FreshStep
<1>3. Fresh => RetryIsFresh
  BY DEF Fresh
<1> QED BY <1>1, <1>2, <1>3, InductiveInvariant, PTL DEF Spec
=============================================================================
