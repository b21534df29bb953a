------------------------------ MODULE BtEntity ------------------------------
(***************************************************************************)
(* The Bluetooth entities of the application (app_bt_management.c): one    *)
(* for each phone that may be connected.  An entity stays with the address *)
(* of its phone when it is freed, and is found again by that address.      *)
(*                                                                         *)
(* Below the entities is the host, a library: the links it has, the ones   *)
(* it was asked to close, and the profiles connected over them.            *)
(***************************************************************************)
EXTENDS Naturals, FiniteSets

CONSTANTS
    Phones,    \* their addresses
    MaxAg,     \* BT_MAX_AG_COUNT: 1 in the mode 1V1, 2 in the mode 1V2
    Profiles,  \* the profiles that are compiled in
    NoPhone

ASSUME EntityAssumption ==
    /\ MaxAg \in {1, 2}
    /\ Profiles \subseteq {"HFP", "A2DP", "AVRCP"}
    /\ NoPhone \notin Phones

VARIABLES
    link,     \* phone -> "none", "paging", "incoming" or "up"
    prof,     \* phone -> the profiles connected over its link
    closing,  \* the phones whose link the host was asked to close
    ent,      \* g_bt_app_entity_container
    auth      \* g_auth_st: auth_status # 0 with the address r_addr

hostVars == <<link, prof, closing>>

Ids == 0 .. 1
Ags == 0 .. MaxAg - 1
NoId == 2

EntityStates == {"UNUSED", "SCANNING", "WORKING", "CONNECTING", "SNIFF", "STANDBY"}
EntityEvents == {"INVALID", "ENABLE_COMPLETE", "BOTH_SCANNING", "DISCONNECTED",
                 "DISCONN_CONN", "CONNECTED"}
ConnectFlags == {"CONN_PENDING", "SCAN_PENDING", "DISCONN_PENDING",
                 "RECONNECTING", "RECONN_FAILED"}
Reasons == {"zero", "timeout", "other"}  \* "timeout": 0x08 and 0x22

Entities == [used: BOOLEAN, handle: BOOLEAN, addr: Phones \cup {NoPhone},
             state: EntityStates, event: EntityEvents,
             flags: SUBSET (ConnectFlags \cup Profiles), work: BOOLEAN,
             reason: Reasons, fails: Nat, mac: BOOLEAN, wrap: BOOLEAN]

FreeEntity == [used |-> FALSE, handle |-> FALSE, addr |-> NoPhone,
               state |-> "UNUSED", event |-> "INVALID", flags |-> {},
               work |-> FALSE, reason |-> "zero", fails |-> 0,
               mac |-> FALSE, wrap |-> FALSE]

Up(a) == a \in Phones /\ link[a] = "up"
LinkCount == Cardinality({a \in Phones : link[a] = "up"})

-----------------------------------------------------------------------------
(* The container, as functions of its value E. *)

Find(E, a) ==
    IF \E i \in Ags : E[i].addr = a
    THEN CHOOSE i \in Ags : E[i].addr = a /\ \A j \in Ags : E[j].addr = a => i <= j
    ELSE NoId

Alloc(E) == IF E[0].used /\ MaxAg = 2 THEN 1 ELSE 0

Attach(E, i, handle, a, reason) ==
    [E EXCEPT ![i].used = TRUE, ![i].handle = handle, ![i].addr = a,
              ![i].reason = reason]

Free(E, i, reason) ==
    [E EXCEPT ![i].used = FALSE, ![i].handle = FALSE, ![i].flags = {},
              ![i].work = FALSE, ![i].reason = reason]

Bind(E, a) ==
    Attach(E, IF Find(E, a) # NoId THEN Find(E, a) ELSE Alloc(E), TRUE, a, "zero")

SetEvent(E, a, event) ==
    IF Find(E, a) = NoId THEN E ELSE [E EXCEPT ![Find(E, a)].event = event]

SetFlags(E, a, F) ==
    IF Find(E, a) = NoId THEN E ELSE [E EXCEPT ![Find(E, a)].flags = @ \cup F]

ClearFlags(E, a, F) ==
    IF Find(E, a) = NoId THEN E ELSE [E EXCEPT ![Find(E, a)].flags = @ \ F]

SetWork(E, a, work) ==
    IF Find(E, a) = NoId THEN E ELSE [E EXCEPT ![Find(E, a)].work = work]

\* The link of a is gone.  The failure of an authentication frees the entity
\* whatever happened; otherwise the phone is to be connected again after a
\* time-out, when the link was closed for that, or while it is reconnecting.
FreeByAddr(E, a, reason) ==
    LET i == Find(E, a)
        again == \/ reason = "timeout"
                 \/ E[i].event = "DISCONN_CONN"
                 \/ "RECONNECTING" \in E[i].flags
        G == IF auth.status /\ auth.addr = a THEN Free(E, i, reason)
             ELSE IF again
                  THEN [Attach(E, i, FALSE, a, reason) EXCEPT ![i].flags =
                           @ \cup (IF reason = "timeout" THEN {"RECONNECTING"} ELSE {})]
             ELSE IF E[i].state # "CONNECTING" THEN Free(E, i, reason) ELSE E
    IN  IF i = NoId THEN E ELSE SetEvent(G, a, "DISCONNECTED")

AuthAfterFree(E, a) ==
    IF auth.status /\ auth.addr = a /\ Find(E, a) # NoId
    THEN [auth EXCEPT !.status = FALSE] ELSE auth

AnyFlag(E, F) == \E i \in Ags : E[i].flags \cap F # {}

ClearAll(E, F) ==
    [i \in Ids |-> IF i \in Ags THEN [E[i] EXCEPT !.flags = @ \ F] ELSE E[i]]

-----------------------------------------------------------------------------
(* Closing a link, as a part of the steps that do it. *)

\* Mutant: the entity is freed when the link is asked to be closed.
DisconnectLink_FreesAtOnce(E, i) ==
    /\ closing' = IF Up(E[i].addr) THEN closing \cup {E[i].addr} ELSE closing
    /\ ent' = Free(E, i, "zero")

DisconnectLink(E, i) ==
    IF Up(E[i].addr)
    THEN /\ closing' = closing \cup {E[i].addr}
         /\ ent' = [E EXCEPT ![i].flags = @ \cup {"DISCONN_PENDING"}]
    ELSE /\ ent' = Free(E, i, "zero")
         /\ UNCHANGED closing

\* bt_app_disconnect_connect_acl: close the link to connect again.
DisconnectToReconnect(a) ==
    IF Up(a) /\ Find(ent, a) # NoId
    THEN DisconnectLink(SetEvent(ent, a, "DISCONN_CONN"), Find(ent, a))
    ELSE UNCHANGED <<closing, ent>>
=============================================================================
