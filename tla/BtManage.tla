------------------------------ MODULE BtManage ------------------------------
(***************************************************************************)
(* The management of the connections: bt_app_management_sched drives each  *)
(* entity (app_bt_management.c), and on the same pass of the main loop     *)
(* bt_connect_scheduler drives the attempt (Main.c).  Between two passes   *)
(* the host reports, through the callbacks of app_bt.c, what the phones    *)
(* and the links did.                                                      *)
(***************************************************************************)
EXTENDS BtConnect, Sequences

CONSTANTS
    Paired,         \* the phones of the environment, each stored once (app_env_key_stored)
    AutoCount,      \* conn_auto_count: attempts after the start
    RetryCount,     \* conn_retry_count: attempts after a time-out
    InquiryAlways,  \* app_env_check_inquiry_always()
    Macs,           \* the phones whose class makes mac_win_book 2
    SdpResults,     \* what a phone may tell of its profiles
    MayFail,        \* what the host may answer with a failure
    TellsFailure,   \* whether it tells of a link that could not be made
    LossReasons,    \* why a link is lost that nobody here closed
    ByPhone,        \* what the phones and the user do on their own account
    MaxSurprises    \* bound: how often that, a refusal or a loss happens

ASSUME ManageAssumption ==
    /\ Paired \in Seq(Phones)
    /\ \A i, j \in DOMAIN Paired : Paired[i] = Paired[j] => i = j
    /\ Macs \subseteq Phones
    /\ AutoCount \in Nat /\ RetryCount \in Nat
    /\ SdpResults \subseteq SUBSET Profiles
    /\ MayFail \subseteq Requests \cup {"page", "missing", "resources"}
    /\ TellsFailure \subseteq BOOLEAN
    /\ LossReasons \subseteq {"timeout", "other"}
    /\ ByPhone \subseteq {"call", "encrypt", "connect", "disconnect", "late", "play", "button"}
    /\ MaxSurprises \in Nat

VARIABLES
    turn,     \* whose turn it is on the pass: an entity's or the attempt's
    scan,     \* LMscan_Read_Scan_Enable(): "off", "page" or "both"
    retry,    \* conn_retry_next_time is still ahead
    tempId,   \* temp_id of bt_app_standby_procedure
    late,     \* the phone app_only_a2dp_hfp_link_to_scan_task waits for
    asked,    \* history: the phone for which an entity asked for an attempt last
    evicted,  \* history: the phones that lost their entity to another one
    surprises \* how often something was refused, lost or came unasked

manageVars == <<scan, retry, tempId, late, asked, evicted>>
vars == <<hostVars, ent, auth, connVars, turn, manageVars, surprises>>

\* A pass goes from the first entity to the attempt; the host is heard before it.
AttemptTurn == MaxAg

Max2(m, n) == IF m > n THEN m ELSE n

TypeOK ==
    /\ link \in [Phones -> {"none", "paging", "incoming", "up"}]
    /\ prof \in [Phones -> SUBSET Profiles]
    /\ closing \subseteq Phones
    /\ ent \in [Ids -> Entities]
    /\ \A i \in Ids : ent[i].fails <= Max2(AutoCount, RetryCount)
    /\ auth \in [status: BOOLEAN, addr: Phones \cup {NoPhone}]
    /\ conn \in Conns
    /\ ask \in Requests \cup {"none"}
    /\ turn \in 0 .. AttemptTurn
    /\ scan \in {"off", "page", "both"}
    /\ retry \in BOOLEAN /\ tempId \in Ids /\ late \in Phones \cup {NoPhone}
    /\ asked \in Phones \cup {NoPhone} /\ evicted \subseteq Phones
    /\ surprises \in 0 .. MaxSurprises

\* The host is enabled; the paired phones were attached before.
Init ==
    /\ link = [a \in Phones |-> "none"]
    /\ prof = [a \in Phones |-> {}]
    /\ closing = {}
    /\ ent = [i \in Ids |->
                LET E == IF i \in Ags THEN [FreeEntity EXCEPT !.event = "ENABLE_COMPLETE"]
                         ELSE FreeEntity
                IN  IF i + 1 \in DOMAIN Paired /\ i \in Ags
                    THEN [E EXCEPT !.used = TRUE, !.addr = Paired[i + 1]] ELSE E]
    /\ auth = [status |-> FALSE, addr |-> NoPhone]
    /\ ConnInit
    /\ turn = 0 /\ scan = "off" /\ retry = FALSE /\ tempId = 0 /\ late = NoPhone
    /\ asked = NoPhone /\ evicted = {} /\ surprises = 0

-----------------------------------------------------------------------------
(* The procedures of an entity, one for each of its states. *)

To(i, state) == ent' = [ent EXCEPT ![i].state = state]

ToOn(i, state) == ent' = [ent EXCEPT ![i].state = state, ![i].event = "INVALID"]

unused_procedure(i) ==
    /\ \/ ent[i].event = "ENABLE_COMPLETE" /\ ToOn(i, "STANDBY")
       \/ ent[i].event = "BOTH_SCANNING" /\ To(i, "SCANNING")
       \/ ent[i].event \notin {"ENABLE_COMPLETE", "BOTH_SCANNING"} /\ UNCHANGED ent
    /\ UNCHANGED <<hostVars, auth, connVars, manageVars>>

ScanIsDisallowed == LinkCount >= MaxAg

\* Pending work of an entity keeps the others from scanning.
BusyFlags == {"RECONNECTING", "SCAN_PENDING", "CONN_PENDING", "DISCONN_PENDING"}

\* E is the container after the event of i was looked at.
ScanOn(E, i) ==
    IF AnyFlag(E, BusyFlags) /\ "RECONNECTING" \in E[i].flags
    THEN /\ ent' = [E EXCEPT ![i].state = "STANDBY"]
         /\ UNCHANGED scan
    ELSE IF AnyFlag(E, BusyFlags) /\ (LinkCount > 0 \/ scan # "off")
    THEN ent' = E /\ UNCHANGED scan
    ELSE IF ScanIsDisallowed
    THEN /\ ent' = [ClearAll(E, {"SCAN_PENDING"}) EXCEPT ![i].state = "STANDBY"]
         /\ scan' = "off"
    ELSE LET on == IF InquiryAlways \/ ent[i].event = "BOTH_SCANNING" THEN "both" ELSE "page"
             F == IF on = "both" THEN ClearAll(E, {"RECONN_FAILED"}) ELSE E
         IN  /\ ent' = [F EXCEPT ![i].event = "INVALID",
                                 ![i].flags = @ \cup {"SCAN_PENDING"}]
             /\ scan' = on

scanning_procedure(i) ==
    /\ \/ /\ ent[i].event = "CONNECTED"
          /\ ent' = [ClearAll(ent, {"SCAN_PENDING"}) EXCEPT
                        ![i].event = "INVALID", ![i].state = "STANDBY"]
          /\ scan' = IF ScanIsDisallowed THEN "off" ELSE scan
       \/ /\ ent[i].event = "DISCONN_CONN"
          /\ To(i, "STANDBY")
          /\ UNCHANGED scan
       \/ /\ ent[i].event = "BOTH_SCANNING"
          /\ ScanOn([ent EXCEPT ![i].flags = @ \ {"SCAN_PENDING"}], i)
       \/ /\ ent[i].event \notin {"CONNECTED", "DISCONN_CONN", "BOTH_SCANNING"}
          /\ ScanOn(ent, i)
    /\ UNCHANGED <<hostVars, auth, connVars, retry, tempId, late, asked, evicted>>

\* Mutant: the attempt of another phone is not looked at.
Blocked_NoPending(i) ==
    retry \/ (LinkCount = 0 /\ tempId = i /\ ent[1 - i].state = "STANDBY")

\* An attempt is going on or it is too early; with no link at all the phones take turns.
Blocked(i) ==
    \/ AnyFlag(ent, {"CONN_PENDING"}) \/ retry
    \/ LinkCount = 0 /\ tempId = i /\ ent[1 - i].state = "STANDBY"

\* Mutant: one attempt too many.
TryAgain_OnceMore(i) ==
    ent[i].fails <= IF ent[i].reason = "zero" THEN AutoCount ELSE RetryCount

TryAgain(i) == ent[i].fails < IF ent[i].reason = "zero" THEN AutoCount ELSE RetryCount

\* Mutant: a phone that was given up stays in use.
GivenUp_InUse(E, i) == [E EXCEPT ![i].flags = {"RECONN_FAILED"}]

GivenUp(E, i) ==
    [Free(E, i, "zero") EXCEPT ![i].fails = 0, ![i].flags = {"RECONN_FAILED"}]

\* A phone with no link: ask for an attempt, or give the phone up.
Reconnect(i) ==
    IF Blocked(i) THEN UNCHANGED <<ent, conn, retry, tempId, asked>>
    ELSE /\ tempId' = IF LinkCount = 0 THEN i ELSE tempId
         /\ IF TryAgain(i)
            THEN /\ ent' = [ent EXCEPT ![i].state = "CONNECTING",
                              ![i].flags = @ \cup {"RECONNECTING", "CONN_PENDING"}]
                 /\ conn' = Request(conn, ent[i].addr)
                 /\ asked' = ent[i].addr
                 /\ retry' = TRUE
            ELSE /\ ent' = GivenUp(ent, i)
                 /\ UNCHANGED <<conn, retry, asked>>

AllConnected(E, i) == Profiles \subseteq E[i].flags

standby_procedure(i) ==
    /\ \/ /\ ~ent[i].used
          /\ ToOn(i, "SCANNING")
          /\ UNCHANGED <<closing, conn, retry, tempId, asked>>
       \/ /\ ent[i].used
          /\ AnyFlag(ent, {"DISCONN_PENDING"})
          /\ UNCHANGED <<ent, closing, conn, retry, tempId, asked>>
       \/ /\ ent[i].used
          /\ ~AnyFlag(ent, {"DISCONN_PENDING"})
          /\ \/ /\ ent[i].event = "BOTH_SCANNING"
                /\ DisconnectLink(ent, i)
                /\ UNCHANGED <<conn, retry, tempId, asked>>
             \/ /\ ent[i].event # "BOTH_SCANNING"
                /\ UNCHANGED closing
                /\ IF ~ent[i].handle /\ ent[i].addr # NoPhone
                   THEN Reconnect(i)
                   ELSE /\ ent' = IF ent[i].work \/ AllConnected(ent, i)
                                  THEN [ent EXCEPT ![i].flags = @ \ {"SCAN_PENDING"},
                                         ![i].state = IF ent[i].work THEN "WORKING" ELSE "SNIFF"]
                                  ELSE ent
                        /\ UNCHANGED <<conn, retry, tempId, asked>>
    /\ UNCHANGED <<link, prof, auth, ask, scan, late, evicted>>

working_procedure(i) ==
    LET E == IF ent[i].event = "DISCONNECTED"
             THEN [ent EXCEPT ![i].event = "INVALID", ![i].flags = @ \ {"DISCONN_PENDING"}]
             ELSE ent
    IN  /\ ent' = IF ent[i].event \in {"DISCONNECTED", "BOTH_SCANNING"} \/ ~ent[i].work
                  THEN [E EXCEPT ![i].state = "STANDBY"] ELSE E
        /\ UNCHANGED <<hostVars, auth, connVars, manageVars>>

\* The times at which the link is put to sleep are left out.
sniff_mode_procedure(i) ==
    LET E == IF ent[i].event = "DISCONNECTED"
             THEN [ent EXCEPT ![i].event = "INVALID", ![i].flags = @ \ {"DISCONN_PENDING"}]
             ELSE ent
    IN  /\ ent' = IF ent[i].event \in {"DISCONNECTED", "BOTH_SCANNING"} \/ ent[i].work
                  THEN [E EXCEPT ![i].state = "STANDBY"] ELSE E
        /\ UNCHANGED <<hostVars, auth, connVars, manageVars>>

connecting_procedure(i) ==
    LET E == CASE conn.result = "FAIL" ->
                    [ent EXCEPT ![i].state = "STANDBY", ![i].fails = @ + 1,
                                ![i].flags = @ \ {"CONN_PENDING"}]
               [] conn.result = "SUCCESS" ->
                    [ent EXCEPT ![i].state = "STANDBY", ![i].fails = 0,
                       ![i].flags = @ \ {"CONN_PENDING", "RECONNECTING", "RECONN_FAILED"}]
               [] OTHER ->
                    IF ent[i].event = "BOTH_SCANNING"
                    THEN [ent EXCEPT ![i].state = "STANDBY"] ELSE ent
    IN  /\ ent' = [E EXCEPT ![1 - i].flags = @ \ {"SCAN_PENDING"}]
        /\ UNCHANGED <<hostVars, auth, connVars, manageVars>>

bt_app_management_sched(i) ==
    \/ ent[i].state = "UNUSED" /\ unused_procedure(i)
    \/ ent[i].state = "SCANNING" /\ scanning_procedure(i)
    \/ ent[i].state = "STANDBY" /\ standby_procedure(i)
    \/ ent[i].state = "WORKING" /\ working_procedure(i)
    \/ ent[i].state = "SNIFF" /\ sniff_mode_procedure(i)
    \/ ent[i].state = "CONNECTING" /\ connecting_procedure(i)

\* The two parts of a pass of the main loop.
Manage ==
    /\ turn \in Ags
    /\ turn' = turn + 1
    /\ bt_app_management_sched(turn)

Schedule ==
    /\ turn = AttemptTurn /\ turn' = 0
    /\ bt_connect_scheduler
    /\ UNCHANGED manageVars

Loop == (Manage \/ Schedule) /\ UNCHANGED surprises

-----------------------------------------------------------------------------
(* What the host reports between two passes. *)

\* The phones whose entity, in use, belongs to another phone in E.
Evicted(E) ==
    {b \in Phones : \E i \in Ags : ent[i].used /\ ent[i].addr = b /\ E[i].addr # b}

\* A link is made (app_bt_conn_compl_wrap): the entity of the phone is bound to
\* it, and the class of the phone is kept unless it is being connected again.  With
\* all entities in use, the last one is taken from its phone (bt_app_entity_alloc).
LinkMade(a) ==
    LET E == Bind(ent, a)
        i == Find(E, a)
    IN  /\ link[a] \in {"paging", "incoming"}
        /\ link' = [link EXCEPT ![a] = "up"]
        /\ ent' = [E EXCEPT ![i].wrap = FALSE,
                     ![i].mac = IF "RECONNECTING" \in E[i].flags THEN @ ELSE a \in Macs]
        /\ conn' = SetConnEvent(conn, a, "ACL_CONNECTED")
        /\ evicted' = (evicted \cup Evicted(E)) \ {a}
        /\ UNCHANGED <<prof, closing, auth, ask, scan, retry, tempId, late, asked>>

\* A link could not be made, or was given up; what was asked over it has no answer.
LinkFailed(a) ==
    /\ link[a] \in {"paging", "incoming"}
    /\ link' = [link EXCEPT ![a] = "none"]
    /\ \E told \in TellsFailure :
         conn' = IF a # conn.addr THEN conn
                 ELSE [conn EXCEPT !.event = IF told THEN "ACL_FAIL" ELSE @,
                                   !.link = IF @ = "live" THEN "stale" ELSE @]
    /\ ask' = IF a = conn.addr THEN "none" ELSE ask
    /\ UNCHANGED <<prof, closing, ent, auth, manageVars>>

\* A phone that pages us.
Call(a) ==
    /\ "call" \in ByPhone
    /\ link[a] = "none" /\ scan # "off"
    /\ Cardinality({b \in Phones : link[b] # "none"}) < MaxAg
    /\ link' = [link EXCEPT ![a] = "incoming"]
    /\ UNCHANGED <<prof, closing, ent, auth, connVars, manageVars>>

\* Mutant: the last event outlives its link.
WithoutLink_KeepsEvent(c, a) ==
    IF a # c.addr THEN c ELSE [c EXCEPT !.link = IF @ = "live" THEN "stale" ELSE @]

WithoutLink(c, a) ==
    IF a # c.addr THEN c
    ELSE [c EXCEPT !.event = "NULL", !.link = IF @ = "live" THEN "stale" ELSE @]

\* The host may tell of the end of the stream (a2dp_stream_suspend_cb) or call
\* (sco_utils_disconnected) before the profile that carries it is down, or not at all.
EndOfStream(E, a, P) ==
    IF P \subseteq {"AVRCP"} THEN {E} ELSE {E, SetWork(E, a, FALSE)}

\* A link is gone (app_bt_disconn_wrap), and with it its profiles.
LinkLost(a, reason) ==
    /\ link[a] = "up"
    /\ link' = [link EXCEPT ![a] = "none"]
    /\ prof' = [prof EXCEPT ![a] = {}]
    /\ closing' = closing \ {a}
    /\ LET E == ClearFlags(ent, a, Profiles \cup {"DISCONN_PENDING"})
       IN  ent' \in {FreeByAddr(F, a, reason) : F \in EndOfStream(E, a, prof[a])}
    /\ auth' = AuthAfterFree(ent, a)
    /\ conn' = WithoutLink(conn, a)
    /\ ask' = IF a = conn.addr THEN "none" ELSE ask
    /\ UNCHANGED manageVars

\* app_bt_connected_wrap: all the profiles of a are connected.
ConnectedWrap(E, a) ==
    LET i == Find(E, a) IN
    IF i = NoId \/ E[i].wrap THEN E
    ELSE [E EXCEPT ![i].wrap = TRUE, ![i].event = "CONNECTED",
                   ![i].flags = @ \ {"RECONNECTING"}]

\* app_bt_profile_conn_wrap: with only one profile missing beside A2DP, the
\* phone counts as connected after a while.
ProfileUp(a, p) ==
    LET on == prof[a] \cup {p}
        E == SetFlags(ent, a, {p})
    IN  /\ prof' = [prof EXCEPT ![a] = on]
        /\ conn' = SetConnEvent(conn, a, Connected(p))
        /\ ent' = IF on = Profiles THEN ConnectedWrap(E, a) ELSE E
        /\ late' = IF on = Profiles THEN (IF ConnectedWrap(E, a) = E THEN late ELSE NoPhone)
                   ELSE IF "late" \in ByPhone /\ "A2DP" \in on
                           /\ Cardinality(Profiles \ on) = 1 THEN a ELSE late
        /\ UNCHANGED <<link, closing, auth, scan, retry, tempId, asked, evicted>>

ProfileDown(a, p) ==
    /\ prof' = [prof EXCEPT ![a] = @ \ {p}]
    /\ conn' = SetConnEvent(conn, a, Disconnected(p))
    /\ ent' \in EndOfStream(ClearFlags(ent, a, {p}), a, {p})
    /\ UNCHANGED <<link, closing, auth, manageVars>>

\* The answer to the request of the attempt.
Answer(event) ==
    /\ conn' = SetConnEvent(conn, conn.addr, event)
    /\ UNCHANGED <<hostVars, ent, auth, manageVars>>

Succeeds ==
    \/ ask = "auth" /\ Answer("AUTH_SUCCESS")
    \/ ask = "encrypt" /\ Answer("ENCYPTED")
    \/ /\ ask = "sdp"
       /\ \E P \in SdpResults :
            conn' = [conn EXCEPT !.event = "SDP_FINISHED", !.profile = @ \cup P]
       /\ UNCHANGED <<hostVars, ent, auth, manageVars>>
    \/ ask \in Profiles /\ ProfileUp(conn.addr, ask)

Fails ==
    /\ ask \in MayFail
    /\ \/ ask = "auth" /\ Answer("AUTH_FAIL")
       \/ ask = "encrypt" /\ Answer("ENCYPT_FAIL")
       \/ ask = "sdp" /\ Answer("SDP_FAIL")
       \/ ask \in Profiles /\ ProfileDown(conn.addr, ask)

\* The link key is missing, or the phone has no room for another link.
Refuses(what, state) ==
    /\ ask = "auth" /\ what \in MayFail
    /\ conn' = SetConnState(conn, conn.addr, state)
    /\ UNCHANGED <<hostVars, ent, auth, manageVars>>

HostAnswers(Answers) ==
    /\ ask # "none" /\ Up(conn.addr)
    /\ ask' = "none"
    /\ Answers

\* What a phone does on its own account.
PhoneEncrypts(a) ==
    /\ "encrypt" \in ByPhone /\ link[a] = "up"
    /\ conn' = SetConnEvent(conn, a, "ENCYPTED")
    /\ UNCHANGED <<hostVars, ent, auth, ask, manageVars>>

PhoneConnects(a, p) ==
    /\ "connect" \in ByPhone /\ link[a] = "up" /\ p \notin prof[a]
    /\ ProfileUp(a, p)
    /\ ask' = IF a = conn.addr /\ ask = p THEN "none" ELSE ask

PhoneDisconnects(a, p) ==
    /\ "disconnect" \in ByPhone /\ p \in prof[a]
    /\ ProfileDown(a, p)
    /\ UNCHANGED ask

Play(a, on) ==
    /\ "play" \in ByPhone /\ "A2DP" \in prof[a]
    /\ ent' = SetWork(ent, a, on)
    /\ UNCHANGED <<hostVars, auth, connVars, manageVars>>

\* a2dp_time_out_to_scan: nothing tells it whether the link is still there.
LateConnected ==
    /\ late # NoPhone
    /\ late' = NoPhone
    /\ ent' = ConnectedWrap(ent, late)
    /\ UNCHANGED <<hostVars, auth, connVars, scan, retry, tempId, asked, evicted>>

CancelAnswered ==
    /\ conn.cancel = "sent"
    /\ conn' = [conn EXCEPT !.cancel = "answered"]
    /\ UNCHANGED <<hostVars, ent, auth, ask, manageVars>>

\* app_button_match_action
MatchButton ==
    /\ "button" \in ByPhone
    /\ ent' = [i \in Ids |-> IF i \in Ags THEN [ent[i] EXCEPT !.event = "BOTH_SCANNING"]
                             ELSE ent[i]]
    /\ UNCHANGED <<hostVars, auth, connVars, manageVars>>

\* The times of the attempt and of the next one run out.
Expire ==
    /\ conn.state \in WaitStates \ {"WAIT_DISCONNECTED"} /\ ~conn.expired
    /\ conn' = [conn EXCEPT !.expired = TRUE]
    /\ UNCHANGED <<hostVars, ent, auth, ask, manageVars>>

RetryExpires ==
    /\ retry /\ retry' = FALSE
    /\ UNCHANGED <<hostVars, ent, auth, connVars, scan, tempId, late, asked, evicted>>

\* What the program waits for.  A failure is one of the answers: the attempt counts them.
Awaited ==
    /\ \/ \E a \in Phones :
            \/ LinkMade(a) \/ LinkFailed(a)
            \/ a \in closing /\ \E reason \in {"timeout", "other"} : LinkLost(a, reason)
       \/ HostAnswers(Succeeds \/ Fails)
       \/ CancelAnswered \/ LateConnected \/ Expire \/ RetryExpires
    /\ UNCHANGED surprises

\* Refusals, losses, and what nobody here asked for.
Surprise ==
    /\ surprises < MaxSurprises /\ surprises' = surprises + 1
    /\ \/ HostAnswers(Refuses("missing", "KEY_MISSING") \/ Refuses("resources", "LOW_RESOURCES"))
       \/ \E a \in Phones :
            \/ a \notin closing /\ \E reason \in LossReasons : LinkLost(a, reason)
            \/ Call(a) \/ PhoneEncrypts(a)
            \/ \E p \in Profiles : PhoneConnects(a, p) \/ PhoneDisconnects(a, p)
            \/ \E on \in BOOLEAN : Play(a, on)
       \/ MatchButton

Host == turn = 0 /\ UNCHANGED turn /\ (Awaited \/ Surprise)

Next == Loop \/ Host

Spec == Init /\ [][Next]_vars

InTurn == turn = 0 /\ UNCHANGED <<turn, surprises>>

\* The main loop goes on, times pass, and the host, which runs once on every
\* pass of the main loop, does in the end what it was asked to.
Fairness ==
    /\ WF_vars(Loop)
    /\ SF_vars(InTurn /\ Expire)
    /\ SF_vars(InTurn /\ RetryExpires)
    /\ \A a \in Phones :
         /\ SF_vars(InTurn /\ (LinkMade(a) \/ LinkFailed(a)))
         /\ SF_vars(InTurn /\ a \in closing /\ LinkLost(a, "other"))

FairSpec == Spec /\ Fairness

-----------------------------------------------------------------------------
(* Properties. *)

\* Every phone that has a link has an entity, used and bound to the link, so that its
\* loss is noticed (bt_app_entity_bind, bt_app_entity_free_by_addr).  The exception is a
\* phone whose entity was given to another one since, all of them being in use
\* (bt_app_entity_alloc).
LinkHasEntity ==
    \A a \in Phones : link[a] = "up" =>
        \/ \E i \in Ags : ent[i].addr = a /\ ent[i].used /\ ent[i].handle
        \/ a \in evicted

\* An entity that waits for a result gets one: of the attempt that it asked for or, if
\* that was refused (FALSE), of the attempt that was going on (bt_connection_req,
\* get_connection_state, bt_app_connecting_procedure).  The exception is an attempt that
\* only wanted HFP: it hands over CONNECTING (HfpConnected), and an entity that was refused
\* meanwhile goes on waiting.
WaiterIsAnswered ==
    \A i \in Ags : ent[i].state = "CONNECTING" /\ "CONN_PENDING" \in ent[i].flags =>
        IF conn.active THEN conn.addr = asked \/ conn.result \in {"FALSE", "SUCCESS"}
        ELSE \/ conn.result \in {"SUCCESS", "FAIL"}
             \/ "HFP" \in Profiles /\ conn.result = "CONNECTING"

\* Two entities never wait for an attempt at once (BT_CONNECT_STATE_CONN_PENDING).
OneWaits ==
    \A i, j \in Ags : "CONN_PENDING" \in ent[i].flags \cap ent[j].flags => i = j

\* Authentication is never asked for over a link that is gone, nor encryption when it is
\* asked for the first time: g_conn_st.link is looked up once and used again after later
\* events (hci_acl_send_auth_req).  An encryption that the host refused is asked for again
\* on the next pass, in CONN_AUTH_SUCCESS, with a pointer that may be old by then.
LinkIsLive ==
    [][ask' # ask /\ (ask' = "auth" \/ (ask' = "encrypt" /\ conn.state = "WAIT_AUTH"))
          => conn'.link = "live"]_vars

\* A request that was made again is not judged by the failure of the one before.  AVRCP is
\* the exception: its failure is not taken back when it is connected again.
FailureOf(r) == CASE r = "auth" -> "AUTH_FAIL" [] r = "encrypt" -> "ENCYPT_FAIL"
                  [] r = "sdp" -> "SDP_FAIL" [] r \in Profiles -> Disconnected(r)
RetryIsFresh ==
    ask \in Requests \ {"AVRCP"} /\ conn.active /\ conn.count > 1 =>
        conn.event # FailureOf(ask)

\* No answer is waited for forever: an attempt ends, or it stays where it finds the link
\* up without having been told (WAIT_ACL, when the last event was written over) or has
\* nothing left to ask for.  The event ACL_FAIL is the exception: nothing clears it, and it
\* leads away from the end on every pass.
AttemptEnds ==
    conn.active ~> \/ ~conn.active
                   \/ Up(conn.addr) /\ conn.state \notin WaitStates \ {"WAIT_ACL"}
                   \/ conn.event = "ACL_FAIL"

\* The match button takes an entity away from its attempt and leaves the flag of the
\* attempt set, which keeps every phone from being connected again.
Abandoned(i) == "CONN_PENDING" \in ent[i].flags /\ ent[i].state # "CONNECTING"

\* The link was lost when all profiles were connected and the attempt had not said so:
\* the entity keeps the handle, and nothing looks at a link that is gone.
Stranded(i) ==
    ent[i].handle /\ ~Up(ent[i].addr) /\ "RECONNECTING" \notin ent[i].flags

\* A phone without a link is connected again or given up, or the user has asked for
\* another one (bt_app_standby_procedure); unless an attempt hangs or is abandoned, or
\* the phone is stranded.
PhoneIsServed ==
    \A i \in Ags : ent[i].used /\ ~Up(ent[i].addr) ~>
        \/ Up(ent[i].addr) \/ ~ent[i].used \/ ent[i].state = "SCANNING"
        \/ conn.event = "ACL_FAIL" \/ Stranded(i) \/ \E j \in Ags : Abandoned(j)
=============================================================================
