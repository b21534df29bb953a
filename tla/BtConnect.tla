----------------------------- MODULE BtConnect ------------------------------
(***************************************************************************)
(* Connecting to a phone (app_bt_connect.c).  One attempt is made at a     *)
(* time; bt_connect_scheduler takes one step of it on each pass of the     *)
(* main loop.  The host reports what happens through one variable, the     *)
(* last event: the scheduler looks at it at the start of every pass, and   *)
(* it stays until something writes over it.                                *)
(*                                                                         *)
(* The time of a step is only whether it is over (expired).                *)
(***************************************************************************)
EXTENDS BtEntity

CONSTANTS
    Refused    \* the requests the host may refuse: "page", "auth", "encrypt"

MaxInnerCount == 3  \* MAX_INNER_CONN_COUNT

VARIABLES
    conn,      \* g_conn_st and the static variables of the scheduler
    ask        \* the request for conn.addr that the host has not answered yet

connVars == <<conn, ask>>

WaitStates == {"WAIT_ACL", "WAIT_AUTH", "WAIT_ENCYPTED", "WAIT_SDP", "WAIT_HFP",
               "WAIT_A2DP", "WAIT_AVRCP", "WAIT_DISCONNECTED"}
ConnStates == WaitStates \cup
    {"START", "ACL_FAIL", "ACL_CONNECTED", "AUTH_FAIL", "AUTH_SUCCESS",
     "ENCYPT_FAIL", "ENCYPTED", "KEY_MISSING", "LOW_RESOURCES", "SDP_FAIL",
     "SDP_FINISHED", "HFP_FAIL", "HFP_CONNECTED", "A2DP_FAIL", "A2DP_CONNECTED",
     "AVRCP_FAIL", "AVRCP_CONNECTED", "END"}
ConnEvents == {"NULL", "ACL_FAIL", "ACL_CONNECTED", "AUTH_FAIL", "AUTH_SUCCESS",
               "ENCYPT_FAIL", "ENCYPTED", "SDP_FAIL", "SDP_FINISHED",
               "HFP_DISCONNECTED", "HFP_CONNECTED", "A2DP_DISCONNECTED",
               "A2DP_CONNECTED", "AVRCP_DISCONNECTED", "AVRCP_CONNECTED"}
Results == {"CONNECTING", "SUCCESS", "FAIL", "FALSE"}
Requests == {"auth", "encrypt", "sdp"} \cup Profiles

\* link: what g_conn_st.link points to, a link of the host or one that is gone.
\* cancel: whether a cancellation was sent and whether it was answered.
Conns == [active: BOOLEAN, link: {"none", "live", "stale"},
          addr: Phones \cup {NoPhone}, profile: SUBSET Profiles,
          event: ConnEvents, result: Results, state: ConnStates,
          cancel: {"none", "sent", "answered"}, expired: BOOLEAN,
          count: 0 .. MaxInnerCount + 1, s_result: Results]

ConnInit ==
    /\ conn = [active |-> FALSE, link |-> "none", addr |-> NoPhone, profile |-> {},
               event |-> "NULL", result |-> "FALSE", state |-> "START",
               cancel |-> "none", expired |-> TRUE, count |-> 0, s_result |-> "FALSE"]
    /\ ask = "none"

Waiting(p) == CASE p = "HFP" -> "WAIT_HFP" [] p = "A2DP" -> "WAIT_A2DP"
                [] p = "AVRCP" -> "WAIT_AVRCP"
Connected(p) == CASE p = "HFP" -> "HFP_CONNECTED" [] p = "A2DP" -> "A2DP_CONNECTED"
                  [] p = "AVRCP" -> "AVRCP_CONNECTED"
Disconnected(p) ==
    CASE p = "HFP" -> "HFP_DISCONNECTED" [] p = "A2DP" -> "A2DP_DISCONNECTED"
      [] p = "AVRCP" -> "AVRCP_DISCONNECTED"
Failed(p) == CASE p = "HFP" -> "HFP_FAIL" [] p = "A2DP" -> "A2DP_FAIL"
               [] p = "AVRCP" -> "AVRCP_FAIL"

-----------------------------------------------------------------------------
(* What the rest of the program calls, as functions of the value c of conn. *)

Request(c, a) ==
    IF c.active \/ c.link # "none" THEN [c EXCEPT !.result = "FALSE"]
    ELSE [c EXCEPT !.active = TRUE, !.addr = a, !.result = "CONNECTING",
                   !.state = "START", !.event = "NULL"]

\* An event that comes when no attempt is active is not kept: Request resets it.
SetConnEvent(c, a, event) ==
    IF c.active /\ a = c.addr THEN [c EXCEPT !.event = event] ELSE c

SetConnState(c, a, state) ==
    IF c.active /\ a = c.addr THEN [c EXCEPT !.state = state] ELSE c

\* The event, the state that waits for it, and the state it leads to.
Expected ==
    {<<"ACL_CONNECTED", "WAIT_ACL", "ACL_CONNECTED">>,
     <<"AUTH_SUCCESS", "WAIT_AUTH", "AUTH_SUCCESS">>,
     <<"AUTH_FAIL", "WAIT_AUTH", "AUTH_FAIL">>,
     <<"ENCYPTED", "WAIT_ENCYPTED", "ENCYPTED">>,
     <<"ENCYPT_FAIL", "WAIT_ENCYPTED", "ENCYPT_FAIL">>,
     <<"SDP_FINISHED", "WAIT_SDP", "SDP_FINISHED">>,
     <<"SDP_FAIL", "WAIT_SDP", "SDP_FAIL">>} \cup
    UNION {{<<Connected(p), Waiting(p), Connected(p)>>,
            <<Disconnected(p), Waiting(p), Failed(p)>>} : p \in Profiles}

\* A failed link ends the attempt in whatever state it is.
EventToState(event, state) ==
    IF event = "ACL_FAIL" THEN "ACL_FAIL"
    ELSE IF \E x \in Expected : x[1] = event /\ x[2] = state
         THEN (CHOOSE x \in Expected : x[1] = event /\ x[2] = state)[3]
         ELSE state

-----------------------------------------------------------------------------
(* The steps of the scheduler.  c is conn after the event was looked at. *)

Stay(c) == conn' = c /\ UNCHANGED <<link, closing, ent, auth, ask>>

Fail(c) == Stay([c EXCEPT !.state = "END", !.s_result = "FAIL"])

Succeed(c) == Stay([c EXCEPT !.state = "END", !.s_result = "SUCCESS"])

GiveUp(c) ==
    /\ conn' = [c EXCEPT !.state = "WAIT_DISCONNECTED"]
    /\ DisconnectToReconnect(c.addr)
    /\ UNCHANGED <<link, ask>>

Cancelled(c) ==
    IF c.cancel = "sent" THEN c ELSE [c EXCEPT !.cancel = "sent"]

\* A request over the link: refused, the step is taken again on the next pass.
AskLink(c, r, wait) ==
    /\ \/ /\ conn' = [c EXCEPT !.state = wait, !.count = 1]
          /\ ask' = r
       \/ /\ r \in Refused
          /\ conn' = c /\ UNCHANGED ask
    /\ UNCHANGED <<link, closing, ent, auth>>

\* Mutant: the failure that was answered stays to be read again.
Again_Stale(c, r, wait) ==
    /\ conn' = [c EXCEPT !.state = wait, !.count = @ + 1]
    /\ ask' = r
    /\ UNCHANGED <<link, closing, ent, auth>>

\* What a failure leads to: the same request again, or the end of the link.
Again(c, r, wait) ==
    /\ conn' = [c EXCEPT !.state = wait, !.event = "NULL", !.count = @ + 1]
    /\ ask' = r
    /\ UNCHANGED <<link, closing, ent, auth>>

TooOften(c) == c.expired \/ c.count >= MaxInnerCount

\* Connect the profile p, unless the phone has done so: e tells whether the
\* time that is left for it is over.
Connect(c, p, e) ==
    /\ IF p \notin prof[c.addr]
       THEN /\ conn' = [c EXCEPT !.state = Waiting(p), !.count = 1, !.expired = e]
            /\ ask' = p
       ELSE /\ conn' = [c EXCEPT !.state = Connected(p), !.profile = @ \ {p}]
            /\ UNCHANGED ask
    /\ UNCHANGED <<link, closing, ent, auth>>

Start(c) ==
    LET a == c.addr IN
    IF link[a] = "none"
    THEN \/ /\ conn' = [c EXCEPT !.link = "none", !.cancel = "none", !.expired = FALSE,
                                 !.s_result = "CONNECTING", !.state = "WAIT_ACL"]
            /\ link' = [link EXCEPT ![a] = "paging"]
            /\ UNCHANGED <<closing, ent, auth, ask>>
         \/ /\ "page" \in Refused
            /\ LET d == [c EXCEPT !.link = "none", !.cancel = "none"] IN
               IF c.count > MaxInnerCount THEN Fail(d)
               ELSE Stay([d EXCEPT !.count = @ + 1])
    ELSE Stay(Cancelled([c EXCEPT !.link = "live"]))

WaitAcl(c) ==
    IF ~c.expired THEN Stay(c)
    ELSE IF link[c.addr] = "none" THEN Fail([c EXCEPT !.link = "none"])
    ELSE Stay(Cancelled([c EXCEPT !.link = "live"]))

AclConnected(c) ==
    IF link[c.addr] = "none" THEN Fail([c EXCEPT !.link = "none", !.expired = FALSE])
    ELSE AskLink([c EXCEPT !.link = "live", !.expired = FALSE], "auth", "WAIT_AUTH")

AuthSuccess(c) == AskLink([c EXCEPT !.expired = FALSE], "encrypt", "WAIT_ENCYPTED")

Encypted(c) ==
    /\ conn' = [c EXCEPT !.expired = FALSE, !.count = 1, !.state = "WAIT_SDP"]
    /\ ask' = "sdp"
    /\ UNCHANGED <<link, closing, ent, auth>>

\* Mutant: an answer that does not come is waited for.
WaitLink_Forever(c) == Stay(c)

WaitLink(c) == IF c.expired THEN GiveUp(c) /\ UNCHANGED auth ELSE Stay(c)

\* With neither of the two profiles wanted, nothing happens here.
SdpFinished(c) ==
    LET d == [c EXCEPT !.expired = FALSE, !.count = 1]
        i == Find(ent, c.addr)
    IN  IF "HFP" \in c.profile /\ ~(i # NoId /\ ent[i].mac) THEN Connect(d, "HFP", FALSE)
        ELSE IF "A2DP" \in c.profile
             THEN Connect([d EXCEPT !.profile = @ \ {"HFP"}], "A2DP", FALSE)
        ELSE Stay(d)

\* The result of an attempt that only wanted HFP is kept in the wrong variable.
HfpConnected(c) ==
    LET d == [c EXCEPT !.state = "HFP_CONNECTED", !.profile = @ \ {"HFP"}] IN
    IF d.profile = {} THEN Stay([d EXCEPT !.state = "END", !.result = "SUCCESS"])
    ELSE IF "A2DP" \in d.profile THEN Connect(d, "A2DP", FALSE)
    ELSE Stay(d)

A2dpConnected(c) ==
    LET d == [c EXCEPT !.state = "A2DP_CONNECTED", !.profile = @ \ {"A2DP"}] IN
    IF "AVRCP" \in d.profile THEN Connect(d, "AVRCP", FALSE)
    ELSE IF d.profile = {} THEN Succeed(d)
    ELSE Stay(d)

AvrcpConnected(c) ==
    LET d == [c EXCEPT !.state = "AVRCP_CONNECTED", !.profile = @ \ {"AVRCP"}] IN
    IF d.profile = {} THEN Succeed(d) ELSE Stay(d)

ProfileConnected(c, p) ==
    CASE p = "HFP" -> HfpConnected(c) [] p = "A2DP" -> A2dpConnected(c)
      [] p = "AVRCP" -> AvrcpConnected(c)

WaitProfile(c, p) ==
    IF p \in prof[c.addr] THEN ProfileConnected(c, p) ELSE WaitLink(c)

WaitDisconnected(c) == IF Up(c.addr) THEN Stay(c) ELSE Fail(c)

KeyMissing(c) == GiveUp(c) /\ auth' = [status |-> TRUE, addr |-> c.addr]

LowResources(c) == GiveUp(c) /\ auth' = [auth EXCEPT !.status = TRUE]

AuthFail(c) ==
    IF TooOften(c) THEN KeyMissing(c) ELSE Again(c, "auth", "WAIT_AUTH")

EncyptFail(c) ==
    IF TooOften(c) THEN GiveUp(c) /\ UNCHANGED auth
    ELSE Again(c, "encrypt", "WAIT_ENCYPTED")

SdpFail(c) ==
    IF TooOften(c) THEN GiveUp(c) /\ UNCHANGED auth ELSE Again(c, "sdp", "WAIT_SDP")

ProfileFail(c, p) ==
    IF p \in prof[c.addr] THEN Stay([c EXCEPT !.state = Connected(p)])
    ELSE IF TooOften(c) THEN GiveUp(c) /\ UNCHANGED auth
    ELSE Again(c, p, Waiting(p))

\* The failure of AVRCP: the profiles that are still wanted come first, and the
\* event that tells of the failure is left where it is.
AvrcpFail(c) ==
    IF "AVRCP" \in prof[c.addr] THEN Stay([c EXCEPT !.state = "A2DP_CONNECTED"])
    ELSE IF TooOften(c) THEN GiveUp(c) /\ UNCHANGED auth
    ELSE IF "HFP" \in c.profile THEN Connect([c EXCEPT !.expired = FALSE], "HFP", FALSE)
    ELSE IF "A2DP" \in c.profile THEN Connect(c, "A2DP", c.expired)
    ELSE /\ conn' = [c EXCEPT !.state = "WAIT_AVRCP", !.count = @ + 1]
         /\ ask' = "AVRCP"
         /\ UNCHANGED <<link, closing, ent, auth>>

\* Mutant: the result is not handed over.
End_NoResult(c) ==
    /\ conn' = [c EXCEPT !.link = "none", !.active = FALSE, !.event = "NULL"]
    /\ ask' = "none"
    /\ UNCHANGED <<link, closing, ent, auth>>

\* An answer that comes later finds no attempt.
End(c) ==
    /\ conn' = [c EXCEPT !.result = c.s_result, !.link = "none", !.active = FALSE,
                         !.event = "NULL"]
    /\ ask' = "none"
    /\ UNCHANGED <<link, closing, ent, auth>>

-----------------------------------------------------------------------------
Attempt(c) ==
    \/ c.state = "START" /\ Start(c)
    \/ c.state = "WAIT_ACL" /\ WaitAcl(c)
    \/ c.state = "ACL_CONNECTED" /\ AclConnected(c)
    \/ c.state = "AUTH_SUCCESS" /\ AuthSuccess(c)
    \/ c.state = "ENCYPTED" /\ Encypted(c)
    \/ c.state \in {"WAIT_AUTH", "WAIT_ENCYPTED", "WAIT_SDP"} /\ WaitLink(c)
    \/ c.state = "SDP_FINISHED" /\ SdpFinished(c)
    \/ \E p \in Profiles :
         \/ c.state = Waiting(p) /\ WaitProfile(c, p)
         \/ c.state = Connected(p) /\ ProfileConnected(c, p)
         \/ c.state = Failed(p) /\ p # "AVRCP" /\ ProfileFail(c, p)
         \/ c.state = Failed(p) /\ p = "AVRCP" /\ AvrcpFail(c)
    \/ c.state = "WAIT_DISCONNECTED" /\ WaitDisconnected(c)
    \/ c.state = "ACL_FAIL" /\ Fail(c)
    \/ c.state = "KEY_MISSING" /\ KeyMissing(c)
    \/ c.state = "LOW_RESOURCES" /\ LowResources(c)
    \/ c.state = "AUTH_FAIL" /\ AuthFail(c)
    \/ c.state = "ENCYPT_FAIL" /\ EncyptFail(c)
    \/ c.state = "SDP_FAIL" /\ SdpFail(c)
    \/ c.state = "END" /\ End(c)

bt_connect_scheduler ==
    /\ IF conn.active
       THEN Attempt([conn EXCEPT !.state = EventToState(conn.event, conn.state)])
       ELSE UNCHANGED <<conn, ask, link, closing, ent, auth>>
    /\ UNCHANGED prof
=============================================================================
