------------------------------ MODULE CiSession ------------------------------
(***************************************************************************)
(* The session layer of the common-interface stack (ci.c) with the         *)
(* resources it serves (CI_ResMgr.c, CI_AppInfo.c, CI_CaSupport.c,         *)
(* CI_DateTime.c, CI_MMI.c), for one slot.                                 *)
(*                                                                         *)
(* Four parties share the slot's CI_HANDLESTRUCT: the monitoring task,     *)
(* which parses what the module sends and inserts and removes the module,  *)
(* the user-interface thread, which runs the CI_MMI_* calls, the PMT       *)
(* thread, which runs CaSupport_SendPMT, and the module at the other end   *)
(* of the link.  SPDUs travel in order and are not lost (module CiLink     *)
(* models the link); a slot reset or a removal throws them away.           *)
(***************************************************************************)
EXTENDS Integers, Sequences, FiniteSets

CONSTANTS
  LastSession,   \* MAX_CI_SESSIONS - 1: the highest session number
  Registered,    \* the resources in g_CiResources
  Unknown,       \* resources a module may ask for that are not registered
  Commands,      \* what the user may do: enter a menu, leave it, answer
  MaxToHost,     \* bound: SPDUs from the module on their way
  MaxToCam,      \* bound: SPDUs to the module on their way
  CrossingClose  \* may the module close a session the host is about to close?

None == "none"
ResourceIds == {"ResMgr", "AppInfo", "CaSupport", "DateTime", "MMI", "AppInfoV2"}

ASSUME ConstantsAssumption ==
  /\ LastSession \in Nat \ {0}
  /\ Registered \subseteq ResourceIds
  /\ None \notin Unknown
  /\ Unknown \cap ResourceIds = {}
  /\ Commands \subseteq {"ENTERMENU", "MMICLOSE", "ANSWER"}
  /\ MaxToHost \in Nat \ {0}
  /\ MaxToCam \in Nat \ {0}
  /\ CrossingClose \in BOOLEAN

Session == 0 .. LastSession
Resource == Registered \cup Unknown

\* AppInfo and AppInfoV2 are different resources with the same functions.
Handlers == {"ResMgr", "AppInfo", "CaSupport", "DateTime", "MMI"}
Handler(r) == IF r = "AppInfoV2" THEN "AppInfo" ELSE r

\* The objects that the functions of a resource tell apart (TAG_T_*).
Objects == [ResMgr    |-> {"PROFILE", "PROFILE_ENQ"},
            AppInfo   |-> {"APPINFO", "REQUESTRESET"},
            CaSupport |-> {"CA_INFO"},
            DateTime  |-> {"DATETIMEENQ"},
            MMI       |-> {"MENU", "LIST", "ENQ", "DISPLAYCONTROL", "CLOSEMMI"}]
Replies == {"PROFILE_ENQ", "PROFILE_CHANGE", "PROFILE", "APPINFO_ENQ",
            "CAINFO_ENQ", "DATETIME", "DISPLAYREPLY",
            "ENTERMENU", "MMICLOSE", "ANSWER", "CAPMT"}
FromCam == {"PROFILE", "PROFILE_ENQ", "APPINFO", "REQUESTRESET", "CA_INFO",
            "DATETIMEENQ", "MENU", "LIST", "ENQ", "DISPLAYCONTROL", "CLOSEMMI"}

(***************************************************************************)
(* SPDUs.  "status" is 0 for granted, 1 for the refusal code 0xF0.  On     *)
(* data from the module, "r" is the resource it is meant for: the wire     *)
(* does not carry it, the host goes by the session number alone.           *)
(***************************************************************************)
Tags == {"OPEN_REQUEST", "OPEN_RESPONSE", "CLOSE_REQUEST", "CLOSE_RESPONSE", "DATA"}
Spdu == [tag : Tags, s : Session, r : Resource \cup {None},
         status : {0, 1}, d : Replies \cup FromCam \cup {None}]

OpenRequest(r) ==
  [tag |-> "OPEN_REQUEST", s |-> 0, r |-> r, status |-> 0, d |-> None]
OpenResponse(st, r, s) ==
  [tag |-> "OPEN_RESPONSE", s |-> s, r |-> r, status |-> st, d |-> None]
CloseRequest(s) ==
  [tag |-> "CLOSE_REQUEST", s |-> s, r |-> None, status |-> 0, d |-> None]
CloseResponse(s) ==
  [tag |-> "CLOSE_RESPONSE", s |-> s, r |-> None, status |-> 0, d |-> None]
Data(s, d) ==
  [tag |-> "DATA", s |-> s, r |-> None, status |-> 0, d |-> d]

VARIABLES
  \* CI_HANDLESTRUCT of the slot
  fSlotInUse,   \* CiSessions[s].fSlotInUse
  pResource,    \* CiSessions[s].pResource
  wSessionID,   \* CiSessions[s].wSessionID
  session,      \* session[h]: w/dw<h>Session, 0 for none
  interval,     \* dwDateTimeIntervallTicks # 0
  sendReady,    \* IOBuffer_Host2CI.wBufferSize has been negotiated
  \* the rest of the host
  started,      \* the slot is in state CISTART
  atRoot,       \* g_u8MMI_CurrentMenuLevel = WAV_CI_MMI_ROOT_LEVEL
  ui,           \* the user-interface thread: its step, the session number
                \* it has read and what it is about to send
  pmt,          \* the PMT thread: its step and the session number
  \* the module
  alive,        \* the module keeps a transport connection
  cam,          \* cam[s]: the resource the module has open as session s
  asked,        \* resources the module has requested and not been answered
  closing,      \* sessions the module has asked the host to close
  ending,       \* MMI sessions on which the module has sent CLOSEMMI
  \* the link
  toHost, toCam

hostVars == <<fSlotInUse, pResource, wSessionID, session, interval, sendReady>>
camVars == <<alive, cam, asked, closing, ending>>
threadVars == <<ui, pmt>>
vars == <<hostVars, started, atRoot, threadVars, camVars, toHost, toCam>>

Idle == [pc |-> "idle", s |-> 0, d |-> None]
UiPc == {"idle", "test", "read", "send", "set"}

TypeOK ==
  /\ fSlotInUse \in [Session -> BOOLEAN]
  /\ pResource \in [Session -> Registered \cup {None}]
  /\ wSessionID \in [Session -> Session]
  /\ session \in [Handlers -> Session]
  /\ interval \in BOOLEAN
  /\ sendReady \in BOOLEAN
  /\ started \in BOOLEAN
  /\ atRoot \in BOOLEAN
  /\ ui \in [pc : UiPc, s : Session, d : Replies \cup {None}]
  /\ pmt \in [pc : {"idle", "read", "send"}, s : Session]
  /\ alive \in BOOLEAN
  /\ cam \in [Session -> Resource \cup {None}]
  /\ asked \in SUBSET Resource
  /\ closing \in SUBSET Session
  /\ ending \in SUBSET Session
  /\ toHost \in Seq(Spdu)
  /\ toCam \in Seq(Spdu)

NoSessions == [s \in Session |-> None]

\* CI_Init clears everything; no module is in the slot.  The initialiser of
\* g_u8MMI_CurrentMenuLevel names only its first element, so that the second
\* slot does not start at the root level: both cases are initial states.
Init ==
  /\ fSlotInUse = [s \in Session |-> FALSE]
  /\ pResource = NoSessions
  /\ wSessionID = [s \in Session |-> 0]
  /\ session = [h \in Handlers |-> 0]
  /\ interval = FALSE
  /\ sendReady = FALSE
  /\ started = FALSE
  /\ atRoot \in BOOLEAN
  /\ ui = Idle
  /\ pmt = [pc |-> "idle", s |-> 0]
  /\ alive = FALSE
  /\ cam = NoSessions
  /\ asked = {}
  /\ closing = {}
  /\ ending = {}
  /\ toHost = <<>>
  /\ toCam = <<>>

-----------------------------------------------------------------------------
(***************************************************************************)
(* The monitoring task: Parse_SPDU and the functions of the resources.     *)
(***************************************************************************)

\* Everything the host sends goes through SendTransportPacket, which drops
\* it while no buffer size has been negotiated.
Send(spdus) == toCam' = IF sendReady THEN toCam \o spdus ELSE toCam

\* MMI_Connect refuses a second session; the other resources accept.
Accepts(r) == Handler(r) = "MMI" => session["MMI"] = 0

\* What Connect sends on the new session.
Greeting(r, s) ==
  CASE Handler(r) = "ResMgr"    -> <<Data(s, "PROFILE_ENQ")>>
    [] Handler(r) = "AppInfo"   -> <<Data(s, "APPINFO_ENQ")>>
    [] Handler(r) = "CaSupport" -> <<Data(s, "CAINFO_ENQ")>>
    [] OTHER                    -> <<>>

\* Mutant: the search runs one too far.
FreeSessionsPast == {s \in 1 .. LastSession + 1 : s \in Session => ~fSlotInUse[s]}
FreeSessions == {s \in Session \ {0} : ~fSlotInUse[s]}

\* The session the loop stops at: the lowest that is free.
FirstFree == {s \in FreeSessions : \A t \in FreeSessions : s <= t}

tableVars == <<fSlotInUse, pResource, wSessionID, session, interval>>

OutOfSessions(r) ==
  /\ FreeSessions = {}
  /\ Send(<<OpenResponse(1, r, 0)>>)
  /\ UNCHANGED tableVars

\* Mutant: a request for an unknown resource is only logged.
UnknownResourceSilent(r) ==
  /\ FirstFree # {}
  /\ r \notin Registered
  /\ UNCHANGED <<tableVars, toCam>>
UnknownResource(r) ==
  /\ r \notin Registered
  /\ \E s \in FirstFree : Send(<<OpenResponse(1, r, s)>>)
  /\ UNCHANGED tableVars

\* Connect accepts: the session belongs to the resource.
Connected(r) ==
  /\ r \in Registered
  /\ Accepts(r)
  /\ \E s \in FirstFree :
        /\ wSessionID' = [wSessionID EXCEPT ![s] = s]
        /\ fSlotInUse' = [fSlotInUse EXCEPT ![s] = TRUE]
        /\ pResource' = [pResource EXCEPT ![s] = r]
        /\ session' = [session EXCEPT ![Handler(r)] = s]
        /\ Send(<<OpenResponse(0, r, s)>> \o Greeting(r, s))
  /\ interval' = IF Handler(r) = "DateTime" THEN FALSE ELSE interval

\* Connect refuses: the grant that is already on its way is taken back.
\* Mutant: it is not.
RefusedQuietly(r) ==
  /\ r \in Registered
  /\ ~Accepts(r)
  /\ \E s \in FirstFree :
        /\ wSessionID' = [wSessionID EXCEPT ![s] = s]
        /\ Send(<<OpenResponse(0, r, s)>>)
  /\ UNCHANGED <<fSlotInUse, pResource, session, interval>>
Refused(r) ==
  /\ r \in Registered
  /\ ~Accepts(r)
  /\ \E s \in FirstFree :
        /\ wSessionID' = [wSessionID EXCEPT ![s] = s]
        /\ Send(<<OpenResponse(0, r, s), OpenResponse(1, r, s)>>)
  /\ UNCHANGED <<fSlotInUse, pResource, session, interval>>

ParseOpenRequest(r) ==
  /\ OutOfSessions(r) \/ UnknownResource(r) \/ Connected(r) \/ Refused(r)
  /\ toHost' = Tail(toHost)
  /\ UNCHANGED <<sendReady, atRoot, camVars>>

\* The resource that owns session s, if any, and its Close: CaSupport_Close
\* and MMI_Close reset their session variable, the others leave theirs.  The
\* message of MMI_Close takes the menu back to the root level.
Owner(s) == IF pResource[s] = None THEN None ELSE Handler(pResource[s])

\* Mutants: the resource pointer stays; MMI_Close, or CaSupport_Close, does
\* not reset its session variable.
CloseSessionHalf(s) ==
  /\ fSlotInUse' = [fSlotInUse EXCEPT ![s] = FALSE]
  /\ session' = [h \in Handlers |->
                   IF h = Owner(s) /\ h \in {"CaSupport", "MMI"} THEN 0 ELSE session[h]]
  /\ atRoot' = (atRoot \/ Owner(s) = "MMI")
  /\ UNCHANGED pResource
CloseSessionKeepingMmi(s) ==
  /\ pResource' = [pResource EXCEPT ![s] = None]
  /\ fSlotInUse' = [fSlotInUse EXCEPT ![s] = FALSE]
  /\ session' = [h \in Handlers |->
                   IF h = Owner(s) /\ h = "CaSupport" THEN 0 ELSE session[h]]
  /\ atRoot' = (atRoot \/ Owner(s) = "MMI")
CloseSession(s) ==
  /\ pResource' = [pResource EXCEPT ![s] = None]
  /\ fSlotInUse' = [fSlotInUse EXCEPT ![s] = FALSE]
  /\ session' = [h \in Handlers |->
                   IF h = Owner(s) /\ h \in {"CaSupport", "MMI"} THEN 0 ELSE session[h]]
  /\ atRoot' = (atRoot \/ Owner(s) = "MMI")

\* Mutant: the module gets no response.
ParseCloseRequestSilent(s) ==
  /\ CloseSession(s)
  /\ toHost' = Tail(toHost)
  /\ UNCHANGED <<wSessionID, interval, sendReady, camVars, toCam>>
ParseCloseRequest(s) ==
  /\ CloseSession(s)
  /\ Send(<<CloseResponse(s)>>)
  /\ toHost' = Tail(toHost)
  /\ UNCHANGED <<wSessionID, interval, sendReady, camVars>>

ParseCloseResponse(s) ==
  /\ CloseSession(s)
  /\ toHost' = Tail(toHost)
  /\ UNCHANGED <<wSessionID, interval, sendReady, camVars, toCam>>

\* The objects that are answered on the session they came on.
Reply(s, d) ==
  CASE d = "PROFILE"        -> <<Data(wSessionID[s], "PROFILE_CHANGE")>>
    [] d = "PROFILE_ENQ"    -> <<Data(wSessionID[s], "PROFILE")>>
    [] d = "DISPLAYCONTROL" -> <<Data(wSessionID[s], "DISPLAYREPLY")>>
    [] OTHER                -> <<>>

\* Objects that change nothing but what they store, or are answered.
DataAnswered(s, d) ==
  /\ d \in {"PROFILE", "PROFILE_ENQ", "APPINFO", "CA_INFO", "DISPLAYCONTROL", "LIST", "ENQ"}
  /\ Send(Reply(s, d))
  /\ toHost' = Tail(toHost)
  /\ UNCHANGED <<session, interval, atRoot, camVars>>

\* A date and time request starts the interval; it is answered at once if the
\* application has set the time before.
DataTimeEnquiry(s, d) ==
  /\ d = "DATETIMEENQ"
  /\ interval' = TRUE
  /\ \E known \in BOOLEAN :
        Send(IF known THEN <<Data(wSessionID[s], "DATETIME")>> ELSE <<>>)
  /\ toHost' = Tail(toHost)
  /\ UNCHANGED <<session, atRoot, camVars>>

\* A menu that arrives while the user is not in a menu is closed at once.
DataMenu(s, d) ==
  /\ d = "MENU"
  /\ Send(IF atRoot THEN <<Data(wSessionID[session["MMI"]], "MMICLOSE")>> ELSE <<>>)
  /\ toHost' = Tail(toHost)
  /\ UNCHANGED <<session, interval, atRoot, camVars>>

\* The module ends the dialogue: the host asks it to close the session and
\* forgets the session without waiting for the response.
DataCloseMmi(s, d) ==
  /\ d = "CLOSEMMI"
  /\ Send(<<CloseRequest(wSessionID[s])>>)
  /\ session' = [session EXCEPT !["MMI"] = 0]
  /\ atRoot' = TRUE
  /\ toHost' = Tail(toHost)
  /\ UNCHANGED <<interval, camVars>>

\* The module asks for a reset: its connection and sessions are gone, the
\* slot's are not touched.
DataRequestReset(s, d) ==
  /\ d = "REQUESTRESET"
  /\ alive' = FALSE
  /\ cam' = NoSessions
  /\ asked' = {}
  /\ closing' = {}
  /\ ending' = {}
  /\ toHost' = <<>>
  /\ UNCHANGED <<session, interval, atRoot, toCam>>

\* Data on an open session, of a kind its resource knows.
Handled(s, d) ==
  /\ fSlotInUse[s]
  /\ pResource[s] # None
  /\ d \in Objects[Handler(pResource[s])]

ParseData(s, d) ==
  /\ \/ /\ Handled(s, d)
        /\ \/ DataAnswered(s, d)
           \/ DataTimeEnquiry(s, d)
           \/ DataMenu(s, d)
           \/ DataCloseMmi(s, d)
           \/ DataRequestReset(s, d)
     \/ /\ ~Handled(s, d)
        /\ toHost' = Tail(toHost)
        /\ UNCHANGED <<session, interval, atRoot, camVars, toCam>>
  /\ UNCHANGED <<fSlotInUse, pResource, wSessionID, sendReady>>

\* Parse_SPDU on the next SPDU, in the slot's CI_CheckSlot.
HostParse ==
  /\ started
  /\ toHost # <<>>
  /\ LET m == Head(toHost)
     IN \/ m.tag = "OPEN_REQUEST" /\ ParseOpenRequest(m.r)
        \/ m.tag = "CLOSE_REQUEST" /\ ParseCloseRequest(m.s)
        \/ m.tag = "CLOSE_RESPONSE" /\ ParseCloseResponse(m.s)
        \/ m.tag = "DATA" /\ ParseData(m.s, m.d)
  /\ UNCHANGED <<started, threadVars>>

ClearHandle ==
  /\ fSlotInUse' = [s \in Session |-> FALSE]
  /\ pResource' = NoSessions
  /\ wSessionID' = [s \in Session |-> 0]
  /\ session' = [h \in Handlers |-> 0]
  /\ interval' = FALSE

\* A module is configured: CI_CheckConfig clears the slot's structure and
\* queue (CI_ModuleInserted) and creates the transport connection.
ModuleInserted ==
  /\ ~started
  /\ ClearHandle
  /\ sendReady' = TRUE
  /\ started' = TRUE
  /\ alive' = TRUE
  /\ cam' = NoSessions
  /\ asked' = {}
  /\ closing' = {}
  /\ ending' = {}
  /\ toHost' = <<>>
  /\ toCam' = <<>>
  /\ UNCHANGED <<atRoot, threadVars>>

\* The module answers with an unusable buffer size: the configuration is given
\* up when the structure has been cleared, with the size it left there.
ConfigFails ==
  /\ ~started
  /\ ClearHandle
  /\ sendReady' \in BOOLEAN
  /\ alive' = FALSE
  /\ cam' = NoSessions
  /\ asked' = {}
  /\ closing' = {}
  /\ ending' = {}
  /\ toHost' = <<>>
  /\ toCam' = <<>>
  /\ UNCHANGED <<started, atRoot, threadVars>>

\* The module is pulled out: CI_ModuleRemoved closes the open sessions and
\* clears the structure, send buffer included.
ModuleRemoved ==
  /\ started
  /\ ClearHandle
  /\ sendReady' = FALSE
  /\ atRoot' = (atRoot \/ \E s \in Session : fSlotInUse[s] /\ pResource[s] = "MMI")
  /\ started' = FALSE
  /\ alive' = FALSE
  /\ cam' = NoSessions
  /\ asked' = {}
  /\ closing' = {}
  /\ ending' = {}
  /\ toHost' = <<>>
  /\ toCam' = <<>>
  /\ UNCHANGED threadVars

\* A write that fails takes the slot to EMPTY (STATUS_ResetCAM) and nothing
\* more: the sessions stay as they are until the module is configured again.
ResetCAM ==
  /\ started
  /\ started' = FALSE
  /\ UNCHANGED <<hostVars, atRoot, threadVars, camVars, toHost, toCam>>

-----------------------------------------------------------------------------
(***************************************************************************)
(* The user-interface thread (WVCI_MMI_CommandProcess).  A command tests   *)
(* the menu level and the session variable, reads the session number for   *)
(* the frame and sends, in steps between which the monitoring task runs.   *)
(* ENTER_MENU sets the menu level after the send, CLOSE before it.         *)
(***************************************************************************)
UiBegin ==
  /\ ui.pc = "idle"
  /\ \/ /\ atRoot /\ "ENTERMENU" \in Commands
        /\ ui' = [pc |-> "test", s |-> 0, d |-> "ENTERMENU"]
        /\ UNCHANGED atRoot
     \/ /\ ~atRoot /\ "MMICLOSE" \in Commands
        /\ ui' = [pc |-> "read", s |-> 0, d |-> "MMICLOSE"]
        /\ atRoot' \in BOOLEAN   \* CLOSE sets it first, ENTER_MENU later
     \/ /\ "ANSWER" \in Commands
        /\ ui' = [pc |-> "read", s |-> 0, d |-> "ANSWER"]
        /\ UNCHANGED atRoot
  /\ UNCHANGED toCam

\* CI_MMI_EnterMenu does nothing while there is no application information
\* session; the command goes on all the same.
UiTest ==
  /\ ui.pc = "test"
  /\ ui' = [ui EXCEPT !.pc = IF session["AppInfo"] = 0 THEN "set" ELSE "read"]
  /\ UNCHANGED <<atRoot, toCam>>

UiRead ==
  /\ ui.pc = "read"
  /\ LET h == IF ui.d = "ENTERMENU" THEN "AppInfo" ELSE "MMI"
     IN ui' = [ui EXCEPT !.pc = "send", !.s = wSessionID[session[h]]]
  /\ UNCHANGED <<atRoot, toCam>>

UiSend ==
  /\ ui.pc = "send"
  /\ Len(toCam) < MaxToCam
  /\ Send(<<Data(ui.s, ui.d)>>)
  /\ ui' = IF ui.d = "ANSWER" THEN Idle ELSE [ui EXCEPT !.pc = "set"]
  /\ UNCHANGED atRoot

UiSetLevel ==
  /\ ui.pc = "set"
  /\ atRoot' = (ui.d = "MMICLOSE")
  /\ ui' = Idle
  /\ UNCHANGED toCam

UiThread ==
  /\ UiBegin \/ UiTest \/ UiRead \/ UiSend \/ UiSetLevel
  /\ UNCHANGED <<hostVars, started, pmt, camVars, toHost>>

\* CaSupport_SendPMT tests the session variable and then reads it again for
\* the frame.
PmtTest ==
  /\ pmt.pc = "idle"
  /\ session["CaSupport"] # 0
  /\ pmt' = [pc |-> "read", s |-> 0]
  /\ UNCHANGED toCam

PmtRead ==
  /\ pmt.pc = "read"
  /\ pmt' = [pc |-> "send", s |-> wSessionID[session["CaSupport"]]]
  /\ UNCHANGED toCam

PmtSend ==
  /\ pmt.pc = "send"
  /\ Len(toCam) < MaxToCam
  /\ Send(<<Data(pmt.s, "CAPMT")>>)
  /\ pmt' = [pc |-> "idle", s |-> 0]

PmtThread ==
  /\ PmtTest \/ PmtRead \/ PmtSend
  /\ UNCHANGED <<hostVars, started, atRoot, ui, camVars, toHost>>

\* DateTime_SendDateTime, called by the application when the time has passed.
SendDateTime ==
  /\ session["DateTime"] # 0
  /\ interval
  /\ Len(toCam) < MaxToCam
  /\ Send(<<Data(wSessionID[session["DateTime"]], "DATETIME")>>)
  /\ UNCHANGED <<hostVars, started, atRoot, threadVars, camVars, toHost>>

-----------------------------------------------------------------------------
(***************************************************************************)
(* The module, as the code expects it: it asks for a resource and waits    *)
(* for the answer, sends on the sessions it has been granted, and answers  *)
(* a close request.  With CrossingClose it may close a session on which it *)
(* has sent CLOSEMMI and which the host is therefore about to close too.   *)
(***************************************************************************)
CamMaySend ==
  /\ alive
  /\ Len(toHost) < MaxToHost
  /\ Len(toCam) < MaxToCam

CamOpen(r) ==
  /\ CamMaySend
  /\ r \notin asked
  /\ asked' = asked \cup {r}
  /\ toHost' = Append(toHost, OpenRequest(r))
  /\ UNCHANGED <<alive, cam, closing, ending, toCam>>

CamClose(s) ==
  /\ CamMaySend
  /\ cam[s] # None
  /\ s \notin closing
  /\ s \notin ending \/ CrossingClose
  /\ closing' = closing \cup {s}
  /\ toHost' = Append(toHost, CloseRequest(s))
  /\ UNCHANGED <<alive, cam, asked, ending, toCam>>

CamData(s, d) ==
  /\ CamMaySend
  /\ cam[s] # None
  /\ s \notin closing \cup ending
  /\ d \in Objects[Handler(cam[s])]
  /\ ending' = IF d = "CLOSEMMI" THEN ending \cup {s} ELSE ending
  /\ toHost' = Append(toHost, [Data(s, d) EXCEPT !.r = cam[s]])
  /\ UNCHANGED <<alive, cam, asked, closing, toCam>>

CamOpenResponse(m) ==
  /\ m.tag = "OPEN_RESPONSE"
  /\ asked' = asked \ {m.r}
  /\ cam' = [cam EXCEPT ![m.s] = IF m.status = 0 THEN m.r ELSE None]
  /\ UNCHANGED <<closing, ending, toHost>>

CamCloseRequest(m) ==
  /\ m.tag = "CLOSE_REQUEST"
  /\ cam' = [cam EXCEPT ![m.s] = None]
  /\ closing' = closing \ {m.s}
  /\ ending' = ending \ {m.s}
  /\ toHost' = Append(toHost, CloseResponse(m.s))
  /\ UNCHANGED asked

CamCloseResponse(m) ==
  /\ m.tag = "CLOSE_RESPONSE"
  /\ cam' = [cam EXCEPT ![m.s] = None]
  /\ closing' = closing \ {m.s}
  /\ ending' = ending \ {m.s}
  /\ UNCHANGED <<asked, toHost>>

CamReceive ==
  /\ alive
  /\ toCam # <<>>
  /\ toCam' = Tail(toCam)
  /\ LET m == Head(toCam)
     IN \/ CamOpenResponse(m)
        \/ CamCloseRequest(m)
        \/ CamCloseResponse(m)
        \/ m.tag = "DATA" /\ UNCHANGED <<cam, asked, closing, ending, toHost>>
  /\ UNCHANGED alive

Cam ==
  /\ \/ \E r \in Resource : CamOpen(r)
     \/ \E s \in Session : CamClose(s)
     \/ \E s \in Session, d \in FromCam : CamData(s, d)
     \/ CamReceive
  /\ UNCHANGED <<hostVars, started, atRoot, threadVars>>

-----------------------------------------------------------------------------
Next ==
  \/ HostParse
  \/ ModuleInserted
  \/ ConfigFails
  \/ ModuleRemoved
  \/ ResetCAM
  \/ UiThread
  \/ PmtThread
  \/ SendDateTime
  \/ Cam

\* The monitoring task never stops looping (WVCI_TaskMonitoring) and the
\* module takes what it is sent.  Nobody has to plug, unplug or type.
Fairness == WF_vars(HostParse) /\ WF_vars(CamReceive /\ Cam)

Spec == Init /\ [][Next]_vars
FairSpec == Spec /\ Fairness

-----------------------------------------------------------------------------
(***************************************************************************)
(* Properties.                                                             *)
(***************************************************************************)

\* The session table is consistent: a session is in use exactly when it has
\* a resource, it then carries its own number, and number 0, which stands for
\* "none", is never given out (Parse_SPDU, CI_ModuleInserted, CI_ModuleRemoved).
TableConsistent ==
  /\ ~fSlotInUse[0]
  /\ \A s \in Session :
        /\ fSlotInUse[s] <=> pResource[s] # None
        /\ fSlotInUse[s] => wSessionID[s] = s

\* The variables that decide where a CA PMT and a menu answer go never name a
\* session that is closed or belongs to another resource (CaSupport_Close,
\* MMI_Close, MMI_Data).
HandleSound ==
  \A h \in {"CaSupport", "MMI"} :
    session[h] # 0 => /\ fSlotInUse[session[h]]
                      /\ Handler(pResource[session[h]]) = h

\* When nothing is on its way, the module and the host agree about every
\* session: what was refused after having been granted, and what either side
\* closed, is closed on both (Parse_SPDU, MMI_Data).
AgreedWhenQuiet ==
  started /\ alive /\ toHost = <<>> /\ toCam = <<>> => cam = pResource

\* Every request for a resource, a known one or not, is answered, unless the
\* slot is reset (Parse_SPDU).
RequestAnswered == \A r \in Resource : r \in asked ~> (r \notin asked \/ ~started)

\* A session the module asks to close is closed on both sides, unless the slot
\* is reset.
CloseAnswered == \A s \in Session : s \in closing ~> (s \notin closing \/ ~started)

\* The refusal of session s to the user interface is on its way to the module.
RefusalOnItsWay(s) == \E i \in 1 .. Len(toCam) : toCam[i] = OpenResponse(1, "MMI", s)

\* What a module sends to a resource is given to that resource, however session
\* numbers are closed and reused (ci.h:249, Parse_SPDU).  The one exception is
\* the MMI resource, whose refusals are granted first: what the module sends
\* before it reads the refusal may go to the session's next owner.  This
\* happens for no other reason: the refusal is on its way to the module, or the
\* module knows by now that the session is not the user interface's.
DataToItsResource ==
  started /\ toHost # <<>> /\ Head(toHost).tag = "DATA" =>
    LET m == Head(toHost)
    IN \/ pResource[m.s] = m.r
       \/ m.r = "MMI" /\ (cam[m.s] # "MMI" \/ RefusalOnItsWay(m.s))
=============================================================================
