-------------------------- MODULE CiSession_proofs --------------------------
(***************************************************************************)
(* Proofs about CiSession, for every number of sessions, every set of      *)
(* registered resources and every bound.                                   *)
(***************************************************************************)
EXTENDS CiSession, TLAPS

\* What the host keeps has the right type.  This is the part of TypeOK that
\* says nothing of the messages on their way, whose contents the host does not
\* choose.
HostTypeOK ==
  /\ fSlotInUse \in [Session -> BOOLEAN]
  /\ pResource \in [Session -> Registered \cup {None}]
  /\ wSessionID \in [Session -> Session]
  /\ session \in [Handlers -> Session]

\* The inductive invariant.
IInv == HostTypeOK /\ TableConsistent /\ HandleSound

USE DEF None, ResourceIds, Handlers, Handler

\* Every resource has a handler and none of them is called None.
LEMMA HandlerType ==
  /\ None \notin Registered
  /\ \A r \in Registered : Handler(r) \in Handlers
BY ConstantsAssumption

LEMMA SessionZero == 0 \in Session
BY ConstantsAssumption DEF Session

LEMMA InitIInv == Init => IInv
BY SessionZero DEF Init, IInv, HostTypeOK, TableConsistent, HandleSound, NoSessions

LEMMA ClearIInv == ClearHandle => IInv'
BY SessionZero DEF ClearHandle, IInv, HostTypeOK, TableConsistent, HandleSound, NoSessions

\* A step that leaves the session table alone keeps the invariant.
LEMMA TableUnchanged ==
  IInv /\ UNCHANGED <<fSlotInUse, pResource, wSessionID, session>> => IInv'
BY DEF IInv, HostTypeOK, TableConsistent, HandleSound

\* A session that a resource has accepted was free, so that no variable
\* named it.
LEMMA ConnectedIInv ==
  ASSUME IInv, NEW r, Connected(r)
  PROVE IInv'
<1>1. PICK s \in FirstFree :
         /\ wSessionID' = [wSessionID EXCEPT ![s] = s]
         /\ fSlotInUse' = [fSlotInUse EXCEPT ![s] = TRUE]
         /\ pResource' = [pResource EXCEPT ![s] = r]
         /\ session' = [session EXCEPT ![Handler(r)] = s]
  BY DEF Connected
<1>2. s \in Session /\ s # 0 /\ ~fSlotInUse[s]
  BY DEF FirstFree, FreeSessions
<1>3. r \in Registered /\ r # None /\ Handler(r) \in Handlers
  BY HandlerType DEF Connected
<1>4. HostTypeOK'
  BY <1>1, <1>2, <1>3 DEF IInv, HostTypeOK
<1>5. TableConsistent'
  BY <1>1, <1>2, <1>3, SessionZero DEF IInv, HostTypeOK, TableConsistent
<1>6. HandleSound'
  <2> SUFFICES ASSUME NEW h \in {"CaSupport", "MMI"}, session'[h] # 0
               PROVE /\ fSlotInUse'[session'[h]]
                     /\ Handler(pResource'[session'[h]]) = h
    BY DEF HandleSound
  <2>1. CASE h = Handler(r)
    BY <2>1, <1>1, <1>2, <1>3 DEF IInv, HostTypeOK
  <2>2. CASE h # Handler(r)
    <3>1. session'[h] = session[h] /\ session[h] \in Session
      BY <2>2, <1>1 DEF IInv, HostTypeOK
    <3>2. session[h] # s
      BY <3>1, <1>2 DEF IInv, HandleSound
    <3> QED BY <3>1, <3>2, <1>1 DEF IInv, HostTypeOK, HandleSound
  <2> QED BY <2>1, <2>2
<1> QED BY <1>4, <1>5, <1>6 DEF IInv

\* A refused request leaves the session free.
LEMMA RefusedIInv ==
  ASSUME IInv, NEW r, Refused(r)
  PROVE IInv'
<1>1. PICK s \in FirstFree : wSessionID' = [wSessionID EXCEPT ![s] = s]
  BY DEF Refused
<1>2. s \in Session /\ ~fSlotInUse[s]
  BY DEF FirstFree, FreeSessions
<1> QED BY <1>1, <1>2 DEF Refused, IInv, HostTypeOK, TableConsistent, HandleSound

\* Closing a session resets the variable of its owner, and only the owner's
\* variable may name it.
LEMMA CloseIInv ==
  ASSUME IInv, NEW s \in Session, CloseSession(s), UNCHANGED wSessionID
  PROVE IInv'
<1>1. HostTypeOK'
  BY SessionZero DEF CloseSession, IInv, HostTypeOK
<1>2. TableConsistent'
  BY SessionZero DEF CloseSession, IInv, HostTypeOK, TableConsistent
<1>3. HandleSound'
  <2> SUFFICES ASSUME NEW h \in {"CaSupport", "MMI"}, session'[h] # 0
               PROVE /\ fSlotInUse'[session'[h]]
                     /\ Handler(pResource'[session'[h]]) = h
    BY DEF HandleSound
  <2>1. session'[h] = session[h] /\ h # Owner(s) /\ session[h] \in Session
    BY DEF CloseSession, IInv, HostTypeOK
  <2>2. /\ fSlotInUse[session[h]]
        /\ Handler(pResource[session[h]]) = h
    BY <2>1 DEF IInv, HandleSound
  <2>3. pResource[session[h]] # None
    BY <2>1, <2>2 DEF IInv, TableConsistent
  <2>4. session[h] # s
    BY <2>1, <2>2, <2>3 DEF Owner
  <2> QED BY <2>1, <2>2, <2>4 DEF CloseSession, IInv, HostTypeOK
<1> QED BY <1>1, <1>2, <1>3 DEF IInv

\* The end of a dialogue forgets the MMI session and changes nothing else.
LEMMA DataIInv ==
  ASSUME IInv, NEW s, NEW d, ParseData(s, d)
  PROVE IInv'
<1>1. CASE DataCloseMmi(s, d)
  BY <1>1, SessionZero
     DEF DataCloseMmi, ParseData, IInv, HostTypeOK, TableConsistent, HandleSound
<1>2. CASE UNCHANGED session
  BY <1>2, TableUnchanged DEF ParseData
<1> QED
  BY <1>1, <1>2
     DEF ParseData, DataAnswered, DataTimeEnquiry, DataMenu, DataRequestReset

-----------------------------------------------------------------------------
(***************************************************************************)
(* Type correctness.                                                       *)
(***************************************************************************)

\* What the constructors build are SPDUs.
LEMMA SpduType ==
  /\ \A r \in Resource \cup {None}, st \in {0, 1}, s \in Session :
        OpenRequest(r) \in Spdu /\ OpenResponse(st, r, s) \in Spdu
  /\ \A s \in Session : CloseRequest(s) \in Spdu /\ CloseResponse(s) \in Spdu
  /\ \A s \in Session, d \in Replies \cup FromCam \cup {None} : Data(s, d) \in Spdu
BY SessionZero
   DEF Spdu, Tags, OpenRequest, OpenResponse, CloseRequest, CloseResponse, Data

\* A send appends to the queue or leaves it alone.
LEMMA SendType ==
  ASSUME toCam \in Seq(Spdu), NEW q \in Seq(Spdu), Send(q)
  PROVE toCam' \in Seq(Spdu)
BY DEF Send

LEMMA HeadType ==
  ASSUME NEW q \in Seq(Spdu), q # <<>>
  PROVE /\ Tail(q) \in Seq(Spdu)
        /\ Head(q).tag \in Tags
        /\ Head(q).s \in Session
        /\ Head(q).r \in Resource \cup {None}
        /\ Head(q).d \in Replies \cup FromCam \cup {None}
<1>1. Head(q) \in Spdu /\ Tail(q) \in Seq(Spdu)
  OBVIOUS
<1> QED BY <1>1 DEF Spdu

\* The greeting of a resource and the answer to an object are SPDUs.
LEMMA GreetingType ==
  ASSUME NEW r \in Registered, NEW s \in Session
  PROVE Greeting(r, s) \in Seq(Spdu)
<1>1. \A d \in Replies : <<Data(s, d)>> \in Seq(Spdu)
  BY SpduType
<1>2. {"PROFILE_ENQ", "APPINFO_ENQ", "CAINFO_ENQ"} \subseteq Replies /\ <<>> \in Seq(Spdu)
  BY DEF Replies
<1> QED BY <1>1, <1>2 DEF Greeting

LEMMA ReplyType ==
  ASSUME TypeOK, NEW s \in Session, NEW d
  PROVE Reply(s, d) \in Seq(Spdu)
<1>1. \A e \in Replies : <<Data(wSessionID[s], e)>> \in Seq(Spdu)
  BY SpduType DEF TypeOK
<1>2. {"PROFILE_CHANGE", "PROFILE", "DISPLAYREPLY"} \subseteq Replies /\ <<>> \in Seq(Spdu)
  BY DEF Replies
<1> QED BY <1>1, <1>2 DEF Reply

LEMMA InitTypeOK == Init => TypeOK
BY SessionZero, ConstantsAssumption DEF Init, TypeOK, NoSessions, Idle, UiPc

LEMMA OpenRequestType ==
  ASSUME TypeOK, toHost # <<>>, NEW r \in Resource \cup {None},
         ParseOpenRequest(r), UNCHANGED <<started, threadVars>>
  PROVE TypeOK'
<1> USE DEF TypeOK
<1>1. toHost' \in Seq(Spdu)
  BY HeadType DEF ParseOpenRequest
<1>2. \A s \in Session, st \in {0, 1} : OpenResponse(st, r, s) \in Spdu
  BY SpduType
<1>3. CASE OutOfSessions(r)
  <2>1. toCam' \in Seq(Spdu)
    <3>1. <<OpenResponse(1, r, 0)>> \in Seq(Spdu)
      BY <1>2, SessionZero
    <3> QED BY <1>3, <3>1, SendType DEF OutOfSessions
  <2> QED BY <1>1, <1>3, <2>1
          DEF ParseOpenRequest, OutOfSessions, tableVars, camVars, threadVars
<1>4. CASE UnknownResource(r)
  <2>1. PICK s \in FirstFree : Send(<<OpenResponse(1, r, s)>>)
    BY <1>4 DEF UnknownResource
  <2>2. <<OpenResponse(1, r, s)>> \in Seq(Spdu)
    BY <1>2 DEF FirstFree, FreeSessions
  <2>3. toCam' \in Seq(Spdu)
    BY <2>1, <2>2, SendType
  <2> QED BY <1>1, <1>4, <2>3
          DEF ParseOpenRequest, UnknownResource, tableVars, camVars, threadVars
<1>5. CASE Connected(r)
  <2>1. PICK s \in FirstFree :
           /\ wSessionID' = [wSessionID EXCEPT ![s] = s]
           /\ fSlotInUse' = [fSlotInUse EXCEPT ![s] = TRUE]
           /\ pResource' = [pResource EXCEPT ![s] = r]
           /\ session' = [session EXCEPT ![Handler(r)] = s]
           /\ Send(<<OpenResponse(0, r, s)>> \o Greeting(r, s))
    BY <1>5 DEF Connected
  <2>2. s \in Session /\ r \in Registered
    BY <1>5 DEF FirstFree, FreeSessions, Connected
  <2>3. <<OpenResponse(0, r, s)>> \o Greeting(r, s) \in Seq(Spdu)
    <3>1. <<OpenResponse(0, r, s)>> \in Seq(Spdu) /\ Greeting(r, s) \in Seq(Spdu)
      BY <1>2, <2>2, GreetingType
    <3> QED BY <3>1
  <2>4. toCam' \in Seq(Spdu)
    BY <2>1, <2>3, SendType
  <2>5. interval' \in BOOLEAN
    BY <1>5 DEF Connected
  <2>6. /\ wSessionID' \in [Session -> Session]
        /\ fSlotInUse' \in [Session -> BOOLEAN]
        /\ pResource' \in [Session -> Registered \cup {None}]
        /\ session' \in [Handlers -> Session]
    BY <2>1, <2>2
  <2> QED BY <1>1, <2>4, <2>5, <2>6 DEF ParseOpenRequest, camVars, threadVars
<1>6. CASE Refused(r)
  <2>1. PICK s \in FirstFree :
           /\ wSessionID' = [wSessionID EXCEPT ![s] = s]
           /\ Send(<<OpenResponse(0, r, s), OpenResponse(1, r, s)>>)
    BY <1>6 DEF Refused
  <2>2. s \in Session
    BY DEF FirstFree, FreeSessions
  <2>3. <<OpenResponse(0, r, s), OpenResponse(1, r, s)>> \in Seq(Spdu)
    BY <1>2, <2>2
  <2>4. toCam' \in Seq(Spdu)
    BY <2>1, <2>3, SendType
  <2> QED BY <1>1, <1>6, <2>1, <2>2, <2>4 DEF ParseOpenRequest, Refused, camVars, threadVars
<1> QED BY <1>3, <1>4, <1>5, <1>6 DEF ParseOpenRequest

LEMMA CloseType ==
  ASSUME TypeOK, toHost # <<>>, NEW s \in Session, UNCHANGED <<started, threadVars>>,
         ParseCloseRequest(s) \/ ParseCloseResponse(s)
  PROVE TypeOK'
<1>1. toHost' \in Seq(Spdu)
  BY HeadType DEF ParseCloseRequest, ParseCloseResponse, TypeOK
<1>2. CloseSession(s) /\ UNCHANGED <<wSessionID, interval, sendReady, camVars>>
  BY DEF ParseCloseRequest, ParseCloseResponse
<1>3. toCam' \in Seq(Spdu)
  <2>1. <<CloseResponse(s)>> \in Seq(Spdu)
    BY SpduType
  <2> QED BY <2>1, SendType DEF ParseCloseRequest, ParseCloseResponse, TypeOK
<1>4. /\ fSlotInUse' \in [Session -> BOOLEAN]
      /\ pResource' \in [Session -> Registered \cup {None}]
      /\ session' \in [Handlers -> Session]
      /\ atRoot' \in BOOLEAN
  BY <1>2, SessionZero DEF CloseSession, TypeOK
<1> QED BY <1>1, <1>2, <1>3, <1>4 DEF TypeOK, camVars, threadVars

LEMMA DataType ==
  ASSUME TypeOK, toHost # <<>>, NEW s \in Session, NEW d,
         ParseData(s, d), UNCHANGED <<started, threadVars>>
  PROVE TypeOK'
<1>0. /\ UNCHANGED <<fSlotInUse, pResource, wSessionID, sendReady>>
      /\ Tail(toHost) \in Seq(Spdu)
  BY HeadType DEF ParseData, TypeOK
<1>1. CASE DataAnswered(s, d)
  <2>1. toCam' \in Seq(Spdu)
    BY <1>1, ReplyType, SendType DEF DataAnswered, TypeOK
  <2> QED BY <1>0, <1>1, <2>1 DEF DataAnswered, TypeOK, camVars, threadVars
<1>2. CASE DataTimeEnquiry(s, d)
  <2>1. PICK known \in BOOLEAN :
           Send(IF known THEN <<Data(wSessionID[s], "DATETIME")>> ELSE <<>>)
    BY <1>2 DEF DataTimeEnquiry
  <2>2. (IF known THEN <<Data(wSessionID[s], "DATETIME")>> ELSE <<>>) \in Seq(Spdu)
    BY SpduType DEF TypeOK, Replies
  <2>3. toCam' \in Seq(Spdu)
    BY <2>1, <2>2, SendType DEF TypeOK
  <2> QED BY <1>0, <1>2, <2>3 DEF DataTimeEnquiry, TypeOK, camVars, threadVars
<1>3. CASE DataMenu(s, d)
  <2>1. (IF atRoot THEN <<Data(wSessionID[session["MMI"]], "MMICLOSE")>> ELSE <<>>) \in Seq(Spdu)
    BY SpduType DEF TypeOK, Replies
  <2>2. toCam' \in Seq(Spdu)
    BY <1>3, <2>1, SendType DEF DataMenu, TypeOK
  <2> QED BY <1>0, <1>3, <2>2 DEF DataMenu, TypeOK, camVars, threadVars
<1>4. CASE DataCloseMmi(s, d)
  <2>1. <<CloseRequest(wSessionID[s])>> \in Seq(Spdu)
    BY SpduType DEF TypeOK
  <2>2. toCam' \in Seq(Spdu)
    BY <1>4, <2>1, SendType DEF DataCloseMmi, TypeOK
  <2> QED BY <1>0, <1>4, <2>2, SessionZero DEF DataCloseMmi, TypeOK, camVars, threadVars
<1>5. CASE DataRequestReset(s, d)
  <2>1. NoSessions \in [Session -> Resource \cup {None}] /\ <<>> \in Seq(Spdu)
    BY DEF NoSessions
  <2>2. /\ alive' \in BOOLEAN /\ cam' \in [Session -> Resource \cup {None}]
        /\ asked' \subseteq Resource /\ closing' \subseteq Session /\ ending' \subseteq Session
        /\ toHost' \in Seq(Spdu)
        /\ UNCHANGED <<session, interval, atRoot, toCam>>
    BY <1>5, <2>1 DEF DataRequestReset
  <2> QED BY <1>0, <2>2 DEF TypeOK, threadVars
<1>6. CASE ~Handled(s, d)
  BY <1>0, <1>6 DEF ParseData, Handled, TypeOK, camVars, threadVars,
     DataAnswered, DataTimeEnquiry, DataMenu, DataCloseMmi, DataRequestReset
<1> QED BY <1>1, <1>2, <1>3, <1>4, <1>5, <1>6 DEF ParseData

LEMMA HostParseType ==
  ASSUME TypeOK, HostParse
  PROVE TypeOK'
<1> DEFINE m == Head(toHost)
<1>1. /\ toHost # <<>>
      /\ UNCHANGED <<started, threadVars>>
      /\ \/ ParseOpenRequest(m.r)
         \/ ParseCloseRequest(m.s)
         \/ ParseCloseResponse(m.s)
         \/ ParseData(m.s, m.d)
  BY DEF HostParse
<1>2. m.s \in Session /\ m.r \in Resource \cup {None}
  BY <1>1, HeadType DEF TypeOK
<1> QED BY <1>1, <1>2, OpenRequestType, CloseType, DataType

\* The module's state and the queues after an insertion or a removal.
LEMMA EmptyType ==
  ASSUME cam' = NoSessions, asked' = {}, closing' = {}, ending' = {},
         toHost' = <<>>, toCam' = <<>>
  PROVE /\ cam' \in [Session -> Resource \cup {None}]
        /\ asked' \in SUBSET Resource /\ closing' \in SUBSET Session
        /\ ending' \in SUBSET Session
        /\ toHost' \in Seq(Spdu) /\ toCam' \in Seq(Spdu)
BY DEF NoSessions

LEMMA ClearType ==
  ASSUME ClearHandle
  PROVE /\ fSlotInUse' \in [Session -> BOOLEAN]
        /\ pResource' \in [Session -> Registered \cup {None}]
        /\ wSessionID' \in [Session -> Session]
        /\ session' \in [Handlers -> Session]
        /\ interval' \in BOOLEAN
BY SessionZero DEF ClearHandle, NoSessions

LEMMA SlotType ==
  ASSUME TypeOK, ModuleInserted \/ ConfigFails \/ ModuleRemoved \/ ResetCAM
  PROVE TypeOK'
<1>1. CASE ModuleInserted
  BY <1>1, ClearType, EmptyType DEF ModuleInserted, TypeOK, threadVars
<1>2. CASE ConfigFails
  BY <1>2, ClearType, EmptyType DEF ConfigFails, TypeOK, threadVars
<1>3. CASE ModuleRemoved
  <2>1. atRoot' \in BOOLEAN
    BY <1>3 DEF ModuleRemoved, TypeOK
  <2> QED BY <1>3, <2>1, ClearType, EmptyType DEF ModuleRemoved, TypeOK, threadVars
<1>4. CASE ResetCAM
  BY <1>4 DEF ResetCAM, TypeOK, hostVars, threadVars, camVars
<1> QED BY <1>1, <1>2, <1>3, <1>4

LEMMA ThreadType ==
  ASSUME TypeOK, UiThread \/ PmtThread \/ SendDateTime
  PROVE TypeOK'
<1> USE DEF TypeOK, hostVars, camVars, threadVars, UiPc
<1>1. \A s \in Session, d \in Replies : <<Data(s, d)>> \in Seq(Spdu)
  BY SpduType
<1>2. /\ {"ENTERMENU", "MMICLOSE", "ANSWER", "CAPMT", "DATETIME"} \subseteq Replies
      /\ Idle \in [pc : UiPc, s : Session, d : Replies \cup {None}]
  BY SessionZero DEF Replies, Idle
<1>3. CASE UiThread
  <2>1. CASE UiBegin
    <3>1. ui' \in [pc : UiPc, s : Session, d : Replies \cup {None}]
      BY <1>2, <2>1, SessionZero DEF UiBegin
    <3>2. atRoot' \in BOOLEAN
      BY <2>1 DEF UiBegin
    <3> QED BY <1>3, <2>1, <3>1, <3>2 DEF UiThread, UiBegin
  <2>2. CASE UiTest
    BY <1>3, <2>2 DEF UiThread, UiTest
  <2>3. CASE UiRead
    BY <1>3, <2>3 DEF UiThread, UiRead
  <2>4. CASE UiSend
    <3>1. <<Data(ui.s, ui.d)>> \in Seq(Spdu)
      <4>1. ui.s \in Session /\ ui.d \in Replies \cup FromCam \cup {None}
        OBVIOUS
      <4> QED BY <4>1, SpduType
    <3>2. toCam' \in Seq(Spdu)
      BY <2>4, <3>1, SendType DEF UiSend
    <3>3. ui' \in [pc : UiPc, s : Session, d : Replies \cup {None}]
      BY <1>2, <2>4 DEF UiSend
    <3> QED BY <1>3, <2>4, <3>2, <3>3 DEF UiThread, UiSend
  <2>5. CASE UiSetLevel
    BY <1>2, <1>3, <2>5 DEF UiThread, UiSetLevel
  <2> QED BY <1>3, <2>1, <2>2, <2>3, <2>4, <2>5 DEF UiThread
<1>4. CASE PmtThread
  <2>1. CASE PmtTest
    BY <1>4, <2>1, SessionZero DEF PmtThread, PmtTest
  <2>2. CASE PmtRead
    BY <1>4, <2>2 DEF PmtThread, PmtRead
  <2>3. CASE PmtSend
    <3>1. toCam' \in Seq(Spdu)
      BY <1>1, <1>2, <2>3, SendType DEF PmtSend
    <3> QED BY <1>4, <2>3, <3>1, SessionZero DEF PmtThread, PmtSend
  <2> QED BY <1>4, <2>1, <2>2, <2>3 DEF PmtThread
<1>5. CASE SendDateTime
  <2>1. toCam' \in Seq(Spdu)
    BY <1>1, <1>2, <1>5, SendType DEF SendDateTime
  <2> QED BY <1>5, <2>1 DEF SendDateTime
<1> QED BY <1>3, <1>4, <1>5

LEMMA CamType ==
  ASSUME TypeOK, Cam
  PROVE TypeOK'
<1> USE DEF TypeOK, hostVars, threadVars
<1>0. UNCHANGED <<hostVars, started, atRoot, threadVars>>
  BY DEF Cam
<1>1. CASE \E r \in Resource : CamOpen(r)
  <2>1. PICK r \in Resource : CamOpen(r)
    BY <1>1
  <2>2. toHost' \in Seq(Spdu)
    BY <2>1, SpduType, SessionZero DEF CamOpen
  <2> QED BY <1>0, <2>1, <2>2 DEF CamOpen
<1>2. CASE \E s \in Session : CamClose(s)
  <2>1. PICK s \in Session : CamClose(s)
    BY <1>2
  <2>2. toHost' \in Seq(Spdu)
    BY <2>1, SpduType DEF CamClose
  <2> QED BY <1>0, <2>1, <2>2 DEF CamClose
<1>3. CASE \E s \in Session, d \in FromCam : CamData(s, d)
  <2>1. PICK s \in Session, d \in FromCam : CamData(s, d)
    BY <1>3
  <2>2. [Data(s, d) EXCEPT !.r = cam[s]] \in Spdu
    BY <2>1 DEF Spdu, Data, Tags
  <2>3. toHost' \in Seq(Spdu)
    BY <2>1, <2>2 DEF CamData
  <2> QED BY <1>0, <2>1, <2>3 DEF CamData
<1>4. CASE CamReceive
  <2> DEFINE m == Head(toCam)
  <2>1. /\ toCam # <<>> /\ toCam' = Tail(toCam) /\ UNCHANGED alive
        /\ \/ CamOpenResponse(m)
           \/ CamCloseRequest(m)
           \/ CamCloseResponse(m)
           \/ UNCHANGED <<cam, asked, closing, ending, toHost>>
    BY <1>4 DEF CamReceive
  <2>2. /\ toCam' \in Seq(Spdu) /\ m.s \in Session
        /\ m.r \in Resource \cup {None}
    BY <2>1, HeadType
  <2> HIDE DEF m
  <2>3. CASE CamOpenResponse(m)
    BY <1>0, <2>1, <2>2, <2>3 DEF CamOpenResponse
  <2>4. CASE CamCloseRequest(m)
    <3>1. toHost' \in Seq(Spdu)
      BY <2>2, <2>4, SpduType DEF CamCloseRequest
    <3> QED BY <1>0, <2>1, <2>2, <2>4, <3>1 DEF CamCloseRequest
  <2>5. CASE CamCloseResponse(m)
    BY <1>0, <2>1, <2>2, <2>5 DEF CamCloseResponse
  <2>6. CASE UNCHANGED <<cam, asked, closing, ending, toHost>>
    BY <1>0, <2>1, <2>2, <2>6
  <2> QED BY <2>1, <2>3, <2>4, <2>5, <2>6
<1> QED BY <1>1, <1>2, <1>3, <1>4 DEF Cam

\* Every variable keeps its type: no session number ever leaves the table and
\* no message on its way names one that is not in it.
THEOREM TypeCorrect == Spec => []TypeOK
<1>1. TypeOK /\ [Next]_vars => TypeOK'
  <2> SUFFICES ASSUME TypeOK, [Next]_vars PROVE TypeOK'
    OBVIOUS
  <2>1. CASE Next
    BY <2>1, HostParseType, SlotType, ThreadType, CamType DEF Next
  <2>2. CASE UNCHANGED vars
    BY <2>2 DEF vars, hostVars, threadVars, camVars, TypeOK
  <2> QED BY <2>1, <2>2
<1> QED BY InitTypeOK, <1>1, PTL DEF Spec

-----------------------------------------------------------------------------
(***************************************************************************)
(* The session table and the variables that name sessions.                 *)
(***************************************************************************)

LEMMA NextIInv ==
  ASSUME TypeOK, IInv, [Next]_vars
  PROVE IInv'
<1>1. CASE HostParse
  <2> DEFINE m == Head(toHost)
  <2>1. \/ ParseOpenRequest(m.r)
        \/ ParseCloseRequest(m.s)
        \/ ParseCloseResponse(m.s)
        \/ ParseData(m.s, m.d)
    BY <1>1 DEF HostParse
  <2>2. m.s \in Session
    BY <1>1, HeadType DEF HostParse, TypeOK
  <2> HIDE DEF m
  <2>3. CASE ParseOpenRequest(m.r)
    BY <2>3, ConnectedIInv, RefusedIInv, TableUnchanged
       DEF ParseOpenRequest, OutOfSessions, UnknownResource, tableVars
  <2>4. CASE ParseCloseRequest(m.s) \/ ParseCloseResponse(m.s)
    BY <2>2, <2>4, CloseIInv DEF ParseCloseRequest, ParseCloseResponse
  <2>5. CASE ParseData(m.s, m.d)
    BY <2>5, DataIInv
  <2> QED BY <2>1, <2>3, <2>4, <2>5
<1>2. CASE ModuleInserted \/ ConfigFails \/ ModuleRemoved
  BY <1>2, ClearIInv DEF ModuleInserted, ConfigFails, ModuleRemoved
<1>3. CASE ResetCAM \/ UiThread \/ PmtThread \/ SendDateTime \/ Cam \/ UNCHANGED vars
  BY <1>3, TableUnchanged
     DEF ResetCAM, UiThread, PmtThread, SendDateTime, Cam, vars, hostVars
<1> QED BY <1>1, <1>2, <1>3 DEF Next

LEMMA AlwaysIInv == Spec => []IInv
BY TypeCorrect, InitIInv, NextIInv, PTL DEF Spec

\* The session table stays consistent (Parse_SPDU, CI_ModuleInserted,
\* CI_ModuleRemoved), whatever the module asks for and whenever it is pulled out.
THEOREM TableStaysConsistent == Spec => []TableConsistent
<1>1. IInv => TableConsistent
  BY DEF IInv
<1> QED BY <1>1, AlwaysIInv, PTL

\* The variables that decide where a CA PMT and a menu answer go never name a
\* session that is closed or another resource's (CaSupport_Close, MMI_Close).
THEOREM SessionsSound == Spec => []HandleSound
<1>1. IInv => HandleSound
  BY DEF IInv
<1> QED BY <1>1, AlwaysIInv, PTL
-----------------------------------------------------------------------------
(***************************************************************************)
(* What the host and the module think of a session, while messages about   *)
(* it are on their way.                                                    *)
(***************************************************************************)

\* The SPDU m is one of kind k, a tag or an object, about session s.
Kind(m) == IF m.tag = "DATA" THEN m.d ELSE m.tag
Is(m, k, s) == Kind(m) = k /\ m.s = s
Has(q, k, s) == \E i \in 1 .. Len(q) : Is(q[i], k, s)
Once(q, k, s) == \A i, j \in 1 .. Len(q) : Is(q[i], k, s) /\ Is(q[j], k, s) => i = j

\* The module changes its mind about session s when it gets m, and what it then
\* takes it for.
Touches(m, s) == m.tag \in {"OPEN_RESPONSE", "CLOSE_REQUEST", "CLOSE_RESPONSE"} /\ m.s = s
Left(m) == IF m.tag = "OPEN_RESPONSE" /\ m.status = 0 THEN m.r ELSE None
Untouched(q, s) == \A i \in 1 .. Len(q) : ~Touches(q[i], s)

\* A module that takes session s for c takes it for r when it has got all of q.
Leaves(q, s, c, r) ==
  \/ Untouched(q, s) /\ r = c
  \/ \E i \in 1 .. Len(q) :
       /\ Touches(q[i], s) /\ r = Left(q[i])
       /\ \A j \in i + 1 .. Len(q) : ~Touches(q[j], s)

\* After a request to close s nothing is said about s.
RequestLast(q, s) ==
  \A i, j \in 1 .. Len(q) : i < j /\ Is(q[i], "CLOSE_REQUEST", s) => ~Touches(q[j], s)

\* The module is told that the user interface has not got session s after all.
Refuses(m, s) == m = OpenResponse(1, "MMI", s)
Told(q, s) == \E i \in 1 .. Len(q) : Refuses(q[i], s)

\* The grant g of s that was on its way before m does not stand.
Undoes(m, g, s) == Is(m, "CLOSE_RESPONSE", s) \/ (Left(g) = "MMI" /\ Refuses(m, s))

\* The grants of s on their way that are not for the resource p that has it do
\* not stand: they were closed, or refused to the user interface.
Kept(q, s, p) ==
  \A i \in 1 .. Len(q) :
    Touches(q[i], s) /\ Left(q[i]) \notin {None, p} =>
      \E j \in i + 1 .. Len(q) : Undoes(q[j], q[i], s)

\* The data for session s is for its owner p, but for the user interface, and
\* comes before s is closed.
DataOn(m, s) == m.tag = "DATA" /\ m.s = s
Owned(q, s, p) ==
  \A i \in 1 .. Len(q) :
    DataOn(q[i], s) =>
      /\ q[i].r # "MMI" => q[i].r = p /\ p # None
      /\ \A j \in 1 .. i - 1 : ~Is(q[j], "CLOSE_REQUEST", s) /\ ~Is(q[j], "CLOSE_RESPONSE", s)
Silent(q, s) == \A i \in 1 .. Len(q) : ~DataOn(q[i], s)

(***************************************************************************)
(* One more message, or one less, on its way.                              *)
(***************************************************************************)
LEMMA Appended ==
  ASSUME NEW q \in Seq(Spdu), NEW m \in Spdu
  PROVE  /\ Append(q, m) \in Seq(Spdu)
         /\ Len(q) \in Nat /\ Len(Append(q, m)) = Len(q) + 1
         /\ \A i \in 1 .. Len(q) : Append(q, m)[i] = q[i]
         /\ Append(q, m)[Len(q) + 1] = m
OBVIOUS

LEMMA Shortened ==
  ASSUME NEW q \in Seq(Spdu), q # <<>>
  PROVE  /\ Tail(q) \in Seq(Spdu) /\ Head(q) \in Spdu
         /\ Len(q) \in Nat \ {0} /\ Len(Tail(q)) = Len(q) - 1
         /\ Head(q) = q[1]
         /\ \A i \in 1 .. Len(Tail(q)) : Tail(q)[i] = q[i + 1]
         /\ \A i \in 2 .. Len(q) : i - 1 \in 1 .. Len(Tail(q)) /\ q[i] = Tail(q)[i - 1]
OBVIOUS

LEMMA HasAppend ==
  ASSUME NEW q \in Seq(Spdu), NEW m \in Spdu, NEW k, NEW s
  PROVE  Has(Append(q, m), k, s) <=> Has(q, k, s) \/ Is(m, k, s)
BY Appended DEF Has

LEMMA HasTail ==
  ASSUME NEW q \in Seq(Spdu), q # <<>>, NEW k, NEW s
  PROVE  Has(q, k, s) <=> Is(Head(q), k, s) \/ Has(Tail(q), k, s)
<1>1. ASSUME Has(q, k, s) PROVE Is(Head(q), k, s) \/ Has(Tail(q), k, s)
  <2>1. PICK i \in 1 .. Len(q) : Is(q[i], k, s)
    BY <1>1 DEF Has
  <2>2. CASE i = 1
    BY <2>1, <2>2, Shortened
  <2>3. CASE i # 1
    <3>1. i \in 2 .. Len(q)
      BY <2>3, Shortened
    <3>2. i - 1 \in 1 .. Len(Tail(q)) /\ q[i] = Tail(q)[i - 1]
      BY <3>1, Shortened
    <3> QED BY <2>1, <3>2 DEF Has
  <2> QED BY <2>2, <2>3
<1>2. ASSUME Is(Head(q), k, s) PROVE Has(q, k, s)
  BY <1>2, Shortened DEF Has
<1>3. ASSUME Has(Tail(q), k, s) PROVE Has(q, k, s)
  BY <1>3, Shortened DEF Has
<1> QED BY <1>1, <1>2, <1>3

LEMMA OnceAppend ==
  ASSUME NEW q \in Seq(Spdu), NEW m \in Spdu, NEW k, NEW s,
         Once(q, k, s), ~Has(q, k, s) \/ ~Is(m, k, s)
  PROVE  Once(Append(q, m), k, s)
BY Appended DEF Has, Once

LEMMA OnceTail ==
  ASSUME NEW q \in Seq(Spdu), q # <<>>, NEW k, NEW s, Once(q, k, s)
  PROVE  /\ Once(Tail(q), k, s)
         /\ Is(Head(q), k, s) => ~Has(Tail(q), k, s)
BY Shortened DEF Has, Once

LEMMA UntouchedAppend ==
  ASSUME NEW q \in Seq(Spdu), NEW m \in Spdu, NEW s
  PROVE  Untouched(Append(q, m), s) <=> Untouched(q, s) /\ ~Touches(m, s)
BY Appended DEF Untouched

LEMMA UntouchedTail ==
  ASSUME NEW q \in Seq(Spdu), q # <<>>, NEW s
  PROVE  Untouched(q, s) <=> ~Touches(Head(q), s) /\ Untouched(Tail(q), s)
BY Shortened DEF Untouched

LEMMA LeavesAppend ==
  ASSUME NEW q \in Seq(Spdu), NEW m \in Spdu, NEW s, NEW c, NEW r
  PROVE  /\ Touches(m, s) => Leaves(Append(q, m), s, c, Left(m))
         /\ ~Touches(m, s) /\ Leaves(q, s, c, r) => Leaves(Append(q, m), s, c, r)
BY Appended DEF Leaves, Untouched

LEMMA LeavesTail ==
  ASSUME NEW q \in Seq(Spdu), q # <<>>, NEW s, NEW c, NEW r, Leaves(q, s, c, r)
  PROVE  Leaves(Tail(q), s, IF Touches(Head(q), s) THEN Left(Head(q)) ELSE c, r)
BY Shortened DEF Leaves, Untouched

LEMMA RequestLastAppend ==
  ASSUME NEW q \in Seq(Spdu), NEW m \in Spdu, NEW s,
         RequestLast(q, s), ~Has(q, "CLOSE_REQUEST", s) \/ ~Touches(m, s)
  PROVE  RequestLast(Append(q, m), s)
BY Appended DEF Has, RequestLast

LEMMA RequestLastTail ==
  ASSUME NEW q \in Seq(Spdu), q # <<>>, NEW s, RequestLast(q, s)
  PROVE  /\ RequestLast(Tail(q), s)
         /\ Is(Head(q), "CLOSE_REQUEST", s) => Untouched(Tail(q), s)
BY Shortened DEF RequestLast, Untouched

LEMMA RefusesTouches ==
  ASSUME NEW m, NEW s, Refuses(m, s)
  PROVE  Touches(m, s) /\ Left(m) = None
BY DEF Refuses, Touches, Left, OpenResponse

LEMMA ToldAppend ==
  ASSUME NEW q \in Seq(Spdu), NEW m \in Spdu, NEW s
  PROVE  Told(q, s) \/ Refuses(m, s) => Told(Append(q, m), s)
BY Appended DEF Told

LEMMA ToldTail ==
  ASSUME NEW q \in Seq(Spdu), q # <<>>, NEW s, Told(q, s), ~Touches(Head(q), s)
  PROVE  Told(Tail(q), s)
<1>1. PICK i \in 1 .. Len(q) : Refuses(q[i], s)
  BY DEF Told
<1>2. i \in 2 .. Len(q)
  <2>1. i # 1
    BY <1>1, RefusesTouches, Shortened
  <2> QED BY <2>1, Shortened
<1>3. i - 1 \in 1 .. Len(Tail(q)) /\ q[i] = Tail(q)[i - 1]
  BY <1>2, Shortened
<1> QED BY <1>1, <1>3 DEF Told

LEMMA KeptAppend ==
  ASSUME NEW q \in Seq(Spdu), NEW m \in Spdu, NEW s, NEW p, Kept(q, s, p)
  PROVE  /\ (Touches(m, s) => Left(m) \in {None, p}) => Kept(Append(q, m), s, p)
         /\ Is(m, "CLOSE_RESPONSE", s) /\ Left(m) = None => Kept(Append(q, m), s, None)
         /\ p = "MMI" /\ Refuses(m, s) => Kept(Append(q, m), s, None)
<1>1. (Touches(m, s) => Left(m) \in {None, p}) => Kept(Append(q, m), s, p)
  BY Appended DEF Kept
<1>2. \A i \in 1 .. Len(q) : Is(m, "CLOSE_RESPONSE", s) => Undoes(m, q[i], s)
  BY DEF Undoes
<1>3. Is(m, "CLOSE_RESPONSE", s) /\ Left(m) = None => Kept(Append(q, m), s, None)
  BY <1>2, Appended DEF Kept
<1>4. \A i \in 1 .. Len(q) : Refuses(m, s) /\ Left(q[i]) = "MMI" => Undoes(m, q[i], s)
  BY DEF Undoes
<1>5. p = "MMI" /\ Refuses(m, s) => Kept(Append(q, m), s, None)
  BY <1>4, Appended, RefusesTouches DEF Kept
<1> QED BY <1>1, <1>3, <1>5

LEMMA KeptFree ==
  ASSUME NEW q \in Seq(Spdu), NEW s, NEW r, Kept(q, s, None)
  PROVE  Kept(q, s, r)
BY DEF Kept

LEMMA KeptTail ==
  ASSUME NEW q \in Seq(Spdu), q # <<>>, NEW s, NEW p, Kept(q, s, p)
  PROVE  /\ Kept(Tail(q), s, p)
         /\ Touches(Head(q), s) /\ Left(Head(q)) \notin {None, p} =>
              \/ Has(Tail(q), "CLOSE_RESPONSE", s)
              \/ Left(Head(q)) = "MMI" /\ Told(Tail(q), s)
<1>1. Kept(Tail(q), s, p)
  <2> SUFFICES ASSUME NEW i \in 1 .. Len(Tail(q)), Touches(Tail(q)[i], s),
                      Left(Tail(q)[i]) \notin {None, p}
               PROVE  \E j \in i + 1 .. Len(Tail(q)) : Undoes(Tail(q)[j], Tail(q)[i], s)
    BY DEF Kept
  <2>1. i + 1 \in 1 .. Len(q) /\ Tail(q)[i] = q[i + 1]
    BY Shortened
  <2>2. PICK j \in i + 2 .. Len(q) : Undoes(q[j], q[i + 1], s)
    BY <2>1 DEF Kept
  <2>3. j - 1 \in i + 1 .. Len(Tail(q)) /\ q[j] = Tail(q)[j - 1]
    BY <2>2, Shortened
  <2> QED BY <2>1, <2>2, <2>3
<1>2. ASSUME Touches(Head(q), s), Left(Head(q)) \notin {None, p}
      PROVE  \/ Has(Tail(q), "CLOSE_RESPONSE", s)
             \/ Left(Head(q)) = "MMI" /\ Told(Tail(q), s)
  <2>1. PICK j \in 2 .. Len(q) : Undoes(q[j], Head(q), s)
    BY <1>2, Shortened DEF Kept
  <2>2. j - 1 \in 1 .. Len(Tail(q)) /\ q[j] = Tail(q)[j - 1]
    BY <2>1, Shortened
  <2> QED BY <2>1, <2>2 DEF Has, Told, Undoes
<1> QED BY <1>1, <1>2

LEMMA OwnedAppend ==
  ASSUME NEW q \in Seq(Spdu), NEW m \in Spdu, NEW s, NEW p, Owned(q, s, p),
         DataOn(m, s) =>
           /\ m.r # "MMI" => m.r = p /\ p # None
           /\ ~Has(q, "CLOSE_REQUEST", s) /\ ~Has(q, "CLOSE_RESPONSE", s)
  PROVE  Owned(Append(q, m), s, p)
BY Appended DEF Owned, Has

LEMMA OwnedFree ==
  ASSUME NEW q \in Seq(Spdu), NEW s, NEW r, Owned(q, s, None)
  PROVE  Owned(q, s, r)
BY DEF Owned

LEMMA OwnedTail ==
  ASSUME NEW q \in Seq(Spdu), q # <<>>, NEW s, NEW p, NEW r, Owned(q, s, p)
  PROVE  /\ Owned(Tail(q), s, p)
         /\ Is(Head(q), "CLOSE_REQUEST", s) \/ Is(Head(q), "CLOSE_RESPONSE", s) =>
              Owned(Tail(q), s, r) /\ Silent(Tail(q), s)
BY Shortened DEF Owned, Silent

LEMMA SilentAppend ==
  ASSUME NEW q \in Seq(Spdu), NEW m \in Spdu, NEW s, Silent(q, s), ~DataOn(m, s)
  PROVE  Silent(Append(q, m), s)
BY Appended DEF Silent

LEMMA SilentTail ==
  ASSUME NEW q \in Seq(Spdu), q # <<>>, NEW s, Silent(q, s)
  PROVE  Silent(Tail(q), s)
BY Shortened DEF Silent

(***************************************************************************)
(* Session s as long as the slot works: p is the resource that the host    *)
(* has it for, c the one the module has it for, cl are the sessions that   *)
(* the module is closing, en those whose dialogue it has ended; tc and th  *)
(* are on their way to the module and to the host.                         *)
(***************************************************************************)
\* The host has asked the module to close s and does not have the answer.
Waits(s, tc, th) == Has(tc, "CLOSE_REQUEST", s) \/ Has(th, "CLOSE_RESPONSE", s)

\* When the module has got everything it agrees with the host.
Agreeing(s, tc, th, p, c) ==
  /\ Waits(s, tc, th) => Leaves(tc, s, c, None)
  /\ ~Waits(s, tc, th) => Leaves(tc, s, c, p)
  /\ Kept(tc, s, p)
  /\ c \notin {None, p} => Has(tc, "CLOSE_RESPONSE", s) \/ (c = "MMI" /\ Told(tc, s))

\* One close of s is under way at a time, from either side.
Closing(s, tc, th, cl) ==
  /\ Has(th, "CLOSE_REQUEST", s) \/ Has(tc, "CLOSE_RESPONSE", s) => s \in cl
  /\ ~Has(th, "CLOSE_REQUEST", s) \/ ~Has(tc, "CLOSE_RESPONSE", s)
  /\ Once(th, "CLOSE_REQUEST", s) /\ Once(tc, "CLOSE_RESPONSE", s)

Ending(s, tc, th, en) ==
  /\ Has(th, "CLOSEMMI", s) \/ Has(tc, "CLOSE_REQUEST", s) => s \in en
  /\ ~Has(th, "CLOSEMMI", s) \/ ~Has(tc, "CLOSE_REQUEST", s)
  /\ Once(th, "CLOSEMMI", s) /\ RequestLast(tc, s)

Ended(s, tc, th, p, c, cl, en) ==
  /\ s \notin cl \/ s \notin en
  /\ Waits(s, tc, th) => p = "MMI"
  /\ Has(th, "CLOSE_RESPONSE", s) => c = None /\ s \notin cl \cup en /\ Untouched(tc, s)
  /\ Once(th, "CLOSE_RESPONSE", s)

\* The data comes before s is closed, and before the module is told so.
Speaking(s, tc, th, p) ==
  /\ Owned(th, s, p)
  /\ Has(tc, "CLOSE_RESPONSE", s) => Silent(th, s)

Sync(s, tc, th, p, c, cl, en) ==
  /\ Agreeing(s, tc, th, p, c)
  /\ Closing(s, tc, th, cl)
  /\ Ending(s, tc, th, en)
  /\ Ended(s, tc, th, p, c, cl, en)
  /\ Speaking(s, tc, th, p)

LEMMA SyncSame ==
  ASSUME NEW s, NEW tc, NEW th, NEW p, NEW c, NEW cl, NEW en, NEW cm, NEW em,
         Sync(s, tc, th, p, c, cl, en), s \in cl <=> s \in cm, s \in en <=> s \in em
  PROVE  Sync(s, tc, th, p, c, cm, em)
BY DEF Sync, Closing, Ending, Ended

LEMMA KindTag ==
  ASSUME NEW m \in Spdu, NEW s
  PROVE  /\ Is(m, "CLOSE_REQUEST", s) <=> m.tag = "CLOSE_REQUEST" /\ m.s = s
         /\ Is(m, "CLOSE_RESPONSE", s) <=> m.tag = "CLOSE_RESPONSE" /\ m.s = s
         /\ Is(m, "CLOSEMMI", s) <=> m.tag = "DATA" /\ m.d = "CLOSEMMI" /\ m.s = s
         /\ Touches(m, s) <=> /\ m.tag \in {"OPEN_RESPONSE", "CLOSE_REQUEST", "CLOSE_RESPONSE"}
                              /\ m.s = s
<1>1. m.tag \in Tags /\ m.d \in Replies \cup FromCam \cup {None}
  BY DEF Spdu
<1> QED BY <1>1 DEF Is, Kind, Touches, Replies, FromCam, Tags

\* The module is sent something that is not about s.
LEMMA SyncToCam ==
  ASSUME NEW s, NEW tc \in Seq(Spdu), NEW th \in Seq(Spdu), NEW p, NEW c,
         NEW cl, NEW en, Sync(s, tc, th, p, c, cl, en),
         NEW m \in Spdu, ~Touches(m, s)
  PROVE  Sync(s, Append(tc, m), th, p, c, cl, en)
<1> DEFINE t == Append(tc, m)
<1>1. /\ Has(t, "CLOSE_REQUEST", s) <=> Has(tc, "CLOSE_REQUEST", s)
      /\ Has(t, "CLOSE_RESPONSE", s) <=> Has(tc, "CLOSE_RESPONSE", s)
      /\ ~Is(m, "CLOSE_RESPONSE", s)
  BY KindTag, HasAppend
<1>2. /\ \A r : Leaves(tc, s, c, r) => Leaves(t, s, c, r)
      /\ Kept(tc, s, p) => Kept(t, s, p)
      /\ RequestLast(tc, s) => RequestLast(t, s)
      /\ Untouched(tc, s) => Untouched(t, s)
      /\ Told(tc, s) => Told(t, s)
  BY LeavesAppend, KeptAppend, RequestLastAppend, UntouchedAppend, ToldAppend
<1>3. Once(tc, "CLOSE_RESPONSE", s) => Once(t, "CLOSE_RESPONSE", s)
  BY <1>1, OnceAppend
<1> HIDE DEF t
<1> QED BY <1>1, <1>2, <1>3 DEF Sync, Agreeing, Closing, Ending, Ended, Speaking, Waits, t

\* The host has parsed something that does not close s.
LEMMA SyncParsed ==
  ASSUME NEW s, NEW tc \in Seq(Spdu), NEW th \in Seq(Spdu), NEW p, NEW c,
         NEW cl, NEW en, Sync(s, tc, th, p, c, cl, en),
         th # <<>>, ~Is(Head(th), "CLOSE_REQUEST", s), ~Is(Head(th), "CLOSE_RESPONSE", s)
  PROVE  Sync(s, tc, Tail(th), p, c, cl, en)
<1> DEFINE t == Tail(th)
<1>1. /\ Has(t, "CLOSE_REQUEST", s) <=> Has(th, "CLOSE_REQUEST", s)
      /\ Has(t, "CLOSE_RESPONSE", s) <=> Has(th, "CLOSE_RESPONSE", s)
      /\ Has(t, "CLOSEMMI", s) => Has(th, "CLOSEMMI", s)
  BY HasTail
<1>2. /\ Once(th, "CLOSE_REQUEST", s) => Once(t, "CLOSE_REQUEST", s)
      /\ Once(th, "CLOSE_RESPONSE", s) => Once(t, "CLOSE_RESPONSE", s)
      /\ Once(th, "CLOSEMMI", s) => Once(t, "CLOSEMMI", s)
      /\ Owned(th, s, p) => Owned(t, s, p)
      /\ Silent(th, s) => Silent(t, s)
  BY OnceTail, OwnedTail, SilentTail
<1> HIDE DEF t
<1> QED BY <1>1, <1>2 DEF Sync, Agreeing, Closing, Ending, Ended, Speaking, Waits, t

\* The host grants s, which is free, to r.
LEMMA SyncGranted ==
  ASSUME NEW s, NEW tc \in Seq(Spdu), NEW th \in Seq(Spdu), NEW c,
         NEW cl, NEW en, Sync(s, tc, th, None, c, cl, en),
         NEW r, r # None, NEW m \in Spdu, m.tag = "OPEN_RESPONSE", m.s = s, Left(m) = r
  PROVE  Sync(s, Append(tc, m), th, r, c, cl, en)
<1> DEFINE t == Append(tc, m)
<1>0. ~Is(m, "CLOSE_REQUEST", s) /\ ~Is(m, "CLOSE_RESPONSE", s) /\ Touches(m, s)
  BY KindTag
<1>1. /\ Has(t, "CLOSE_REQUEST", s) <=> Has(tc, "CLOSE_REQUEST", s)
      /\ Has(t, "CLOSE_RESPONSE", s) <=> Has(tc, "CLOSE_RESPONSE", s)
  BY <1>0, HasAppend
<1>2. ~Waits(s, tc, th)
  BY DEF Sync, Ended
<1>3. Leaves(t, s, c, r)
  BY <1>0, LeavesAppend
<1>4. Kept(t, s, r)
  <2>1. Kept(tc, s, r)
    BY KeptFree DEF Sync, Agreeing
  <2> QED BY <2>1, <1>0, KeptAppend
<1>5. RequestLast(t, s)
  BY <1>2, RequestLastAppend DEF Sync, Ending, Waits
<1>6. Once(t, "CLOSE_RESPONSE", s)
  BY <1>0, OnceAppend DEF Sync, Closing
<1>7. Owned(th, s, r) /\ (Told(tc, s) => Told(t, s))
  BY OwnedFree, ToldAppend DEF Sync, Speaking
<1> HIDE DEF t
<1> QED BY <1>1, <1>2, <1>3, <1>4, <1>5, <1>6, <1>7
        DEF Sync, Agreeing, Closing, Ending, Ended, Speaking, Waits, t

\* The host refuses s, which is free or has just been granted to the user
\* interface.
LEMMA SyncRefused ==
  ASSUME NEW s, NEW tc \in Seq(Spdu), NEW th \in Seq(Spdu), NEW p \in {None, "MMI"}, NEW c,
         NEW cl, NEW en, Sync(s, tc, th, p, c, cl, en),
         ~Waits(s, tc, th), Owned(th, s, None),
         NEW m \in Spdu, m.tag = "OPEN_RESPONSE", m.s = s, Left(m) = None,
         p = "MMI" => Refuses(m, s)
  PROVE  Sync(s, Append(tc, m), th, None, c, cl, en)
<1> DEFINE t == Append(tc, m)
<1>0. ~Is(m, "CLOSE_REQUEST", s) /\ ~Is(m, "CLOSE_RESPONSE", s) /\ Touches(m, s)
  BY KindTag
<1>1. /\ Has(t, "CLOSE_REQUEST", s) <=> Has(tc, "CLOSE_REQUEST", s)
      /\ Has(t, "CLOSE_RESPONSE", s) <=> Has(tc, "CLOSE_RESPONSE", s)
  BY <1>0, HasAppend
<1>3. Leaves(t, s, c, None)
  BY <1>0, LeavesAppend
<1>4. Kept(t, s, None)
  <2>1. Kept(tc, s, p)
    BY DEF Sync, Agreeing
  <2> QED BY <2>1, <1>0, KeptAppend
<1>5. RequestLast(t, s)
  BY RequestLastAppend DEF Sync, Ending, Waits
<1>6. Once(t, "CLOSE_RESPONSE", s)
  BY <1>0, OnceAppend DEF Sync, Closing
<1>7. c # None => Has(tc, "CLOSE_RESPONSE", s) \/ (c = "MMI" /\ Told(t, s))
  BY ToldAppend DEF Sync, Agreeing
<1> HIDE DEF t
<1> QED BY <1>1, <1>3, <1>4, <1>5, <1>6, <1>7
        DEF Sync, Agreeing, Closing, Ending, Ended, Speaking, Waits, t

\* The host closes s because the module asked for it.
LEMMA SyncClosed ==
  ASSUME NEW s, NEW tc \in Seq(Spdu), NEW th \in Seq(Spdu), NEW p, NEW c,
         NEW cl, NEW en, Sync(s, tc, th, p, c, cl, en),
         th # <<>>, Is(Head(th), "CLOSE_REQUEST", s),
         NEW m \in Spdu, m.tag = "CLOSE_RESPONSE", m.s = s
  PROVE  Sync(s, Append(tc, m), Tail(th), None, c, cl, en)
<1> DEFINE t == Append(tc, m)
           h == Tail(th)
<1>0. /\ ~Is(m, "CLOSE_REQUEST", s) /\ Is(m, "CLOSE_RESPONSE", s) /\ Touches(m, s)
      /\ Left(m) = None
  BY KindTag DEF Left
<1>1. /\ Has(t, "CLOSE_REQUEST", s) <=> Has(tc, "CLOSE_REQUEST", s)
      /\ Has(t, "CLOSE_RESPONSE", s)
      /\ Has(th, "CLOSE_REQUEST", s)
      /\ Has(h, "CLOSE_RESPONSE", s) => Has(th, "CLOSE_RESPONSE", s)
      /\ Has(h, "CLOSEMMI", s) => Has(th, "CLOSEMMI", s)
  BY <1>0, HasAppend, HasTail
<1>2. s \in cl /\ s \notin en /\ ~Has(tc, "CLOSE_RESPONSE", s) /\ ~Waits(s, tc, th)
  BY <1>1 DEF Sync, Closing, Ending, Ended, Waits
<1>3. Leaves(t, s, c, None)
  BY <1>0, LeavesAppend
<1>4. Kept(t, s, None)
  BY <1>0, KeptAppend DEF Sync, Agreeing
<1>5. RequestLast(t, s)
  BY <1>2, RequestLastAppend DEF Sync, Ending, Waits
<1>6. Once(t, "CLOSE_RESPONSE", s)
  BY <1>2, OnceAppend DEF Sync, Closing
<1>7. /\ Once(h, "CLOSE_REQUEST", s) /\ ~Has(h, "CLOSE_REQUEST", s)
      /\ Once(h, "CLOSE_RESPONSE", s) /\ Once(h, "CLOSEMMI", s)
  BY OnceTail DEF Sync, Closing, Ending, Ended
<1>8. Owned(h, s, None) /\ Silent(h, s)
  BY OwnedTail DEF Sync, Speaking
<1> HIDE DEF t, h
<1>9. Agreeing(s, t, h, None, c) /\ Speaking(s, t, h, None)
  BY <1>1, <1>2, <1>3, <1>4, <1>8 DEF Agreeing, Speaking, Waits
<1> QED BY <1>1, <1>2, <1>5, <1>6, <1>7, <1>9 DEF Sync, Closing, Ending, Ended, Waits, t, h

\* The host has the module's answer to its request to close s.
LEMMA SyncAnswered ==
  ASSUME NEW s, NEW tc \in Seq(Spdu), NEW th \in Seq(Spdu), NEW p, NEW c,
         NEW cl, NEW en, Sync(s, tc, th, p, c, cl, en),
         th # <<>>, Is(Head(th), "CLOSE_RESPONSE", s)
  PROVE  Sync(s, tc, Tail(th), None, c, cl, en)
<1> DEFINE h == Tail(th)
<1>0. Kind(Head(th)) = "CLOSE_RESPONSE" /\ ~Is(Head(th), "CLOSE_REQUEST", s)
  BY DEF Is
<1>1. /\ Has(th, "CLOSE_RESPONSE", s)
      /\ Has(h, "CLOSE_REQUEST", s) <=> Has(th, "CLOSE_REQUEST", s)
      /\ Has(h, "CLOSEMMI", s) => Has(th, "CLOSEMMI", s)
  BY <1>0, HasTail
<1>2. p = "MMI" /\ c = None /\ s \notin cl \cup en /\ Untouched(tc, s) /\ Waits(s, tc, th)
  BY <1>1 DEF Sync, Ended, Waits
<1>3. Leaves(tc, s, c, None)
  BY <1>2 DEF Sync, Agreeing
<1>4. Kept(tc, s, None)
  BY <1>2 DEF Kept, Untouched
<1>5. /\ Once(h, "CLOSE_RESPONSE", s) /\ ~Has(h, "CLOSE_RESPONSE", s)
      /\ Once(h, "CLOSE_REQUEST", s) /\ Once(h, "CLOSEMMI", s)
  BY OnceTail DEF Sync, Closing, Ending, Ended
<1>6. Owned(h, s, None) /\ Silent(h, s)
  BY OwnedTail DEF Sync, Speaking
<1> HIDE DEF h
<1> QED BY <1>1, <1>2, <1>3, <1>4, <1>5, <1>6
        DEF Sync, Agreeing, Closing, Ending, Ended, Speaking, Waits, h

\* The host asks the module to close s, because the module has ended the
\* dialogue.
LEMMA SyncEnded ==
  ASSUME NEW s, NEW tc \in Seq(Spdu), NEW th \in Seq(Spdu), NEW c,
         NEW cl, NEW en, Sync(s, tc, th, "MMI", c, cl, en),
         th # <<>>, Is(Head(th), "CLOSEMMI", s),
         NEW m \in Spdu, m.tag = "CLOSE_REQUEST", m.s = s
  PROVE  Sync(s, Append(tc, m), Tail(th), "MMI", c, cl, en)
<1> DEFINE t == Append(tc, m)
           h == Tail(th)
<1>0. /\ Is(m, "CLOSE_REQUEST", s) /\ ~Is(m, "CLOSE_RESPONSE", s) /\ Touches(m, s)
      /\ Left(m) = None
      /\ ~Is(Head(th), "CLOSE_REQUEST", s) /\ ~Is(Head(th), "CLOSE_RESPONSE", s)
  BY KindTag DEF Left, Is
<1>1. /\ Has(t, "CLOSE_REQUEST", s)
      /\ Has(t, "CLOSE_RESPONSE", s) <=> Has(tc, "CLOSE_RESPONSE", s)
      /\ Has(th, "CLOSEMMI", s)
      /\ Has(h, "CLOSE_RESPONSE", s) <=> Has(th, "CLOSE_RESPONSE", s)
      /\ Has(h, "CLOSE_REQUEST", s) <=> Has(th, "CLOSE_REQUEST", s)
  BY <1>0, HasAppend, HasTail
<1>2. s \in en /\ s \notin cl /\ ~Has(tc, "CLOSE_REQUEST", s) /\ ~Has(th, "CLOSE_RESPONSE", s)
  BY <1>1 DEF Sync, Ending, Ended
<1>3. Leaves(t, s, c, None)
  BY <1>0, LeavesAppend
<1>4. Kept(t, s, "MMI")
  BY <1>0, KeptAppend DEF Sync, Agreeing
<1>5. RequestLast(t, s)
  BY <1>2, RequestLastAppend DEF Sync, Ending
<1>6. Once(t, "CLOSE_RESPONSE", s)
  BY <1>0, OnceAppend DEF Sync, Closing
<1>7. /\ Once(h, "CLOSE_REQUEST", s) /\ ~Has(h, "CLOSEMMI", s)
      /\ Once(h, "CLOSE_RESPONSE", s) /\ Once(h, "CLOSEMMI", s)
  BY OnceTail DEF Sync, Closing, Ending, Ended
<1>8. /\ Owned(h, s, "MMI") /\ (Silent(th, s) => Silent(h, s))
      /\ Told(tc, s) => Told(t, s)
  BY OwnedTail, SilentTail, ToldAppend DEF Sync, Speaking
<1> HIDE DEF t, h
<1> QED BY <1>1, <1>2, <1>3, <1>4, <1>5, <1>6, <1>7, <1>8
        DEF Sync, Agreeing, Closing, Ending, Ended, Speaking, Waits, t, h

\* The host is sent something that is not about s, or asks for a session.
LEMMA SyncToHost ==
  ASSUME NEW s, NEW tc \in Seq(Spdu), NEW th \in Seq(Spdu), NEW p, NEW c,
         NEW cl, NEW en, Sync(s, tc, th, p, c, cl, en),
         NEW m \in Spdu, m.s # s \/ m.tag = "OPEN_REQUEST"
  PROVE  Sync(s, tc, Append(th, m), p, c, cl, en)
<1> DEFINE h == Append(th, m)
<1>0. /\ ~Is(m, "CLOSE_REQUEST", s) /\ ~Is(m, "CLOSE_RESPONSE", s) /\ ~Is(m, "CLOSEMMI", s)
      /\ ~DataOn(m, s)
  BY KindTag DEF DataOn
<1>1. /\ Has(h, "CLOSE_REQUEST", s) <=> Has(th, "CLOSE_REQUEST", s)
      /\ Has(h, "CLOSE_RESPONSE", s) <=> Has(th, "CLOSE_RESPONSE", s)
      /\ Has(h, "CLOSEMMI", s) <=> Has(th, "CLOSEMMI", s)
  BY <1>0, HasAppend
<1>2. /\ Once(h, "CLOSE_REQUEST", s) /\ Once(h, "CLOSE_RESPONSE", s) /\ Once(h, "CLOSEMMI", s)
  BY <1>0, OnceAppend DEF Sync, Closing, Ending, Ended
<1>3. Owned(h, s, p) /\ (Silent(th, s) => Silent(h, s))
  BY <1>0, OwnedAppend, SilentAppend DEF Sync, Speaking
<1> HIDE DEF h
<1> QED BY <1>1, <1>2, <1>3 DEF Sync, Agreeing, Closing, Ending, Ended, Speaking, Waits, h

\* The module asks the host to close s.
LEMMA SyncClosing ==
  ASSUME NEW s, NEW tc \in Seq(Spdu), NEW th \in Seq(Spdu), NEW p, NEW c,
         NEW cl, NEW en, Sync(s, tc, th, p, c, cl, en), s \notin cl, s \notin en, c # None,
         NEW m \in Spdu, m.tag = "CLOSE_REQUEST", m.s = s
  PROVE  Sync(s, tc, Append(th, m), p, c, cl \cup {s}, en)
<1> DEFINE h == Append(th, m)
<1>0. /\ Is(m, "CLOSE_REQUEST", s) /\ ~Is(m, "CLOSE_RESPONSE", s) /\ ~Is(m, "CLOSEMMI", s)
      /\ ~DataOn(m, s)
  BY KindTag DEF DataOn
<1>1. /\ Has(h, "CLOSE_RESPONSE", s) <=> Has(th, "CLOSE_RESPONSE", s)
      /\ Has(h, "CLOSEMMI", s) <=> Has(th, "CLOSEMMI", s)
  BY <1>0, HasAppend
<1>2. /\ ~Has(th, "CLOSE_REQUEST", s) /\ ~Has(tc, "CLOSE_RESPONSE", s)
      /\ ~Has(th, "CLOSE_RESPONSE", s)
  BY DEF Sync, Closing, Ended
<1>3. /\ Once(h, "CLOSE_REQUEST", s) /\ Once(h, "CLOSE_RESPONSE", s) /\ Once(h, "CLOSEMMI", s)
  BY <1>0, <1>2, OnceAppend DEF Sync, Closing, Ending, Ended
<1>4. Owned(h, s, p)
  BY <1>0, OwnedAppend DEF Sync, Speaking
<1> HIDE DEF h
<1> QED BY <1>1, <1>2, <1>3, <1>4 DEF Sync, Agreeing, Closing, Ending, Ended, Speaking, Waits, h

\* The module sends data on s, perhaps the end of the dialogue.
LEMMA SyncData ==
  ASSUME NEW s, NEW tc \in Seq(Spdu), NEW th \in Seq(Spdu), NEW p, NEW c,
         NEW cl, NEW en, Sync(s, tc, th, p, c, cl, en), s \notin cl, s \notin en, c # None,
         NEW m \in Spdu, m.tag = "DATA", m.s = s, m.r = c,
         NEW f, f = IF m.d = "CLOSEMMI" THEN en \cup {s} ELSE en
  PROVE  Sync(s, tc, Append(th, m), p, c, cl, f)
<1> DEFINE h == Append(th, m)
<1>0. /\ ~Is(m, "CLOSE_REQUEST", s) /\ ~Is(m, "CLOSE_RESPONSE", s)
      /\ Is(m, "CLOSEMMI", s) <=> s \in f
  BY KindTag
<1>1. /\ Has(h, "CLOSE_RESPONSE", s) <=> Has(th, "CLOSE_RESPONSE", s)
      /\ Has(h, "CLOSE_REQUEST", s) <=> Has(th, "CLOSE_REQUEST", s)
      /\ Has(h, "CLOSEMMI", s) <=> Has(th, "CLOSEMMI", s) \/ s \in f
  BY <1>0, HasAppend
<1>2. /\ ~Has(th, "CLOSE_REQUEST", s) /\ ~Has(tc, "CLOSE_RESPONSE", s)
      /\ ~Has(th, "CLOSE_RESPONSE", s) /\ ~Has(th, "CLOSEMMI", s)
      /\ ~Has(tc, "CLOSE_REQUEST", s)
  BY DEF Sync, Closing, Ending, Ended
<1>3. /\ Once(h, "CLOSE_REQUEST", s) /\ Once(h, "CLOSE_RESPONSE", s) /\ Once(h, "CLOSEMMI", s)
  BY <1>0, <1>2, OnceAppend DEF Sync, Closing, Ending, Ended
<1>4. Owned(h, s, p)
  <2>1. c \in {"MMI", p}
    BY <1>2 DEF Sync, Agreeing
  <2>2. Owned(th, s, p)
    BY DEF Sync, Speaking
  <2> QED BY <1>2, <2>1, <2>2, OwnedAppend
<1> HIDE DEF h
<1> QED BY <1>1, <1>2, <1>3, <1>4 DEF Sync, Agreeing, Closing, Ending, Ended, Speaking, Waits, h

\* The module has got something that is not about s.
LEMMA SyncTaken ==
  ASSUME NEW s, NEW tc \in Seq(Spdu), NEW th \in Seq(Spdu), NEW p, NEW c,
         NEW cl, NEW en, Sync(s, tc, th, p, c, cl, en),
         tc # <<>>, ~Touches(Head(tc), s)
  PROVE  Sync(s, Tail(tc), th, p, c, cl, en)
<1> DEFINE t == Tail(tc)
<1>0. Head(tc) \in Spdu
  BY Shortened
<1>1. /\ ~Is(Head(tc), "CLOSE_REQUEST", s) /\ ~Is(Head(tc), "CLOSE_RESPONSE", s)
  BY <1>0, KindTag
<1>2. /\ Has(t, "CLOSE_REQUEST", s) <=> Has(tc, "CLOSE_REQUEST", s)
      /\ Has(t, "CLOSE_RESPONSE", s) <=> Has(tc, "CLOSE_RESPONSE", s)
  BY <1>1, HasTail
<1>3. \A r : Leaves(tc, s, c, r) => Leaves(t, s, c, r)
  BY LeavesTail
<1>4. /\ Kept(tc, s, p) => Kept(t, s, p)
      /\ RequestLast(tc, s) => RequestLast(t, s)
      /\ Untouched(tc, s) => Untouched(t, s)
      /\ Once(tc, "CLOSE_RESPONSE", s) => Once(t, "CLOSE_RESPONSE", s)
      /\ Told(tc, s) => Told(t, s)
  BY KeptTail, RequestLastTail, UntouchedTail, OnceTail, ToldTail
<1> HIDE DEF t
<1> QED BY <1>2, <1>3, <1>4 DEF Sync, Agreeing, Closing, Ending, Ended, Speaking, Waits, t

\* The module has got a grant or a refusal of s.
LEMMA SyncOpened ==
  ASSUME NEW s, NEW tc \in Seq(Spdu), NEW th \in Seq(Spdu), NEW p, NEW c,
         NEW cl, NEW en, Sync(s, tc, th, p, c, cl, en),
         tc # <<>>, Head(tc).tag = "OPEN_RESPONSE", Head(tc).s = s
  PROVE  Sync(s, Tail(tc), th, p, Left(Head(tc)), cl, en)
<1> DEFINE t == Tail(tc)
           d == Left(Head(tc))
<1>0. Head(tc) \in Spdu
  BY Shortened
<1>1. /\ ~Is(Head(tc), "CLOSE_REQUEST", s) /\ ~Is(Head(tc), "CLOSE_RESPONSE", s)
      /\ Touches(Head(tc), s)
  BY <1>0, KindTag
<1>2. /\ Has(t, "CLOSE_REQUEST", s) <=> Has(tc, "CLOSE_REQUEST", s)
      /\ Has(t, "CLOSE_RESPONSE", s) <=> Has(tc, "CLOSE_RESPONSE", s)
  BY <1>1, HasTail
<1>3. \A r : Leaves(tc, s, c, r) => Leaves(t, s, d, r)
  BY <1>1, LeavesTail
<1>4. ASSUME Kept(tc, s, p)
      PROVE  /\ Kept(t, s, p)
             /\ d \notin {None, p} => Has(t, "CLOSE_RESPONSE", s) \/ (d = "MMI" /\ Told(t, s))
  BY <1>1, <1>4, KeptTail
<1>5. /\ RequestLast(tc, s) => RequestLast(t, s)
      /\ ~Untouched(tc, s)
      /\ Once(tc, "CLOSE_RESPONSE", s) => Once(t, "CLOSE_RESPONSE", s)
  BY <1>1, RequestLastTail, UntouchedTail, OnceTail
<1> HIDE DEF t, d
<1> QED BY <1>2, <1>3, <1>4, <1>5 DEF Sync, Agreeing, Closing, Ending, Ended, Speaking, Waits, t, d

\* The module has got the answer to its request to close s.
LEMMA SyncConfirmed ==
  ASSUME NEW s, NEW tc \in Seq(Spdu), NEW th \in Seq(Spdu), NEW p, NEW c,
         NEW cl, NEW en, Sync(s, tc, th, p, c, cl, en),
         tc # <<>>, Head(tc).tag = "CLOSE_RESPONSE", Head(tc).s = s
  PROVE  Sync(s, Tail(tc), th, p, None, cl \ {s}, en \ {s})
<1> DEFINE t == Tail(tc)
<1>0. Head(tc) \in Spdu
  BY Shortened
<1>1. /\ ~Is(Head(tc), "CLOSE_REQUEST", s) /\ Is(Head(tc), "CLOSE_RESPONSE", s)
      /\ Touches(Head(tc), s) /\ Left(Head(tc)) = None
  BY <1>0, KindTag DEF Left
<1>2. /\ Has(t, "CLOSE_REQUEST", s) <=> Has(tc, "CLOSE_REQUEST", s)
      /\ Has(tc, "CLOSE_RESPONSE", s)
  BY <1>1, HasTail
<1>3. \A r : Leaves(tc, s, c, r) => Leaves(t, s, None, r)
  BY <1>1, LeavesTail
<1>4. Kept(tc, s, p) => Kept(t, s, p)
  BY KeptTail
<1>5. /\ RequestLast(tc, s) => RequestLast(t, s)
      /\ ~Untouched(tc, s)
      /\ Once(tc, "CLOSE_RESPONSE", s) =>
           Once(t, "CLOSE_RESPONSE", s) /\ ~Has(t, "CLOSE_RESPONSE", s)
  BY <1>1, RequestLastTail, UntouchedTail, OnceTail
<1> HIDE DEF t
<1> QED BY <1>2, <1>3, <1>4, <1>5 DEF Sync, Agreeing, Closing, Ending, Ended, Speaking, Waits, t

\* The module has got the host's request to close s, and answers it.
LEMMA SyncClosedToo ==
  ASSUME NEW s, NEW tc \in Seq(Spdu), NEW th \in Seq(Spdu), NEW p, NEW c,
         NEW cl, NEW en, Sync(s, tc, th, p, c, cl, en),
         tc # <<>>, Head(tc).tag = "CLOSE_REQUEST", Head(tc).s = s,
         NEW m \in Spdu, m.tag = "CLOSE_RESPONSE", m.s = s
  PROVE  Sync(s, Tail(tc), Append(th, m), p, None, cl \ {s}, en \ {s})
<1> DEFINE t == Tail(tc)
           h == Append(th, m)
<1>0. Head(tc) \in Spdu
  BY Shortened
<1>1. /\ Is(Head(tc), "CLOSE_REQUEST", s) /\ ~Is(Head(tc), "CLOSE_RESPONSE", s)
      /\ Touches(Head(tc), s) /\ Left(Head(tc)) = None
      /\ ~Is(m, "CLOSE_REQUEST", s) /\ Is(m, "CLOSE_RESPONSE", s) /\ ~Is(m, "CLOSEMMI", s)
      /\ ~DataOn(m, s)
  BY <1>0, KindTag DEF Left, DataOn
<1>2. /\ Has(tc, "CLOSE_REQUEST", s)
      /\ Has(t, "CLOSE_RESPONSE", s) <=> Has(tc, "CLOSE_RESPONSE", s)
      /\ Has(h, "CLOSE_RESPONSE", s)
      /\ Has(h, "CLOSE_REQUEST", s) <=> Has(th, "CLOSE_REQUEST", s)
      /\ Has(h, "CLOSEMMI", s) <=> Has(th, "CLOSEMMI", s)
  BY <1>1, HasTail, HasAppend
<1>3. /\ s \in en /\ s \notin cl /\ p = "MMI" /\ Waits(s, tc, th)
      /\ ~Has(th, "CLOSEMMI", s)
      /\ ~Has(th, "CLOSE_REQUEST", s) /\ ~Has(tc, "CLOSE_RESPONSE", s)
      /\ ~Has(th, "CLOSE_RESPONSE", s)
  BY <1>2 DEF Sync, Closing, Ending, Ended, Waits
<1>4. Untouched(t, s)
  BY <1>1, RequestLastTail DEF Sync, Ending
<1>5. ~Has(t, "CLOSE_REQUEST", s)
  <2>1. \A i \in 1 .. Len(t) : t[i] \in Spdu
    BY Shortened
  <2>2. \A i \in 1 .. Len(t) : Is(t[i], "CLOSE_REQUEST", s) => Touches(t[i], s)
    BY <2>1, KindTag
  <2> QED BY <1>4, <2>2 DEF Has, Untouched
<1>6. Leaves(t, s, None, None)
  BY <1>4 DEF Leaves
<1>7. Kept(t, s, p) /\ RequestLast(t, s) /\ Once(t, "CLOSE_RESPONSE", s)
  BY KeptTail, RequestLastTail, OnceTail DEF Sync, Agreeing, Closing, Ending
<1>8. /\ Once(h, "CLOSE_REQUEST", s) /\ Once(h, "CLOSE_RESPONSE", s) /\ Once(h, "CLOSEMMI", s)
  BY <1>1, <1>3, OnceAppend DEF Sync, Closing, Ending, Ended
<1>9. Owned(h, s, p)
  BY <1>1, OwnedAppend DEF Sync, Speaking
<1> HIDE DEF t, h
<1> QED BY <1>2, <1>3, <1>4, <1>5, <1>6, <1>7, <1>8, <1>9
        DEF Sync, Agreeing, Closing, Ending, Ended, Speaking, Waits, t, h

(***************************************************************************)
(* All sessions.                                                           *)
(***************************************************************************)
SyncAll(tc, th, p, c, cl, en) ==
  \A s \in Session : Sync(s, tc, th, p[s], c[s], cl, en)

LEMMA AllToCam ==
  ASSUME NEW tc \in Seq(Spdu), NEW th \in Seq(Spdu), NEW p, NEW c, NEW cl, NEW en,
         SyncAll(tc, th, p, c, cl, en), NEW m \in Spdu, m.tag = "DATA"
  PROVE  SyncAll(Append(tc, m), th, p, c, cl, en)
<1>1. \A s : ~Touches(m, s)
  BY DEF Touches
<1> QED BY <1>1, SyncToCam DEF SyncAll

\* What is sent is nothing, or data.
LEMMA AllSent ==
  ASSUME NEW th \in Seq(Spdu), NEW p, NEW c, NEW cl, NEW en, toCam \in Seq(Spdu),
         SyncAll(toCam, th, p, c, cl, en), NEW w, Send(w),
         w = <<>> \/ \E m \in Spdu : m.tag = "DATA" /\ w = <<m>>
  PROVE  SyncAll(toCam', th, p, c, cl, en)
<1>1. CASE toCam' = toCam
  BY <1>1
<1>2. CASE toCam' # toCam
  <2>1. toCam' = toCam \o w /\ w # <<>>
    BY <1>2 DEF Send
  <2>2. PICK m \in Spdu : m.tag = "DATA" /\ w = <<m>>
    BY <2>1
  <2>3. toCam' = Append(toCam, m)
    BY <2>1, <2>2
  <2> QED BY <2>2, <2>3, AllToCam
<1> QED BY <1>1, <1>2

LEMMA AllParsed ==
  ASSUME NEW tc \in Seq(Spdu), NEW th \in Seq(Spdu), NEW p, NEW c, NEW cl, NEW en,
         SyncAll(tc, th, p, c, cl, en), th # <<>>, Head(th).tag \in {"OPEN_REQUEST", "DATA"}
  PROVE  SyncAll(tc, Tail(th), p, c, cl, en)
<1>1. Head(th) \in Spdu
  BY Shortened
<1>2. \A s : ~Is(Head(th), "CLOSE_REQUEST", s) /\ ~Is(Head(th), "CLOSE_RESPONSE", s)
  BY <1>1, KindTag
<1> QED BY <1>2, SyncParsed DEF SyncAll

LEMMA AllGranted ==
  ASSUME NEW tc \in Seq(Spdu), NEW th \in Seq(Spdu), NEW p, DOMAIN p = Session, NEW c,
         NEW cl, NEW en, SyncAll(tc, th, p, c, cl, en),
         NEW s \in Session, p[s] = None, NEW r, r # None,
         NEW m \in Spdu, m.tag = "OPEN_RESPONSE", m.s = s, Left(m) = r
  PROVE  /\ SyncAll(Append(tc, m), th, [p EXCEPT ![s] = r], c, cl, en)
         /\ ~Waits(s, tc, th) /\ Owned(th, s, None)
<1> DEFINE q == [p EXCEPT ![s] = r]
<1>0. q[s] = r /\ \A x \in Session : x # s => q[x] = p[x]
  OBVIOUS
<1> HIDE DEF q
<1>1. ASSUME NEW x \in Session
      PROVE  Sync(x, Append(tc, m), th, q[x], c[x], cl, en)
  <2>1. Sync(x, tc, th, p[x], c[x], cl, en)
    BY DEF SyncAll
  <2>2. CASE x = s
    <3>1. Sync(s, tc, th, None, c[s], cl, en)
      BY <2>1, <2>2
    <3>2. Sync(s, Append(tc, m), th, r, c[s], cl, en)
      BY <3>1, SyncGranted
    <3> QED BY <1>0, <2>2, <3>2
  <2>3. CASE x # s
    <3>1. ~Touches(m, x)
      BY <2>3 DEF Touches
    <3> QED BY <1>0, <2>1, <2>3, <3>1, SyncToCam
  <2> QED BY <2>2, <2>3
<1>2. Sync(s, tc, th, None, c[s], cl, en)
  BY DEF SyncAll
<1>3. ~Waits(s, tc, th) /\ Owned(th, s, None)
  BY <1>2 DEF Sync, Ended, Speaking
<1> QED BY <1>1, <1>3 DEF SyncAll, q

LEMMA AllRefused ==
  ASSUME NEW tc \in Seq(Spdu), NEW th \in Seq(Spdu), NEW p, DOMAIN p = Session, NEW c,
         NEW cl, NEW en, SyncAll(tc, th, p, c, cl, en),
         NEW s \in Session, p[s] \in {None, "MMI"}, ~Waits(s, tc, th), Owned(th, s, None),
         NEW m \in Spdu, m.tag = "OPEN_RESPONSE", m.s = s, Left(m) = None,
         p[s] = "MMI" => Refuses(m, s)
  PROVE  SyncAll(Append(tc, m), th, [p EXCEPT ![s] = None], c, cl, en)
<1> DEFINE q == [p EXCEPT ![s] = None]
<1>0. q[s] = None /\ \A x \in Session : x # s => q[x] = p[x]
  OBVIOUS
<1> HIDE DEF q
<1>1. ASSUME NEW x \in Session
      PROVE  Sync(x, Append(tc, m), th, q[x], c[x], cl, en)
  <2>1. Sync(x, tc, th, p[x], c[x], cl, en)
    BY DEF SyncAll
  <2>2. CASE x = s
    <3>1. Sync(s, Append(tc, m), th, None, c[s], cl, en)
      BY <2>1, <2>2, SyncRefused
    <3> QED BY <1>0, <2>2, <3>1
  <2>3. CASE x # s
    <3>1. ~Touches(m, x)
      BY <2>3 DEF Touches
    <3> QED BY <1>0, <2>1, <2>3, <3>1, SyncToCam
  <2> QED BY <2>2, <2>3
<1> QED BY <1>1 DEF SyncAll, q

LEMMA AllClosed ==
  ASSUME NEW tc \in Seq(Spdu), NEW th \in Seq(Spdu), NEW p, DOMAIN p = Session, NEW c,
         NEW cl, NEW en, SyncAll(tc, th, p, c, cl, en), th # <<>>,
         NEW s \in Session, Head(th).tag = "CLOSE_REQUEST", Head(th).s = s,
         NEW m \in Spdu, m.tag = "CLOSE_RESPONSE", m.s = s
  PROVE  SyncAll(Append(tc, m), Tail(th), [p EXCEPT ![s] = None], c, cl, en)
<1> DEFINE q == [p EXCEPT ![s] = None]
<1>0. /\ q[s] = None /\ \A x \in Session : x # s => q[x] = p[x]
      /\ Head(th) \in Spdu
      /\ Tail(th) \in Seq(Spdu)
  BY Shortened
<1> HIDE DEF q
<1>1. ASSUME NEW x \in Session
      PROVE  Sync(x, Append(tc, m), Tail(th), q[x], c[x], cl, en)
  <2>1. Sync(x, tc, th, p[x], c[x], cl, en)
    BY DEF SyncAll
  <2>2. CASE x = s
    <3>1. Is(Head(th), "CLOSE_REQUEST", s)
      BY <1>0, KindTag
    <3>2. Sync(s, Append(tc, m), Tail(th), None, c[s], cl, en)
      BY <2>1, <2>2, <3>1, SyncClosed
    <3> QED BY <1>0, <2>2, <3>2
  <2>3. CASE x # s
    <3>1. /\ ~Touches(m, x)
          /\ ~Is(Head(th), "CLOSE_REQUEST", x) /\ ~Is(Head(th), "CLOSE_RESPONSE", x)
      BY <2>3 DEF Touches, Is
    <3>2. Sync(x, tc, Tail(th), p[x], c[x], cl, en)
      BY <2>1, <3>1, SyncParsed
    <3> QED BY <1>0, <2>3, <3>1, <3>2, SyncToCam
  <2> QED BY <2>2, <2>3
<1> QED BY <1>1 DEF SyncAll, q

LEMMA AllAnswered ==
  ASSUME NEW tc \in Seq(Spdu), NEW th \in Seq(Spdu), NEW p, DOMAIN p = Session, NEW c,
         NEW cl, NEW en, SyncAll(tc, th, p, c, cl, en), th # <<>>,
         NEW s \in Session, Head(th).tag = "CLOSE_RESPONSE", Head(th).s = s
  PROVE  SyncAll(tc, Tail(th), [p EXCEPT ![s] = None], c, cl, en)
<1> DEFINE q == [p EXCEPT ![s] = None]
<1>0. /\ q[s] = None /\ \A x \in Session : x # s => q[x] = p[x]
      /\ Head(th) \in Spdu
  BY Shortened
<1> HIDE DEF q
<1>1. ASSUME NEW x \in Session
      PROVE  Sync(x, tc, Tail(th), q[x], c[x], cl, en)
  <2>1. Sync(x, tc, th, p[x], c[x], cl, en)
    BY DEF SyncAll
  <2>2. CASE x = s
    <3>1. Is(Head(th), "CLOSE_RESPONSE", s)
      BY <1>0, KindTag
    <3>2. Sync(s, tc, Tail(th), None, c[s], cl, en)
      BY <2>1, <2>2, <3>1, SyncAnswered
    <3> QED BY <1>0, <2>2, <3>2
  <2>3. CASE x # s
    <3>1. ~Is(Head(th), "CLOSE_REQUEST", x) /\ ~Is(Head(th), "CLOSE_RESPONSE", x)
      BY <2>3 DEF Is
    <3> QED BY <1>0, <2>1, <2>3, <3>1, SyncParsed
  <2> QED BY <2>2, <2>3
<1> QED BY <1>1 DEF SyncAll, q

LEMMA AllEnded ==
  ASSUME NEW tc \in Seq(Spdu), NEW th \in Seq(Spdu), NEW p, NEW c,
         NEW cl, NEW en, SyncAll(tc, th, p, c, cl, en), th # <<>>,
         NEW s \in Session, p[s] = "MMI",
         Head(th).tag = "DATA", Head(th).s = s, Head(th).d = "CLOSEMMI",
         NEW m \in Spdu, m.tag = "CLOSE_REQUEST", m.s = s
  PROVE  SyncAll(Append(tc, m), Tail(th), p, c, cl, en)
<1>0. Head(th) \in Spdu /\ Tail(th) \in Seq(Spdu)
  BY Shortened
<1>1. ASSUME NEW x \in Session
      PROVE  Sync(x, Append(tc, m), Tail(th), p[x], c[x], cl, en)
  <2>1. Sync(x, tc, th, p[x], c[x], cl, en)
    BY DEF SyncAll
  <2>2. CASE x = s
    <3>1. Is(Head(th), "CLOSEMMI", s)
      BY <1>0, KindTag
    <3>2. Sync(s, tc, th, "MMI", c[s], cl, en)
      BY <2>1, <2>2
    <3>3. Sync(s, Append(tc, m), Tail(th), "MMI", c[s], cl, en)
      BY <3>1, <3>2, SyncEnded
    <3> QED BY <2>2, <3>3
  <2>3. CASE x # s
    <3>1. /\ ~Touches(m, x)
          /\ ~Is(Head(th), "CLOSE_REQUEST", x) /\ ~Is(Head(th), "CLOSE_RESPONSE", x)
      BY <2>3 DEF Touches, Is
    <3>2. Sync(x, tc, Tail(th), p[x], c[x], cl, en)
      BY <2>1, <3>1, SyncParsed
    <3> QED BY <1>0, <3>1, <3>2, SyncToCam
  <2> QED BY <2>2, <2>3
<1> QED BY <1>1 DEF SyncAll

LEMMA AllOpening ==
  ASSUME NEW tc \in Seq(Spdu), NEW th \in Seq(Spdu), NEW p, NEW c,
         NEW cl, NEW en, SyncAll(tc, th, p, c, cl, en),
         NEW m \in Spdu, m.tag = "OPEN_REQUEST"
  PROVE  SyncAll(tc, Append(th, m), p, c, cl, en)
BY SyncToHost DEF SyncAll

LEMMA AllClosing ==
  ASSUME NEW tc \in Seq(Spdu), NEW th \in Seq(Spdu), NEW p, NEW c,
         NEW cl, NEW en, SyncAll(tc, th, p, c, cl, en),
         NEW s \in Session, c[s] # None, s \notin cl, s \notin en,
         NEW m \in Spdu, m.tag = "CLOSE_REQUEST", m.s = s
  PROVE  SyncAll(tc, Append(th, m), p, c, cl \cup {s}, en)
<1>1. ASSUME NEW x \in Session
      PROVE  Sync(x, tc, Append(th, m), p[x], c[x], cl \cup {s}, en)
  <2>1. Sync(x, tc, th, p[x], c[x], cl, en)
    BY DEF SyncAll
  <2>2. CASE x = s
    BY <2>1, <2>2, SyncClosing
  <2>3. CASE x # s
    <3>1. Sync(x, tc, Append(th, m), p[x], c[x], cl, en)
      BY <2>1, <2>3, SyncToHost
    <3> QED BY <2>3, <3>1, SyncSame
  <2> QED BY <2>2, <2>3
<1> QED BY <1>1 DEF SyncAll

LEMMA AllData ==
  ASSUME NEW tc \in Seq(Spdu), NEW th \in Seq(Spdu), NEW p, NEW c,
         NEW cl, NEW en, SyncAll(tc, th, p, c, cl, en),
         NEW s \in Session, c[s] # None, s \notin cl, s \notin en,
         NEW m \in Spdu, m.tag = "DATA", m.s = s, m.r = c[s],
         NEW f, f = IF m.d = "CLOSEMMI" THEN en \cup {s} ELSE en
  PROVE  SyncAll(tc, Append(th, m), p, c, cl, f)
<1>1. ASSUME NEW x \in Session
      PROVE  Sync(x, tc, Append(th, m), p[x], c[x], cl, f)
  <2>1. Sync(x, tc, th, p[x], c[x], cl, en)
    BY DEF SyncAll
  <2>2. CASE x = s
    BY <2>1, <2>2, SyncData
  <2>3. CASE x # s
    <3>1. Sync(x, tc, Append(th, m), p[x], c[x], cl, en)
      BY <2>1, <2>3, SyncToHost
    <3> QED BY <2>3, <3>1, SyncSame
  <2> QED BY <2>2, <2>3
<1> QED BY <1>1 DEF SyncAll

LEMMA AllTaken ==
  ASSUME NEW tc \in Seq(Spdu), NEW th \in Seq(Spdu), NEW p, NEW c,
         NEW cl, NEW en, SyncAll(tc, th, p, c, cl, en), tc # <<>>, Head(tc).tag = "DATA"
  PROVE  SyncAll(Tail(tc), th, p, c, cl, en)
<1>1. \A s : ~Touches(Head(tc), s)
  BY DEF Touches
<1> QED BY <1>1, SyncTaken DEF SyncAll

LEMMA AllOpened ==
  ASSUME NEW tc \in Seq(Spdu), NEW th \in Seq(Spdu), NEW p, NEW c, DOMAIN c = Session,
         NEW cl, NEW en, SyncAll(tc, th, p, c, cl, en), tc # <<>>,
         NEW s \in Session, Head(tc).tag = "OPEN_RESPONSE", Head(tc).s = s
  PROVE  SyncAll(Tail(tc), th, p, [c EXCEPT ![s] = Left(Head(tc))], cl, en)
<1> DEFINE d == [c EXCEPT ![s] = Left(Head(tc))]
<1>0. d[s] = Left(Head(tc)) /\ \A x \in Session : x # s => d[x] = c[x]
  OBVIOUS
<1> HIDE DEF d
<1>1. ASSUME NEW x \in Session
      PROVE  Sync(x, Tail(tc), th, p[x], d[x], cl, en)
  <2>1. Sync(x, tc, th, p[x], c[x], cl, en)
    BY DEF SyncAll
  <2>2. CASE x = s
    <3>1. Sync(s, Tail(tc), th, p[s], Left(Head(tc)), cl, en)
      BY <2>1, <2>2, SyncOpened
    <3> QED BY <1>0, <2>2, <3>1
  <2>3. CASE x # s
    <3>1. ~Touches(Head(tc), x)
      BY <2>3 DEF Touches
    <3> QED BY <1>0, <2>1, <2>3, <3>1, SyncTaken
  <2> QED BY <2>2, <2>3
<1> QED BY <1>1 DEF SyncAll, d

LEMMA AllConfirmed ==
  ASSUME NEW tc \in Seq(Spdu), NEW th \in Seq(Spdu), NEW p, NEW c, DOMAIN c = Session,
         NEW cl, NEW en, SyncAll(tc, th, p, c, cl, en), tc # <<>>,
         NEW s \in Session, Head(tc).tag = "CLOSE_RESPONSE", Head(tc).s = s
  PROVE  SyncAll(Tail(tc), th, p, [c EXCEPT ![s] = None], cl \ {s}, en \ {s})
<1> DEFINE d == [c EXCEPT ![s] = None]
<1>0. d[s] = None /\ \A x \in Session : x # s => d[x] = c[x]
  OBVIOUS
<1> HIDE DEF d
<1>1. ASSUME NEW x \in Session
      PROVE  Sync(x, Tail(tc), th, p[x], d[x], cl \ {s}, en \ {s})
  <2>1. Sync(x, tc, th, p[x], c[x], cl, en)
    BY DEF SyncAll
  <2>2. CASE x = s
    <3>2. Sync(s, Tail(tc), th, p[s], None, cl \ {s}, en \ {s})
      BY <2>1, <2>2, SyncConfirmed
    <3> QED BY <1>0, <2>2, <3>2
  <2>3. CASE x # s
    <3>2. ~Touches(Head(tc), x)
      BY <2>3 DEF Touches
    <3>3. Sync(x, Tail(tc), th, p[x], c[x], cl, en)
      BY <2>1, <3>2, SyncTaken
    <3> QED BY <1>0, <2>3, <3>3, SyncSame
  <2> QED BY <2>2, <2>3
<1> QED BY <1>1 DEF SyncAll, d

LEMMA AllClosedToo ==
  ASSUME NEW tc \in Seq(Spdu), NEW th \in Seq(Spdu), NEW p, NEW c, DOMAIN c = Session,
         NEW cl, NEW en, SyncAll(tc, th, p, c, cl, en), tc # <<>>,
         NEW s \in Session, Head(tc).tag = "CLOSE_REQUEST", Head(tc).s = s,
         NEW m \in Spdu, m.tag = "CLOSE_RESPONSE", m.s = s
  PROVE  SyncAll(Tail(tc), Append(th, m), p, [c EXCEPT ![s] = None], cl \ {s}, en \ {s})
<1> DEFINE d == [c EXCEPT ![s] = None]
<1>0. /\ d[s] = None /\ \A x \in Session : x # s => d[x] = c[x]
      /\ Tail(tc) \in Seq(Spdu)
  BY Shortened
<1> HIDE DEF d
<1>1. ASSUME NEW x \in Session
      PROVE  Sync(x, Tail(tc), Append(th, m), p[x], d[x], cl \ {s}, en \ {s})
  <2>1. Sync(x, tc, th, p[x], c[x], cl, en)
    BY DEF SyncAll
  <2>2. CASE x = s
    <3>2. Sync(s, Tail(tc), Append(th, m), p[s], None, cl \ {s}, en \ {s})
      BY <2>1, <2>2, SyncClosedToo
    <3> QED BY <1>0, <2>2, <3>2
  <2>3. CASE x # s
    <3>2. ~Touches(Head(tc), x)
      BY <2>3 DEF Touches
    <3>3. Sync(x, Tail(tc), th, p[x], c[x], cl, en)
      BY <2>1, <3>2, SyncTaken
    <3>4. Sync(x, Tail(tc), Append(th, m), p[x], c[x], cl, en)
      BY <1>0, <2>3, <3>3, SyncToHost
    <3> QED BY <1>0, <2>3, <3>4, SyncSame
  <2> QED BY <2>2, <2>3
<1> QED BY <1>1 DEF SyncAll, d

LEMMA AllEmpty ==
  ASSUME NEW p, NEW c, p = NoSessions, c = NoSessions
  PROVE  SyncAll(<<>>, <<>>, p, c, {}, {})
<1>1. \A k, s : ~Has(<<>>, k, s) /\ Once(<<>>, k, s)
  BY DEF Has, Once
<1>2. \A s, r : Untouched(<<>>, s) /\ Leaves(<<>>, s, r, r) /\ RequestLast(<<>>, s)
               /\ Kept(<<>>, s, r) /\ Owned(<<>>, s, r) /\ Silent(<<>>, s)
  BY DEF Untouched, Leaves, RequestLast, Kept, Owned, Silent
<1>3. \A s \in Session : p[s] = None /\ c[s] = None
  BY DEF NoSessions
<1>4. ASSUME NEW s \in Session PROVE Sync(s, <<>>, <<>>, p[s], c[s], {}, {})
  <2>1. Agreeing(s, <<>>, <<>>, p[s], c[s])
    BY <1>1, <1>2, <1>3 DEF Agreeing, Waits
  <2> QED BY <1>1, <1>2, <1>3, <2>1 DEF Sync, Closing, Ending, Ended, Speaking, Waits
<1> QED BY <1>4 DEF SyncAll

(***************************************************************************)
(* The steps.  As long as a started module is alive it agrees with the     *)
(* host about every session, but for what is on its way.                   *)
(***************************************************************************)
Synchronised ==
  /\ started => sendReady
  /\ alive \/ toHost = <<>>
  /\ started /\ alive => SyncAll(toCam, toHost, pResource, cam, closing, ending)

CInv == TypeOK /\ TableConsistent /\ Synchronised

LEMMA SendOne ==
  ASSUME toCam \in Seq(Spdu), NEW m \in Spdu, Send(<<m>>), sendReady
  PROVE  toCam' = Append(toCam, m)
BY DEF Send

LEMMA OpenRequestSync ==
  ASSUME CInv, started, alive, toHost # <<>>, Head(toHost).tag = "OPEN_REQUEST",
         NEW r \in Resource \cup {None}, ParseOpenRequest(r)
  PROVE  SyncAll(toCam', toHost', pResource', cam', closing', ending')
<1>0. /\ sendReady /\ toCam \in Seq(Spdu) /\ toHost \in Seq(Spdu)
      /\ pResource \in [Session -> Registered \cup {None}]
      /\ cam' = cam /\ closing' = closing /\ ending' = ending
      /\ toHost' = Tail(toHost) /\ Tail(toHost) \in Seq(Spdu)
  BY HeadType DEF CInv, TypeOK, Synchronised, ParseOpenRequest, camVars
<1>1. SyncAll(toCam, Tail(toHost), pResource, cam, closing, ending)
  BY <1>0, AllParsed DEF CInv, Synchronised
<1>2. \A s \in Session, st \in {0, 1} :
         /\ OpenResponse(st, r, s) \in Spdu
         /\ OpenResponse(st, r, s).tag = "OPEN_RESPONSE" /\ OpenResponse(st, r, s).s = s
         /\ Left(OpenResponse(st, r, s)) = IF st = 0 THEN r ELSE None
  BY SpduType DEF OpenResponse, Left
<1>3. \A s \in FirstFree : s \in Session /\ pResource[s] = None
  BY DEF FirstFree, FreeSessions, CInv, TableConsistent
<1>4. ASSUME NEW s \in Session, pResource[s] = None, Send(<<OpenResponse(1, r, s)>>),
             UNCHANGED pResource
      PROVE  SyncAll(toCam', Tail(toHost), pResource', cam, closing, ending)
  <2>1. toCam' = Append(toCam, OpenResponse(1, r, s))
    BY <1>0, <1>2, <1>4, SendOne
  <2>2. Sync(s, toCam, Tail(toHost), None, cam[s], closing, ending)
    BY <1>1, <1>4 DEF SyncAll
  <2>3. ~Waits(s, toCam, Tail(toHost)) /\ Owned(Tail(toHost), s, None)
    BY <2>2 DEF Sync, Ended, Speaking
  <2>4. [pResource EXCEPT ![s] = None] = pResource
    BY <1>0, <1>4
  <2>5. DOMAIN pResource = Session
    BY <1>0
  <2>6. Left(OpenResponse(1, r, s)) = None
    BY <1>2
  <2>7. SyncAll(Append(toCam, OpenResponse(1, r, s)), Tail(toHost),
                [pResource EXCEPT ![s] = None], cam, closing, ending)
    BY <1>0, <1>1, <1>2, <1>4, <2>3, <2>5, <2>6, AllRefused
  <2> QED BY <1>4, <2>1, <2>4, <2>7
<1>5. CASE OutOfSessions(r)
  <2>1. pResource[0] = None
    BY SessionZero DEF CInv, TableConsistent
  <2> QED BY <1>0, <1>4, <1>5, <2>1, SessionZero DEF OutOfSessions, tableVars
<1>6. CASE UnknownResource(r)
  BY <1>0, <1>3, <1>4, <1>6 DEF UnknownResource, tableVars
<1>7. CASE Connected(r)
  <2>1. PICK s \in FirstFree :
           /\ pResource' = [pResource EXCEPT ![s] = r]
           /\ Send(<<OpenResponse(0, r, s)>> \o Greeting(r, s))
    BY <1>7 DEF Connected
  <2>2. r \in Registered /\ r # None /\ s \in Session /\ pResource[s] = None
    BY <1>3, <1>7, HandlerType DEF Connected
  <2> DEFINE g == OpenResponse(0, r, s)
             w == Greeting(r, s)
             t == Append(toCam, g)
  <2>3. g \in Spdu /\ t \in Seq(Spdu) /\ Left(g) = r /\ g.tag = "OPEN_RESPONSE" /\ g.s = s
    BY <1>0, <1>2, <2>2
  <2>4. w = <<>> \/ \E m \in Spdu : m.tag = "DATA" /\ w = <<m>>
    <3>1. \A d \in Replies : Data(s, d) \in Spdu /\ Data(s, d).tag = "DATA"
      BY <2>2, SpduType DEF Data
    <3>2. {"PROFILE_ENQ", "APPINFO_ENQ", "CAINFO_ENQ"} \subseteq Replies
      BY DEF Replies
    <3> QED BY <3>1, <3>2 DEF Greeting
  <2>5. toCam' = toCam \o (<<g>> \o w)
    BY <1>0, <2>1 DEF Send
  <2> HIDE DEF g, w
  <2>6. SyncAll(t, Tail(toHost), pResource', cam, closing, ending)
    <3>1. DOMAIN pResource = Session
      BY <1>0
    <3> QED BY <1>0, <1>1, <2>1, <2>2, <2>3, <3>1, AllGranted
  <2>7. CASE w = <<>>
    <3>1. toCam' = t
      BY <1>0, <2>3, <2>5, <2>7
    <3> QED BY <1>0, <2>6, <3>1
  <2>8. CASE w # <<>>
    <3>1. PICK m \in Spdu : m.tag = "DATA" /\ w = <<m>>
      BY <2>4, <2>8
    <3>2. toCam' = Append(t, m)
      BY <1>0, <2>3, <2>5, <3>1
    <3>3. SyncAll(Append(t, m), Tail(toHost), pResource', cam, closing, ending)
      BY <1>0, <2>3, <2>6, <3>1, AllToCam
    <3> QED BY <1>0, <3>2, <3>3
  <2> QED BY <2>7, <2>8
<1>8. CASE Refused(r)
  <2>1. PICK s \in FirstFree : Send(<<OpenResponse(0, r, s), OpenResponse(1, r, s)>>)
    BY <1>8 DEF Refused
  <2>2. r = "MMI" /\ s \in Session /\ pResource[s] = None /\ pResource' = pResource
    BY <1>3, <1>8 DEF Refused, Accepts
  <2> DEFINE g == OpenResponse(0, r, s)
             m == OpenResponse(1, r, s)
             t == Append(toCam, g)
             p == [pResource EXCEPT ![s] = r]
  <2>3. /\ g \in Spdu /\ t \in Seq(Spdu) /\ Left(g) = r /\ g.tag = "OPEN_RESPONSE" /\ g.s = s
        /\ m \in Spdu /\ Left(m) = None /\ m.tag = "OPEN_RESPONSE" /\ m.s = s
        /\ Refuses(m, s)
    BY <1>0, <1>2, <2>2 DEF Refuses
  <2>4. toCam' = toCam \o <<g, m>>
    BY <1>0, <2>1 DEF Send
  <2> HIDE DEF g, m
  <2>5. toCam' = Append(t, m)
    BY <1>0, <2>3, <2>4
  <2>6. DOMAIN pResource = Session /\ DOMAIN p = Session /\ p[s] = "MMI"
        /\ [p EXCEPT ![s] = None] = pResource
    BY <1>0, <2>2
  <2>7. /\ SyncAll(t, Tail(toHost), p, cam, closing, ending)
        /\ ~Waits(s, toCam, Tail(toHost)) /\ Owned(Tail(toHost), s, None)
    BY <1>0, <1>1, <2>2, <2>3, <2>6, AllGranted
  <2>8. ~Waits(s, t, Tail(toHost))
    <3>1. ~Is(g, "CLOSE_REQUEST", s)
      BY <2>3, KindTag
    <3> QED BY <1>0, <2>3, <2>7, <3>1, HasAppend DEF Waits
  <2> HIDE DEF t, p
  <2>9. SyncAll(Append(t, m), Tail(toHost), [p EXCEPT ![s] = None], cam, closing, ending)
    BY <1>0, <2>2, <2>3, <2>6, <2>7, <2>8, AllRefused
  <2> QED BY <1>0, <2>2, <2>5, <2>6, <2>9
<1> QED BY <1>5, <1>6, <1>7, <1>8 DEF ParseOpenRequest

LEMMA CloseSync ==
  ASSUME CInv, started, alive, toHost # <<>>, NEW s \in Session, Head(toHost).s = s,
         \/ Head(toHost).tag = "CLOSE_REQUEST" /\ ParseCloseRequest(s)
         \/ Head(toHost).tag = "CLOSE_RESPONSE" /\ ParseCloseResponse(s)
  PROVE  SyncAll(toCam', toHost', pResource', cam', closing', ending')
<1>0. /\ sendReady /\ toCam \in Seq(Spdu) /\ toHost \in Seq(Spdu)
      /\ DOMAIN pResource = Session
      /\ pResource' = [pResource EXCEPT ![s] = None]
      /\ cam' = cam /\ closing' = closing /\ ending' = ending
      /\ toHost' = Tail(toHost)
      /\ SyncAll(toCam, toHost, pResource, cam, closing, ending)
  BY DEF CInv, TypeOK, Synchronised, ParseCloseRequest, ParseCloseResponse, CloseSession,
         camVars
<1>1. CASE Head(toHost).tag = "CLOSE_REQUEST" /\ ParseCloseRequest(s)
  <2> DEFINE m == CloseResponse(s)
  <2>1. m \in Spdu /\ m.tag = "CLOSE_RESPONSE" /\ m.s = s
    BY SpduType DEF CloseResponse
  <2>2. toCam' = Append(toCam, m)
    BY <1>0, <1>1, <2>1, SendOne DEF ParseCloseRequest
  <2> HIDE DEF m
  <2> QED BY <1>0, <1>1, <2>1, <2>2, AllClosed
<1>2. CASE Head(toHost).tag = "CLOSE_RESPONSE" /\ ParseCloseResponse(s)
  <2>1. toCam' = toCam
    BY <1>2 DEF ParseCloseResponse
  <2> QED BY <1>0, <1>2, <2>1, AllAnswered
<1> QED BY <1>1, <1>2

\* Only the user interface knows CLOSEMMI.
LEMMA EndsMmi ==
  ASSUME CInv, NEW s \in Session, Handled(s, "CLOSEMMI")
  PROVE  pResource[s] = "MMI"
<1>1. pResource[s] \in ResourceIds /\ "CLOSEMMI" \in Objects[Handler(pResource[s])]
  BY ConstantsAssumption DEF Handled, CInv, TypeOK
<1> QED BY <1>1 DEF Objects

LEMMA DataSync ==
  ASSUME CInv, started, alive, toHost # <<>>, NEW s \in Session, Head(toHost).s = s,
         Head(toHost).tag = "DATA", NEW d, d = Head(toHost).d, ParseData(s, d), alive'
  PROVE  SyncAll(toCam', toHost', pResource', cam', closing', ending')
<1>0. /\ sendReady /\ toCam \in Seq(Spdu) /\ toHost \in Seq(Spdu)
      /\ Tail(toHost) \in Seq(Spdu)
      /\ pResource' = pResource
      /\ SyncAll(toCam, toHost, pResource, cam, closing, ending)
  BY HeadType DEF CInv, TypeOK, Synchronised, ParseData
<1>1. SyncAll(toCam, Tail(toHost), pResource, cam, closing, ending)
  BY <1>0, AllParsed
<1>2. \A x \in Session, e \in Replies : Data(x, e) \in Spdu /\ Data(x, e).tag = "DATA"
  BY SpduType DEF Data
<1>3. wSessionID \in [Session -> Session] /\ session \in [Handlers -> Session]
  BY DEF CInv, TypeOK
<1>4. ASSUME NEW w, Send(w), w = <<>> \/ \E m \in Spdu : m.tag = "DATA" /\ w = <<m>>,
             toHost' = Tail(toHost), UNCHANGED camVars
      PROVE  SyncAll(toCam', toHost', pResource', cam', closing', ending')
  BY <1>0, <1>1, <1>4, AllSent DEF camVars
<1>5. CASE DataAnswered(s, d)
  <2>1. Reply(s, d) = <<>> \/ \E m \in Spdu : m.tag = "DATA" /\ Reply(s, d) = <<m>>
    <3>1. {"PROFILE_CHANGE", "PROFILE", "DISPLAYREPLY"} \subseteq Replies
      BY DEF Replies
    <3> QED BY <1>2, <1>3, <3>1 DEF Reply
  <2> QED BY <1>4, <1>5, <2>1 DEF DataAnswered
<1>6. CASE DataTimeEnquiry(s, d)
  <2>1. PICK known \in BOOLEAN :
           Send(IF known THEN <<Data(wSessionID[s], "DATETIME")>> ELSE <<>>)
    BY <1>6 DEF DataTimeEnquiry
  <2>2. "DATETIME" \in Replies
    BY DEF Replies
  <2> QED BY <1>2, <1>3, <1>4, <1>6, <2>1, <2>2 DEF DataTimeEnquiry
<1>7. CASE DataMenu(s, d)
  <2>1. "MMICLOSE" \in Replies /\ wSessionID[session["MMI"]] \in Session
    BY <1>3 DEF Replies
  <2> QED BY <1>2, <1>4, <1>7, <2>1 DEF DataMenu
<1>8. CASE Handled(s, d) /\ DataCloseMmi(s, d)
  <2>1. pResource[s] = "MMI" /\ d = "CLOSEMMI" /\ wSessionID[s] = s
    BY <1>8, EndsMmi DEF DataCloseMmi, Handled, CInv, TableConsistent
  <2> DEFINE m == CloseRequest(s)
  <2>2. m \in Spdu /\ m.tag = "CLOSE_REQUEST" /\ m.s = s
    BY SpduType DEF CloseRequest
  <2>3. toCam' = Append(toCam, m) /\ toHost' = Tail(toHost) /\ UNCHANGED camVars
    BY <1>0, <1>8, <2>1, <2>2, SendOne DEF DataCloseMmi
  <2> HIDE DEF m
  <2>4. SyncAll(Append(toCam, m), Tail(toHost), pResource, cam, closing, ending)
    BY <1>0, <2>1, <2>2, AllEnded
  <2> QED BY <1>0, <2>3, <2>4 DEF camVars
<1>9. CASE ~Handled(s, d)
  <2>1. toHost' = Tail(toHost) /\ UNCHANGED <<camVars, toCam>>
    BY <1>9 DEF ParseData, DataAnswered, DataTimeEnquiry, DataMenu, DataCloseMmi,
                DataRequestReset
  <2> QED BY <1>0, <1>1, <2>1 DEF camVars
<1>10. ~DataRequestReset(s, d)
  BY DEF DataRequestReset
<1> QED BY <1>5, <1>6, <1>7, <1>8, <1>9, <1>10 DEF ParseData

LEMMA HostParseSync ==
  ASSUME CInv, HostParse
  PROVE  Synchronised'
<1> DEFINE m == Head(toHost)
<1>1. /\ toHost # <<>> /\ started /\ started' = started /\ alive
      /\ \/ m.tag = "OPEN_REQUEST" /\ ParseOpenRequest(m.r)
         \/ m.tag = "CLOSE_REQUEST" /\ ParseCloseRequest(m.s)
         \/ m.tag = "CLOSE_RESPONSE" /\ ParseCloseResponse(m.s)
         \/ m.tag = "DATA" /\ ParseData(m.s, m.d)
  BY DEF HostParse, CInv, Synchronised
<1>2. m.s \in Session /\ m.r \in Resource \cup {None}
  BY <1>1, HeadType DEF CInv, TypeOK
<1>3. sendReady' = sendReady
  BY <1>1 DEF ParseOpenRequest, ParseCloseRequest, ParseCloseResponse, ParseData
<1>4. alive' \/ toHost' = <<>>
  BY <1>1 DEF ParseOpenRequest, ParseCloseRequest, ParseCloseResponse, ParseData, camVars,
     DataAnswered, DataTimeEnquiry, DataMenu, DataCloseMmi, DataRequestReset
<1>5. alive' => SyncAll(toCam', toHost', pResource', cam', closing', ending')
  BY <1>1, <1>2, OpenRequestSync, CloseSync, DataSync
<1> QED BY <1>1, <1>3, <1>4, <1>5 DEF CInv, Synchronised

LEMMA SlotSync ==
  ASSUME CInv, ModuleInserted \/ ConfigFails \/ ModuleRemoved \/ ResetCAM
  PROVE  Synchronised'
<1>1. CASE ModuleInserted
  <2>1. /\ pResource' = NoSessions /\ cam' = NoSessions /\ toHost' = <<>> /\ toCam' = <<>>
        /\ closing' = {} /\ ending' = {} /\ sendReady'
    BY <1>1 DEF ModuleInserted, ClearHandle
  <2>2. SyncAll(toCam', toHost', pResource', cam', closing', ending')
    BY <2>1, AllEmpty
  <2> QED BY <2>1, <2>2 DEF Synchronised
<1>2. CASE ConfigFails \/ ModuleRemoved
  <2>1. ~started' /\ toHost' = <<>>
    BY <1>2 DEF ConfigFails, ModuleRemoved
  <2> QED BY <2>1 DEF Synchronised
<1>3. CASE ResetCAM
  <2>1. ~started' /\ toHost' = toHost /\ alive' = alive
    BY <1>3 DEF ResetCAM, camVars
  <2> QED BY <2>1 DEF CInv, Synchronised
<1> QED BY <1>1, <1>2, <1>3

\* The threads only send data.
LEMMA ThreadSync ==
  ASSUME CInv, UiThread \/ PmtThread \/ SendDateTime
  PROVE  Synchronised'
<1>0. /\ toCam \in Seq(Spdu) /\ toHost \in Seq(Spdu)
      /\ UNCHANGED <<pResource, sendReady, started, alive, cam, closing, ending, toHost>>
  BY DEF CInv, TypeOK, UiThread, PmtThread, SendDateTime, hostVars, camVars
<1>1. ASSUME NEW x \in Session, NEW e \in Replies \cup {None}, Send(<<Data(x, e)>>)
      PROVE  Synchronised'
  <2>1. Data(x, e) \in Spdu /\ Data(x, e).tag = "DATA"
    BY SpduType DEF Data
  <2>2. \E m \in Spdu : m.tag = "DATA" /\ <<Data(x, e)>> = <<m>>
    BY <2>1
  <2>3. SyncAll(toCam, toHost, pResource, cam, closing, ending) =>
          SyncAll(toCam', toHost, pResource, cam, closing, ending)
    BY <1>0, <1>1, <2>2, AllSent
  <2> QED BY <1>0, <2>3 DEF CInv, Synchronised
<1>2. CASE UNCHANGED toCam
  BY <1>0, <1>2 DEF CInv, Synchronised
<1>3. ui.s \in Session /\ ui.d \in Replies \cup {None} /\ pmt.s \in Session
      /\ wSessionID[session["DateTime"]] \in Session
  BY DEF CInv, TypeOK
<1>4. "CAPMT" \in Replies /\ "DATETIME" \in Replies
  BY DEF Replies
<1>5. CASE UiThread
  BY <1>1, <1>2, <1>3, <1>5 DEF UiThread, UiBegin, UiTest, UiRead, UiSend, UiSetLevel
<1>6. CASE PmtThread
  BY <1>1, <1>2, <1>3, <1>4, <1>6 DEF PmtThread, PmtTest, PmtRead, PmtSend
<1>7. CASE SendDateTime
  BY <1>1, <1>3, <1>4, <1>7 DEF SendDateTime
<1> QED BY <1>5, <1>6, <1>7

LEMMA CamSync ==
  ASSUME ~CrossingClose, CInv, Cam
  PROVE  Synchronised'
<1>0. /\ toCam \in Seq(Spdu) /\ toHost \in Seq(Spdu) /\ DOMAIN cam = Session
      /\ UNCHANGED <<pResource, sendReady, started>>
  BY DEF CInv, TypeOK, Cam, hostVars
<1>1. alive /\ alive' = alive
  BY DEF Cam, CamOpen, CamClose, CamData, CamReceive, CamMaySend
<1>2. SUFFICES ASSUME started
               PROVE  SyncAll(toCam', toHost', pResource, cam', closing', ending')
  BY <1>0, <1>1 DEF CInv, Synchronised
<1>3. SyncAll(toCam, toHost, pResource, cam, closing, ending)
  BY <1>1, <1>2 DEF CInv, Synchronised
<1>4. ASSUME NEW r \in Resource, CamOpen(r)
      PROVE  SyncAll(toCam', toHost', pResource, cam', closing', ending')
  <2>1. OpenRequest(r) \in Spdu /\ OpenRequest(r).tag = "OPEN_REQUEST"
    BY SpduType, SessionZero DEF OpenRequest
  <2>2. toHost' = Append(toHost, OpenRequest(r)) /\ UNCHANGED <<toCam, cam, closing, ending>>
    BY <1>4 DEF CamOpen
  <2> QED BY <1>0, <1>3, <2>1, <2>2, AllOpening
<1>5. ASSUME NEW s \in Session, CamClose(s)
      PROVE  SyncAll(toCam', toHost', pResource, cam', closing', ending')
  <2>1. CloseRequest(s) \in Spdu /\ CloseRequest(s).tag = "CLOSE_REQUEST" /\ CloseRequest(s).s = s
    BY SpduType DEF CloseRequest
  <2>2. /\ toHost' = Append(toHost, CloseRequest(s)) /\ UNCHANGED <<toCam, cam, ending>>
        /\ closing' = closing \cup {s}
        /\ cam[s] # None /\ s \notin closing /\ s \notin ending
    BY <1>5 DEF CamClose
  <2> QED BY <1>0, <1>3, <2>1, <2>2, AllClosing
<1>6. ASSUME NEW s \in Session, NEW d \in FromCam, CamData(s, d)
      PROVE  SyncAll(toCam', toHost', pResource, cam', closing', ending')
  <2> DEFINE m == [Data(s, d) EXCEPT !.r = cam[s]]
  <2>1. m \in Spdu /\ m.tag = "DATA" /\ m.s = s /\ m.r = cam[s] /\ m.d = d
    BY DEF Spdu, Data, Tags, CInv, TypeOK
  <2>2. /\ toHost' = Append(toHost, m) /\ UNCHANGED <<toCam, cam, closing>>
        /\ ending' = IF d = "CLOSEMMI" THEN ending \cup {s} ELSE ending
        /\ cam[s] # None /\ s \notin closing /\ s \notin ending
    BY <1>6 DEF CamData
  <2> HIDE DEF m
  <2>3. SyncAll(toCam, Append(toHost, m), pResource, cam, closing, ending')
    BY <1>0, <1>3, <2>1, <2>2, AllData
  <2> QED BY <2>2, <2>3
<1>7. CASE CamReceive
  <2> DEFINE m == Head(toCam)
  <2>1. /\ toCam # <<>> /\ toCam' = Tail(toCam)
        /\ \/ CamOpenResponse(m)
           \/ CamCloseRequest(m)
           \/ CamCloseResponse(m)
           \/ m.tag = "DATA" /\ UNCHANGED <<cam, closing, ending, toHost>>
    BY <1>7 DEF CamReceive
  <2>2. m.s \in Session
    BY <1>0, <2>1, HeadType
  <2>3. CASE CamOpenResponse(m)
    <3>1. /\ m.tag = "OPEN_RESPONSE" /\ UNCHANGED <<closing, ending, toHost>>
          /\ cam' = [cam EXCEPT ![m.s] = Left(m)]
      BY <2>3 DEF CamOpenResponse, Left
    <3>2. SyncAll(Tail(toCam), toHost, pResource, [cam EXCEPT ![m.s] = Left(m)], closing, ending)
      BY <1>0, <1>3, <2>1, <2>2, <3>1, AllOpened
    <3> QED BY <2>1, <3>1, <3>2
  <2>4. CASE CamCloseRequest(m)
    <3>1. /\ m.tag = "CLOSE_REQUEST"
          /\ cam' = [cam EXCEPT ![m.s] = None]
          /\ closing' = closing \ {m.s} /\ ending' = ending \ {m.s}
          /\ toHost' = Append(toHost, CloseResponse(m.s))
      BY <2>4 DEF CamCloseRequest
    <3>2. /\ CloseResponse(m.s) \in Spdu /\ CloseResponse(m.s).tag = "CLOSE_RESPONSE"
          /\ CloseResponse(m.s).s = m.s
      BY <2>2, SpduType DEF CloseResponse
    <3>3. SyncAll(Tail(toCam), Append(toHost, CloseResponse(m.s)), pResource,
                  [cam EXCEPT ![m.s] = None], closing \ {m.s}, ending \ {m.s})
      BY <1>0, <1>3, <2>1, <2>2, <3>1, <3>2, AllClosedToo
    <3> QED BY <2>1, <3>1, <3>3
  <2>5. CASE CamCloseResponse(m)
    <3>1. /\ m.tag = "CLOSE_RESPONSE" /\ UNCHANGED toHost
          /\ cam' = [cam EXCEPT ![m.s] = None]
          /\ closing' = closing \ {m.s} /\ ending' = ending \ {m.s}
      BY <2>5 DEF CamCloseResponse
    <3>2. SyncAll(Tail(toCam), toHost, pResource,
                  [cam EXCEPT ![m.s] = None], closing \ {m.s}, ending \ {m.s})
      BY <1>0, <1>3, <2>1, <2>2, <3>1, AllConfirmed
    <3> QED BY <2>1, <3>1, <3>2
  <2>6. CASE m.tag = "DATA" /\ UNCHANGED <<cam, closing, ending, toHost>>
    <3>1. SyncAll(Tail(toCam), toHost, pResource, cam, closing, ending)
      BY <1>0, <1>3, <2>1, <2>6, AllTaken
    <3> QED BY <2>1, <2>6, <3>1
  <2> QED BY <2>1, <2>3, <2>4, <2>5, <2>6
<1> QED BY <1>4, <1>5, <1>6, <1>7 DEF Cam

LEMMA InitSync == Init => Synchronised
BY DEF Init, Synchronised

LEMMA NextSync ==
  ASSUME ~CrossingClose, CInv, [Next]_vars
  PROVE  Synchronised'
<1>1. CASE HostParse
  BY <1>1, HostParseSync
<1>2. CASE ModuleInserted \/ ConfigFails \/ ModuleRemoved \/ ResetCAM
  BY <1>2, SlotSync
<1>3. CASE UiThread \/ PmtThread \/ SendDateTime
  BY <1>3, ThreadSync
<1>4. CASE Cam
  BY <1>4, CamSync
<1>5. CASE UNCHANGED vars
  BY <1>5 DEF vars, hostVars, camVars, CInv, Synchronised
<1> QED BY <1>1, <1>2, <1>3, <1>4, <1>5 DEF Next

LEMMA AlwaysSync == ASSUME ~CrossingClose PROVE Spec => []CInv
<1>1. Init => Synchronised
  BY InitSync
<1>2. TypeOK /\ TableConsistent /\ Synchronised /\ [Next]_vars => Synchronised'
  BY NextSync DEF CInv
<1> QED BY <1>1, <1>2, TypeCorrect, TableStaysConsistent, PTL DEF Spec, CInv

\* When nothing is on its way the module and the host agree about every session:
\* what was refused after it had been granted, and what either side closed, is
\* closed on both (Parse_SPDU, MMI_Connect, MMI_Data), for any number of sessions
\* and messages under way.  The module must not close a session whose dialogue
\* it has just ended: the two closes would cross.
THEOREM AgreementReached == ASSUME ~CrossingClose PROVE Spec => []AgreedWhenQuiet
<1>1. ASSUME CInv, started, alive, toHost = <<>>, toCam = <<>>
      PROVE  cam = pResource
  <2>1. ASSUME NEW s \in Session PROVE cam[s] = pResource[s]
    <3>1. Sync(s, <<>>, <<>>, pResource[s], cam[s], closing, ending)
      BY <1>1 DEF CInv, Synchronised, SyncAll
    <3>2. ~Waits(s, <<>>, <<>>)
      BY DEF Waits, Has
    <3>3. Leaves(<<>>, s, cam[s], pResource[s])
      BY <3>1, <3>2 DEF Sync, Agreeing
    <3> QED BY <3>3 DEF Leaves
  <2>2. /\ cam \in [Session -> Resource \cup {None}]
        /\ pResource \in [Session -> Registered \cup {None}]
    BY <1>1 DEF CInv, TypeOK
  <2> QED BY <2>1, <2>2
<1>2. CInv => AgreedWhenQuiet
  BY <1>1 DEF AgreedWhenQuiet
<1> QED BY <1>2, AlwaysSync, PTL

\* What a module sends to a resource is given to that resource, however sessions
\* are closed and their numbers reused (Parse_SPDU).  What it sends to the user
\* interface goes elsewhere only if the session was refused after the grant
\* (MMI_Connect), and then the module knows or the refusal is on its way.
THEOREM DataDelivered == ASSUME ~CrossingClose PROVE Spec => []DataToItsResource
<1>1. ASSUME CInv, started, toHost # <<>>, Head(toHost).tag = "DATA"
      PROVE  LET m == Head(toHost)
             IN \/ pResource[m.s] = m.r
                \/ m.r = "MMI" /\ (cam[m.s] # "MMI" \/ RefusalOnItsWay(m.s))
  <2> DEFINE m == Head(toHost)
             s == Head(toHost).s
  <2>1. toHost \in Seq(Spdu) /\ alive /\ s \in Session
    BY <1>1, HeadType DEF CInv, TypeOK, Synchronised
  <2>2. /\ Agreeing(s, toCam, toHost, pResource[s], cam[s])
        /\ Speaking(s, toCam, toHost, pResource[s])
    BY <1>1, <2>1 DEF CInv, Synchronised, SyncAll, Sync
  <2>3. 1 \in 1 .. Len(toHost) /\ m = toHost[1] /\ DataOn(m, s)
    BY <1>1, <2>1, Shortened DEF DataOn
  <2>4. CASE m.r # "MMI"
    BY <2>2, <2>3, <2>4 DEF Speaking, Owned
  <2>5. CASE m.r = "MMI" /\ pResource[s] # "MMI" /\ cam[s] = "MMI"
    <3>1. ~Silent(toHost, s)
      BY <2>3 DEF Silent
    <3>2. Told(toCam, s)
      BY <2>2, <2>5, <3>1 DEF Agreeing, Speaking
    <3> QED BY <2>5, <3>2 DEF Told, Refuses, RefusalOnItsWay
  <2> QED BY <2>4, <2>5
<1>2. CInv => DataToItsResource
  BY <1>1 DEF DataToItsResource
<1> QED BY <1>2, AlwaysSync, PTL
=============================================================================
