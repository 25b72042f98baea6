--------------------------- MODULE SessionProofs ---------------------------
(***************************************************************************)
(* Proofs about Session for any sessions, handles, nesting and number of   *)
(* checkouts: a handle given back as healthy is usable, no drain waits for *)
(* a reply that is never sent, and a listing reads its own checkout only.  *)
(***************************************************************************)
EXTENDS Session, WellFoundedInduction, TLAPS

(* What is fixed about the values; the epochs are not bounded here. *)
Types ==
  /\ sess \in [Sessions -> [entries : Nat, handler : Handles \cup {NoHandle},
                            epoch : Nat, fatal : BOOLEAN]]
  /\ raised \in [Sessions -> {"none", "plain", "fatal"}]
  /\ wire \in [Handles -> {"up", "bad", "skewed"}]
  /\ owing \in [Handles -> BOOLEAN]
  /\ unseen \in [Handles -> {"no", "kept", "untranslated", "replaced"}]
  /\ pooled \subseteq Handles

(* A handle has one owner: its pool or one session, while it has entries. *)
OneOwner ==
  /\ \A s \in Sessions :
       /\ (Held(s) = NoHandle) <=> (sess[s].entries = 0)
       /\ Held(s) = NoHandle => raised[s] = "none"
       /\ Held(s) # NoHandle => Held(s) \in HandlesOf(s)
       /\ Held(s) \notin pooled
  /\ \A s, t \in Sessions : s # t /\ Held(s) # NoHandle => Held(s) # Held(t)

(* The window of a method in which the side has a completion reply to come: *)
(* from the step after its transfercmd() up to its drain or voidresp().     *)
Window(op, side) ==
  IF side = "self"
  THEN CASE op = "upload_file" -> 3..4
         [] op = "download_file" -> 4..5
         [] op = "listdir" -> 2..3
         [] op = "ftp_to_sftp" -> 4..5
         [] op = "ftp_to_ftp" -> 4..8
         [] OTHER -> {}
  ELSE CASE op = "ftp_to_ftp" -> 6..7
         [] op = "sftp_to_ftp" -> 4..5
         [] OTHER -> {}

Parties == {"self", "other"}
At(op, i) == Program[op][i]
Reads(op, i, side) == At(op, i) \in {<<side, "drain">>, <<side, "reply">>}
Opens(op, i, side) == At(op, i) = <<side, "open">>

(* The window against the steps of the method: what it does at each place,  *)
(* how the window of a side begins and ends, and which drains it leaves to  *)
(* a failure.                                                               *)
StepsFit(op) ==
  \A i \in 1..Len(Program[op]) :
    /\ At(op, i) = <<At(op, i)[1], At(op, i)[2]>> /\ At(op, i)[1] \in Parties
    /\ At(op, i)[2] \in {"command", "type", "noop", "peek", "open", "data", "drain", "reply"}
    /\ At(op, i)[1] = "other" => op \in {"ftp_to_ftp", "sftp_to_ftp"}
    /\ op = "listdir" => At(op, i)[2] # "drain"

WindowFits(op) ==
  \A i \in 1..Len(Program[op]), x \in Parties :
    /\ Reads(op, i, x) => i \in Window(op, x)
    /\ At(op, i)[1] = x /\ At(op, i)[2] \notin {"data", "drain", "reply"}
         => i \notin Window(op, x)
    /\ i + 1 \in Window(op, x)
         <=> (i \in Window(op, x) /\ ~Reads(op, i, x)) \/ Opens(op, i, x)
    /\ i \in Window(op, x) => i < Len(Program[op]) \/ Reads(op, i, x)
    /\ Opens(op, i, x) => i < Len(Program[op])

DrainsFit(op) ==
  \A i \in 1..Len(Program[op]), x \in Parties :
    /\ \A j \in (i + 1)..Len(Program[op]) : At(op, j) = <<x, "drain">> =>
         (Opened(Program[op], x, i) <=> i \in Window(op, x) /\ ~Reads(op, i, x))
    /\ \A j \in (i + 1)..Len(Program[op]) :
         At(op, j)[2] = "drain" /\ Opened(Program[op], At(op, j)[1], i) /\ j \in Window(op, x)
           => i \in Window(op, x) /\ ~Reads(op, i, x)
    /\ i \in Window(op, x) /\ op # "listdir" =>
         \E j \in i..Len(Program[op]) :
           At(op, j) = <<x, "drain">> /\ \A k \in i..j : k \in Window(op, x)

(* A call is somewhere in its program; after an exception it runs drains only. *)
CallOk ==
  \/ Idle
  \/ /\ call \in [by : Sessions, op : DOMAIN Program, at : Nat,
                  peer : Sessions \cup {NoSession}, err : {"none", "plain", "fatal"}]
     /\ call.peer # call.by
     /\ call.op = "listdir" => call.by \in FtpSessions /\ call.peer = NoSession
     /\ call.op \in {"ftp_to_ftp", "sftp_to_ftp"} => call.peer \in Sessions
     /\ call.at \in 1..Len(Program[call.op])
     /\ call.err # "none" => Step = "drain"
     /\ \A t \in Participants : Held(t) # NoHandle

Role(s) == IF s = call.by THEN "self" ELSE "other"
MayOwe(s) == s \in Participants /\ call.at \in Window(call.op, Role(s))

(* What keeps a failure of the session's handle from counting: the code     *)
(* kept it from __exit__, or the session knows of it.                       *)
Excused(s) == unseen[Held(s)] # "no" \/ sess[s].fatal

(* Outside its calls a borrowed handle is sound, or its failure is known or *)
(* on its way to __exit__; only an FTP listing leaves one that is not lost. *)
BlockSound(s) ==
  \/ Excused(s)
  \/ raised[s] = "fatal" /\ (wire[Held(s)] = "bad" \/ s \in FtpSessions)
  \/ wire[Held(s)] = "up" /\ ~owing[Held(s)]

(* Inside a call a failure may be on its way as the call's exception, and a *)
(* completion reply to come is one that the rest of the call reads.         *)
CallSound(s) ==
  \/ Excused(s)
  \/ wire[Held(s)] = "bad" /\ call.err = "fatal"
  \/ wire[Held(s)] = "up" /\ (owing[Held(s)] => MayOwe(s))

(* What a drain is to read is still to come, or the connection is lost.     *)
OweKept(s) ==
  MayOwe(s) => owing[Held(s)] \/ wire[Held(s)] # "up" \/ unseen[Held(s)] # "no"

Sound ==
  \A s \in Sessions : Held(s) # NoHandle =>
    IF s \in Participants THEN CallSound(s) /\ OweKept(s) ELSE BlockSound(s)

SessionInv == Types /\ OneOwner /\ CallOk /\ Sound /\ HealthyIsSound


-----------------------------------------------------------------------------
(* The methods. *)

LEMMA MethodNames ==
  DOMAIN Program = {"noop", "command", "get_size", "upload_file", "download_file", "listdir",
                    "ftp_to_sftp", "ftp_to_ftp", "sftp_to_ftp", "sftp_to_sftp", "sftp_stream"}
BY DEF Program

LEMMA MethodsFit ==
  ASSUME NEW op \in DOMAIN Program
  PROVE  Len(Program[op]) \in 1..9 /\ StepsFit(op) /\ WindowFits(op) /\ DrainsFit(op)
<1> USE DEF Program, StepsFit, WindowFits, DrainsFit, At, Self, Other, Reads, Opens, Opened,
            Window, Parties
<1> DEFINE Fits(m) == Len(Program[m]) \in 1..9 /\ StepsFit(m) /\ WindowFits(m) /\ DrainsFit(m)
<1>1. Fits("noop")
  BY DEF NoOp
<1>2. Fits("command")
  BY DEF OneCommand
<1>3. Fits("sftp_stream")
  BY DEF SftpStream, OneCommand
<1>4. Fits("get_size")
  BY DEF GetSize
<1>5. Fits("sftp_to_sftp")
  BY DEF SftpToSftp
<1>6. Fits("upload_file")
  BY DEF UploadFile
<1>7. Fits("download_file")
  BY DEF DownloadFile
<1>8. Fits("listdir")
  BY DEF ListDir
<1>9. Fits("ftp_to_sftp")
  BY DEF FtpToSftp
<1>10. Fits("ftp_to_ftp")
  BY DEF FtpToFtp
<1>11. Fits("sftp_to_ftp")
  BY DEF SftpToFtp
<1> HIDE DEF Program, StepsFit, WindowFits, DrainsFit, At, Reads, Opens, Opened, Window, Parties
<1> QED
  BY <1>1, <1>2, <1>3, <1>4, <1>5, <1>6, <1>7, <1>8, <1>9, <1>10, <1>11, MethodNames

LEMMA MinOfPlaces ==
  ASSUME NEW S \in SUBSET Nat, S # {}
  PROVE  Min(S) \in S /\ \A y \in S : Min(S) <= y
<1>1. \E x \in S : \A y \in S : <<y, x>> \notin OpToRel(<, Nat)
  BY NatLessThanWellFounded, WFMin
<1>2. \A x, y \in S : <<y, x>> \notin OpToRel(<, Nat) => x <= y
  BY DEF OpToRel
<1> QED
  BY <1>1, <1>2 DEF Min

(* After a success the next place follows; after a failure the next drain   *)
(* of a reply that is to come does, and there is none in a listing.         *)
Pends(op, i, x) == i \in Window(op, x) /\ ~Reads(op, i, x)

LEMMA StepsLeftAre ==
  ASSUME NEW op \in DOMAIN Program, NEW i \in 1..Len(Program[op]),
         NEW err \in {"none", "plain", "fatal"}
  PROVE  LET left == StepsLeft(op, i, err)
         IN /\ left # {} =>
                 /\ Min(left) \in 1..Len(Program[op])
                 /\ err # "none" => op # "listdir" /\ At(op, Min(left))[2] = "drain"
                 /\ \A x \in Parties :
                      Min(left) \in Window(op, x)
                        <=> Pends(op, i, x) \/ (err = "none" /\ Opens(op, i, x))
            /\ left = {} =>
                 \A x \in Parties :
                   /\ Pends(op, i, x) => op = "listdir" /\ err # "none"
                   /\ err = "none" => ~Opens(op, i, x)
<1> DEFINE left == StepsLeft(op, i, err)
           p == Program[op]
<1>1. Len(p) \in 1..9 /\ StepsFit(op) /\ WindowFits(op) /\ DrainsFit(op)
  BY MethodsFit
<1>2. left # {} => Min(left) \in left /\ \A y \in left : Min(left) <= y
  <2>1. left \in SUBSET Nat
    BY <1>1 DEF StepsLeft
  <2> QED
    BY <2>1, MinOfPlaces
<1>3. CASE err = "none"
  <2>1. left = (i + 1)..Len(p)
    BY <1>3 DEF StepsLeft
  <2>2. left # {} => Min(left) = i + 1 /\ i + 1 \in 1..Len(p)
    <3>1. left # {} => i + 1 \in left
      BY <2>1, <1>1
    <3> QED
      BY <3>1, <2>1, <1>1, <1>2
  <2>3. left = {} => i = Len(p)
    <3>1. i # Len(p) => i + 1 \in left
      BY <2>1, <1>1
    <3> QED
      BY <3>1
  <2> QED
    BY <1>3, <1>1, <2>2, <2>3 DEF WindowFits, Pends
<1>4. CASE err # "none"
  <2>1. left = {j \in (i + 1)..Len(p) : p[j][2] = "drain" /\ Opened(p, p[j][1], i)}
    BY <1>4 DEF StepsLeft
  <2>2. \A j \in left : j \in 1..Len(p) /\ j > i /\ op # "listdir" /\ At(op, j)[2] = "drain"
    BY <2>1, <1>1 DEF StepsFit, At
  <2>3. ASSUME NEW x \in Parties, Pends(op, i, x), op # "listdir"
        PROVE  left # {} /\ Min(left) \in Window(op, x)
    <3>1. PICK j \in i..Len(p) :
            At(op, j) = <<x, "drain">> /\ \A k \in i..j : k \in Window(op, x)
      BY <2>3, <1>1 DEF Pends, DrainsFit
    <3>2. j # i
      BY <3>1, <2>3 DEF Pends, Reads
    <3>3. j \in (i + 1)..Len(p) /\ Opened(p, x, i)
      BY <3>1, <3>2, <2>3, <1>1 DEF Pends, DrainsFit
    <3>4. j \in left
      BY <3>1, <3>3, <2>1 DEF At
    <3>5. Min(left) \in i..j
      <4>1. Min(left) \in 1..Len(p) /\ Min(left) > i /\ Min(left) <= j
        BY <3>4, <1>2, <2>2
      <4> HIDE DEF left, p
      <4> QED
        BY <4>1, <1>1
    <3> QED
      BY <3>1, <3>4, <3>5
  <2>4. ASSUME NEW x \in Parties, left # {}, Min(left) \in Window(op, x)
        PROVE  Pends(op, i, x)
    <3>1. Min(left) \in (i + 1)..Len(p) /\ At(op, Min(left))[2] = "drain"
             /\ Opened(p, At(op, Min(left))[1], i)
      BY <2>4, <2>1, <1>2 DEF At
    <3> QED
      BY <3>1, <2>4, <1>1 DEF DrainsFit, Pends
  <2> QED
    BY <1>4, <1>2, <2>2, <2>3, <2>4
<1> QED
  BY <1>3, <1>4

-----------------------------------------------------------------------------
(* The call. *)

(* What CallOk says of a call under way, with the step and side it is at.   *)
InCall ==
  /\ call.by \in Sessions /\ call.op \in DOMAIN Program
  /\ call.at \in 1..Len(Program[call.op])
  /\ call.peer \in Sessions \cup {NoSession} /\ call.peer # call.by
  /\ call.op = "listdir" => call.by \in FtpSessions /\ call.peer = NoSession
  /\ call.op \in {"ftp_to_ftp", "sftp_to_ftp"} => call.peer \in Sessions
  /\ call.err # "none" => Step = "drain"
  /\ \A t \in Participants : Held(t) # NoHandle
  /\ call.err \in {"none", "plain", "fatal"}

LEMMA CallFacts ==
  ASSUME CallOk, ~Idle
  PROVE  /\ InCall
         /\ Side \in Participants /\ Participants \subseteq Sessions
         /\ At(call.op, call.at) = <<Role(Side), Step>>
         /\ Step \in {"command", "type", "noop", "peek", "open", "data", "drain", "reply"}
         /\ \A t \in Sessions : Role(t) \in Parties
         /\ \A t, u \in Participants : t # u => Role(t) # Role(u)
<1>1. InCall
  BY DEF CallOk, InCall
<1>2. Participants \subseteq Sessions /\ call.by \in Participants
  BY <1>1, SessionAssumption DEF InCall, Participants
<1>3. StepsFit(call.op)
  BY <1>1, MethodsFit DEF InCall
<1>4. At(call.op, call.at) = <<At(call.op, call.at)[1], Step>>
  BY <1>1, <1>3 DEF InCall, StepsFit, At, Step
<1>5. At(call.op, call.at)[1] = Role(Side) /\ Side \in Participants
  <2>1. CASE At(call.op, call.at)[1] = "self"
    BY <2>1, <1>2 DEF Side, Role, At
  <2>2. CASE At(call.op, call.at)[1] # "self"
    <3>1. At(call.op, call.at)[1] = "other" /\ call.peer \in Sessions
      BY <2>2, <1>1, <1>3 DEF InCall, StepsFit, Parties
    <3> QED
      BY <3>1, <1>1, SessionAssumption DEF InCall, Side, Role, At, Participants
  <2> QED
    BY <2>1, <2>2
<1>6. Step \in {"command", "type", "noop", "peek", "open", "data", "drain", "reply"}
  BY <1>1, <1>3 DEF InCall, StepsFit, At, Step
<1>7. \A t, u \in Participants : t # u => Role(t) # Role(u)
  BY DEF Participants, Role
<1> QED
  BY <1>1, <1>2, <1>4, <1>5, <1>6, <1>7 DEF Role, Parties

(* Whether the session's side has a reply to come after the present step,   *)
(* when the step ended with err.                                            *)
StillToCome(s) == Pends(call.op, call.at, Role(s))
ComesAfter(s, err) ==
  StillToCome(s) \/ (err = "none" /\ Opens(call.op, call.at, Role(s)))

LEMMA Continues ==
  ASSUME CallOk, ~Idle, NEW err \in {"none", "plain", "fatal"}, Continue(err)
  PROVE  \/ /\ Idle' /\ Participants' = {}
            /\ raised' = [t \in Sessions |-> IF t \in Participants THEN err ELSE raised[t]]
            /\ \A s \in Participants :
                 ComesAfter(s, err) => call.op = "listdir" /\ err # "none"
         \/ /\ ~Idle' /\ Participants' = Participants /\ raised' = raised
            /\ \A s : Role(s)' = Role(s)
            /\ call.op = "listdir" => err = "none"
            /\ call'.err = err
            /\ \A s \in Participants : MayOwe(s)' <=> ComesAfter(s, err)
            /\ (\A t \in Participants : Held(t)' # NoHandle) => CallOk'
<1> DEFINE left == StepsLeft(call.op, call.at, err)
<1>1. /\ InCall /\ Participants \subseteq Sessions
      /\ \A t \in Sessions : Role(t) \in Parties
  BY CallFacts
<1>2. /\ left # {} =>
           /\ Min(left) \in 1..Len(Program[call.op])
           /\ err # "none" => call.op # "listdir" /\ At(call.op, Min(left))[2] = "drain"
           /\ \A x \in Parties :
                Min(left) \in Window(call.op, x)
                  <=> Pends(call.op, call.at, x) \/ (err = "none" /\ Opens(call.op, call.at, x))
      /\ left = {} =>
           \A x \in Parties :
             /\ Pends(call.op, call.at, x) => call.op = "listdir" /\ err # "none"
             /\ err = "none" => ~Opens(call.op, call.at, x)
  BY <1>1, StepsLeftAre DEF InCall
<1>3. CASE left = {}
  <2>1. /\ call' = Quiet
        /\ raised' = [t \in Sessions |-> IF t \in Participants THEN err ELSE raised[t]]
    BY <1>3 DEF Continue
  <2>2. Idle' /\ Participants' = {}
    BY <2>1 DEF Idle, Participants, Quiet
  <2> QED
    BY <2>1, <2>2, <1>1, <1>2, <1>3 DEF ComesAfter, StillToCome
<1>4. CASE left # {}
  <2> DEFINE next == Min(left)
  <2>1. call' = [call EXCEPT !.at = next, !.err = err] /\ raised' = raised
    BY <1>4 DEF Continue
  <2>2. call \in [by : Sessions, op : DOMAIN Program, at : Nat,
                  peer : Sessions \cup {NoSession}, err : {"none", "plain", "fatal"}]
    BY DEF CallOk
  <2>3. /\ next \in 1..Len(Program[call.op])
        /\ err # "none" => call.op # "listdir" /\ At(call.op, next)[2] = "drain"
        /\ \A s \in Participants : next \in Window(call.op, Role(s)) <=> ComesAfter(s, err)
    BY <1>1, <1>2, <1>4 DEF ComesAfter, StillToCome
  <2> HIDE DEF left, next
  <2>4. /\ call'.by = call.by /\ call'.op = call.op /\ call'.peer = call.peer
        /\ call'.at = next /\ call'.err = err
    BY <2>1, <2>2
  <2>5. ~Idle'
    BY <2>4, <1>1, SessionAssumption DEF InCall, Idle, Quiet
  <2>6. Participants' = Participants /\ \A s : Role(s)' = Role(s)
    BY <2>4 DEF Participants, Role
  <2>7. \A s \in Participants : MayOwe(s)' <=> ComesAfter(s, err)
    BY <2>3, <2>4, <2>6 DEF MayOwe
  <2>8. ASSUME \A t \in Participants : Held(t)' # NoHandle
        PROVE  CallOk'
    <3>1. next \in Nat
      BY <2>3
    <3>2. call' \in [by : Sessions, op : DOMAIN Program, at : Nat,
                     peer : Sessions \cup {NoSession}, err : {"none", "plain", "fatal"}]
      BY <2>1, <2>2, <3>1
    <3>3. call'.err # "none" => Step' = "drain"
      BY <2>3, <2>4 DEF Step, At
    <3> QED
      BY <3>2, <3>3, <2>3, <2>4, <2>6, <2>8, <1>1 DEF CallOk, InCall
  <2> QED
    BY <2>1, <2>3, <2>4, <2>5, <2>6, <2>7, <2>8
<1> QED
  BY <1>3, <1>4

(* What a step that ends with err leaves of a participant's handle.         *)
LeavesSound(s, err) ==
  /\ \/ Excused(s)'
     \/ err = "fatal" /\ (wire'[Held(s)] = "bad" \/ call.op = "listdir")
     \/ /\ wire'[Held(s)] = "up"
        /\ owing'[Held(s)] => ComesAfter(s, err) /\ (call.op = "listdir" => err = "none")
  /\ ComesAfter(s, err) =>
       owing'[Held(s)] \/ wire'[Held(s)] # "up" \/ unseen'[Held(s)] # "no"

SameHandle(h) == wire'[h] = wire[h] /\ owing'[h] = owing[h] /\ unseen'[h] = unseen[h]

LEMMA CallMoves ==
  ASSUME SessionInv, ~Idle, NEW err \in {"none", "plain", "fatal"}, Continue(err),
         Types', pooled' = pooled,
         \A s \in Sessions : Held(s)' = Held(s) /\ sess'[s].entries = sess[s].entries,
         \A s \in Sessions \ Participants : sess'[s] = sess[s],
         \A h \in Handles : (\A s \in Participants : h # Held(s)) => SameHandle(h),
         \A s \in Participants : LeavesSound(s, err)
  PROVE  SessionInv'
<1>1. /\ InCall /\ Participants \subseteq Sessions /\ \A t \in Participants : Held(t) # NoHandle
  BY CallFacts DEF SessionInv, InCall
<1>2. \/ /\ Idle' /\ Participants' = {}
         /\ raised' = [t \in Sessions |-> IF t \in Participants THEN err ELSE raised[t]]
         /\ \A s \in Participants :
              ComesAfter(s, err) => call.op = "listdir" /\ err # "none"
      \/ /\ ~Idle' /\ Participants' = Participants /\ raised' = raised
         /\ \A s : Role(s)' = Role(s)
         /\ call.op = "listdir" => err = "none"
         /\ call'.err = err
         /\ \A s \in Participants : MayOwe(s)' <=> ComesAfter(s, err)
         /\ (\A t \in Participants : Held(t)' # NoHandle) => CallOk'
  BY Continues DEF SessionInv
<1>3. \A s \in Sessions \ Participants : raised'[s] = raised[s]
  BY <1>2
<1>4. OneOwner'
  BY <1>1, <1>3 DEF SessionInv, OneOwner
<1>5. CallOk'
  BY <1>1, <1>2 DEF CallOk
<1>6. Sound'
  <2> SUFFICES ASSUME NEW s \in Sessions, Held(s) # NoHandle
               PROVE  IF s \in Participants' THEN CallSound(s)' /\ OweKept(s)' ELSE BlockSound(s)'
    BY DEF Sound
  <2>1. Held(s)' = Held(s) /\ Held(s) \in Handles
    BY DEF SessionInv, Types, Held
  <2>2. CASE s \notin Participants
    <3>1. SameHandle(Held(s))
      BY <2>1, <2>2, <1>1 DEF SessionInv, OneOwner
    <3>2. BlockSound(s)
      BY <2>2 DEF SessionInv, Sound
    <3>3. BlockSound(s)'
      BY <3>1, <3>2, <2>1, <2>2, <1>3 DEF BlockSound, Excused, SameHandle
    <3> QED
      BY <3>3, <2>2, <1>2
  <2>3. CASE s \in Participants /\ Idle'
    <3>1. raised'[s] = err /\ Participants' = {}
      BY <2>3, <1>2
    <3>2. LeavesSound(s, err) /\ (ComesAfter(s, err) => call.op = "listdir" /\ err # "none")
      BY <2>3, <1>2
    <3>3. owing'[Held(s)] \in BOOLEAN
      BY <2>1 DEF Types
    <3>4. call.op = "listdir" => s \in FtpSessions
      BY <2>3, <1>1 DEF InCall, Participants
    <3>5. BlockSound(s)'
      BY <3>1, <3>2, <3>3, <3>4, <2>1 DEF LeavesSound, BlockSound
    <3> QED
      BY <3>1, <3>5
  <2>4. CASE s \in Participants /\ ~Idle'
    <3>1. /\ Participants' = Participants /\ call'.err = err
          /\ call.op = "listdir" => err = "none"
          /\ MayOwe(s)' <=> ComesAfter(s, err)
      BY <2>4, <1>2
    <3>2. LeavesSound(s, err)
      BY <2>4
    <3>3. CallSound(s)' /\ OweKept(s)'
      BY <3>1, <3>2, <2>1 DEF LeavesSound, CallSound, OweKept
    <3> QED
      BY <3>1, <3>3, <2>4
  <2> QED
    BY <2>2, <2>3, <2>4
<1>7. HealthyIsSound'
  <2> SUFFICES ASSUME NEW h \in pooled
               PROVE  unseen'[h] \in {"kept"} \cup KnownLosses \/ (wire'[h] = "up" /\ ~owing'[h])
    BY DEF HealthyIsSound
  <2>1. h \in Handles /\ \A s \in Participants : h # Held(s)
    BY <1>1 DEF SessionInv, Types, OneOwner
  <2> QED
    BY <2>1 DEF SessionInv, HealthyIsSound, SameHandle
<1> QED
  BY <1>4, <1>5, <1>6, <1>7 DEF SessionInv

(* A participant whose handle the step leaves alone: what held of it holds, *)
(* unless the call's exception told of it and is replaced unmarked.         *)
LEMMA Bystander ==
  ASSUME SessionInv, ~Idle, NEW s \in Participants,
         s # Side \/ (Step = "data" /\ call.op # "listdir"),
         NEW err \in {"none", "plain", "fatal"},
         wire'[Held(s)] = wire[Held(s)], owing'[Held(s)] = owing[Held(s)],
         Held(s)' = Held(s), sess'[s].fatal = sess[s].fatal,
         unseen[Held(s)] # "no" => unseen'[Held(s)] # "no",
         call.err = "fatal" /\ wire[Held(s)] = "bad" => err = "fatal" \/ unseen'[Held(s)] # "no"
  PROVE  LeavesSound(s, err)
<1>1. /\ InCall /\ s \in Sessions /\ Side \in Participants
      /\ At(call.op, call.at) = <<Role(Side), Step>>
      /\ s # Side => Role(s) # Role(Side)
      /\ Held(s) # NoHandle
  BY CallFacts DEF SessionInv, InCall
<1>2. call.op # "listdir"
  BY <1>1 DEF InCall, Participants
<1>3. ComesAfter(s, err) <=> MayOwe(s)
  BY <1>1 DEF ComesAfter, StillToCome, Pends, Reads, Opens, MayOwe
<1>4. CallSound(s) /\ OweKept(s)
  BY <1>1 DEF SessionInv, Sound
<1> QED
  BY <1>2, <1>3, <1>4 DEF LeavesSound, CallSound, OweKept, Excused

(* The handle a step is on, when the step is a command or a transfercmd():  *)
(* no completion reply is to come on it yet.                                *)
LEMMA BeforeWindow ==
  ASSUME SessionInv, ~Idle, Step \notin {"data", "drain", "reply"}
  PROVE  /\ ~StillToCome(Side)
         /\ Excused(Side) \/ (wire[Held(Side)] = "up" /\ ~owing[Held(Side)])
<1>1. /\ InCall /\ Side \in Participants /\ Side \in Sessions
      /\ At(call.op, call.at) = <<Role(Side), Step>>
      /\ Role(Side) \in Parties /\ Held(Side) # NoHandle
  BY CallFacts DEF SessionInv, InCall
<1>2. call.at \notin Window(call.op, Role(Side))
  BY <1>1, MethodsFit DEF InCall, WindowFits
<1>3. CallSound(Side) /\ call.err = "none"
  BY <1>1 DEF SessionInv, Sound, InCall
<1>4. owing[Held(Side)] \in BOOLEAN
  BY <1>1 DEF SessionInv, Types, Held
<1> QED
  BY <1>2, <1>3, <1>4 DEF StillToCome, Pends, CallSound, MayOwe

(* A reply that shows the connection lost is fatal where it is translated.  *)
Losses == {"421", "malformed", "timeout", "eof", "SFTPError", "SSHException"}

LEMMA LossIsFatal ==
  ASSUME NEW reply \in Losses
  PROVE  Severity(Translated(reply)) = "fatal"
BY DEF Losses, Severity, Translated, Raw, ConnectionFatal

LEMMA RepliesAre ==
  ASSUME Types, NEW h \in Handles, NEW reply \in Replies(h)
  PROVE  /\ WireAfter(h, reply) \in {"up", "bad", "skewed"}
         /\ wire[h] = "up" /\ WireAfter(h, reply) = "bad" => reply \in Losses
         /\ wire[h] = "up" /\ ~owing[h] /\ WireAfter(h, reply) # "bad" => WireAfter(h, reply) = "up"
<1>1. wire[h] \in {"up", "bad", "skewed"} /\ owing[h] \in BOOLEAN
  BY DEF Types
<1> QED
  BY <1>1 DEF Replies, WireAfter, Losses, Refusals

LEMMA SideFacts ==
  ASSUME SessionInv, ~Idle
  PROVE  /\ Side \in Participants /\ Side \in Sessions /\ Held(Side) \in Handles
         /\ \A s \in Participants : Held(s) \in Handles /\ (s # Side => Held(s) # Held(Side))
<1>1. InCall /\ Side \in Participants /\ Participants \subseteq Sessions
  BY CallFacts DEF SessionInv
<1> QED
  BY <1>1 DEF InCall, SessionInv, Types, OneOwner, Held

LEMMA RaisedValues ==
  ASSUME Types, NEW err \in {"none", "plain", "fatal"}, Continue(err)
  PROVE  raised' \in [Sessions -> {"none", "plain", "fatal"}]
BY DEF Types, Continue

LEMMA CommandKeeps ==
  ASSUME SessionInv, Command
  PROVE  SessionInv'
<1> DEFINE h == Held(Side)
<1>1. ~Idle /\ Step \in {"command", "type", "noop", "peek"} /\ sess' = sess /\ pooled' = pooled
  BY DEF Command
<1>2. PICK reply \in Replies(h) :
        /\ wire' = [wire EXCEPT ![h] = WireAfter(h, reply)]
        /\ owing' = IF reply \in {"timeout", "eof"} THEN owing ELSE [owing EXCEPT ![h] = FALSE]
        /\ unseen' = IF /\ Step # "command" /\ WireAfter(h, reply) = "bad"
                        /\ ErrorOf(Step, h, reply) # "fatal"
                     THEN IF Step = "peek" THEN Keeps(h) ELSE Misnames(h)
                     ELSE unseen
        /\ Continue(ErrorOf(Step, h, reply))
  BY DEF Command
<1> DEFINE err == ErrorOf(Step, h, reply)
<1>3. /\ Side \in Participants /\ Side \in Sessions /\ h \in Handles
      /\ \A s \in Participants : Held(s) \in Handles /\ (s # Side => Held(s) # h)
  BY <1>1, SideFacts
<1>4. err \in {"none", "plain", "fatal"}
  BY DEF ErrorOf, Severity
<1>5. /\ WireAfter(h, reply) \in {"up", "bad", "skewed"}
      /\ wire[h] = "up" /\ WireAfter(h, reply) = "bad" => reply \in Losses
      /\ wire[h] = "up" /\ ~owing[h] /\ WireAfter(h, reply) # "bad" => WireAfter(h, reply) = "up"
  BY <1>3, RepliesAre DEF SessionInv
<1>6. Types /\ Types'
  <2>1. Types /\ raised' \in [Sessions -> {"none", "plain", "fatal"}]
    BY <1>2, <1>4, RaisedValues DEF SessionInv
  <2> QED
    BY <2>1, <1>1, <1>2, <1>3, <1>5 DEF Types, Keeps, Misnames
<1>7. \A g \in Handles : g # h => SameHandle(g)
  BY <1>2, <1>6 DEF SameHandle, Keeps, Misnames, Types
<1>8. /\ wire'[h] = WireAfter(h, reply)
      /\ unseen[h] # "no" => unseen'[h] # "no"
      /\ owing'[h] => owing[h]
      /\ Step # "command" /\ WireAfter(h, reply) = "bad" /\ err # "fatal" => unseen'[h] # "no"
  BY <1>2, <1>3, <1>6 DEF Types, Keeps, Misnames
<1>9. call.err = "none"
  BY <1>1, CallFacts DEF InCall, SessionInv
<1>10. ASSUME NEW s \in Participants, s = Side PROVE LeavesSound(s, err)
  <2>1. ~ComesAfter(s, err)
    <3>1. ~StillToCome(Side)
      BY <1>1, BeforeWindow
    <3>2. At(call.op, call.at) = <<Role(Side), Step>>
      BY <1>1, CallFacts DEF SessionInv
    <3> QED
      BY <3>1, <3>2, <1>1, <1>10 DEF ComesAfter, Opens
  <2>2. CASE Excused(s)
    BY <2>1, <2>2, <1>1, <1>8, <1>10 DEF LeavesSound, Excused, Held
  <2>3. CASE ~Excused(s)
    <3>1. wire[h] = "up" /\ ~owing[h]
      BY <2>3, <1>1, <1>10, BeforeWindow
    <3>2. CASE WireAfter(h, reply) = "up"
      BY <3>1, <3>2, <2>1, <1>8, <1>10 DEF LeavesSound
    <3>3. CASE WireAfter(h, reply) = "bad" /\ Step = "command"
      <4>1. reply # "ok" /\ err = "fatal"
        BY <3>1, <3>3, <1>5, LossIsFatal DEF ErrorOf, Losses, Caught
      <4> QED
        BY <4>1, <3>3, <2>1, <1>8, <1>10 DEF LeavesSound
    <3>4. CASE WireAfter(h, reply) = "bad" /\ Step # "command"
      <4>1. err = "fatal" \/ unseen'[h] # "no"
        BY <3>4, <1>8
      <4> QED
        BY <4>1, <3>4, <2>1, <1>1, <1>8, <1>10 DEF LeavesSound, Excused, Held
    <3> QED
      BY <3>1, <3>2, <3>3, <3>4, <1>5
  <2> QED
    BY <2>2, <2>3
<1>11. \A s \in Participants : LeavesSound(s, err)
  <2> SUFFICES ASSUME NEW s \in Participants, s # Side PROVE LeavesSound(s, err)
    BY <1>10
  <2>1. SameHandle(Held(s)) /\ Held(s)' = Held(s) /\ sess'[s].fatal = sess[s].fatal
    BY <1>1, <1>3, <1>7 DEF Held
  <2> QED
    BY <2>1, <1>1, <1>4, <1>9, Bystander DEF SameHandle
<1> HIDE DEF err, h
<1>12. /\ \A s \in Sessions : Held(s)' = Held(s) /\ sess'[s] = sess[s]
  BY <1>1 DEF Held
<1>13. \A g \in Handles : (\A s \in Participants : g # Held(s)) => SameHandle(g)
  BY <1>3, <1>7 DEF h
<1>14. Continue(err)
  BY <1>2 DEF err
<1> QED
  BY <1>1, <1>4, <1>6, <1>11, <1>12, <1>13, <1>14, CallMoves

LEMMA OpenKeeps ==
  ASSUME SessionInv, Open
  PROVE  SessionInv'
<1> DEFINE h == Held(Side)
<1>1. ~Idle /\ Step = "open" /\ sess' = sess /\ pooled' = pooled
  BY DEF Open
<1>2. PICK reply \in Replies(h) \cup {"nodata", "handshake"} :
        /\ reply \in {"nodata", "handshake"} => wire[h] \in {"up", "skewed"}
        /\ wire' = [wire EXCEPT ![h] = WireAfter(h, reply)]
        /\ owing' = IF reply \in {"ok", "handshake"} THEN [owing EXCEPT ![h] = TRUE] ELSE owing
        /\ unseen' = IF reply = "handshake" THEN Keeps(h) ELSE unseen
        /\ Continue(IF reply = "ok" THEN "none" ELSE Severity(Translated(reply)))
  BY DEF Open
<1> DEFINE err == IF reply = "ok" THEN "none" ELSE Severity(Translated(reply))
<1>3. /\ Side \in Participants /\ Side \in Sessions /\ h \in Handles
      /\ \A s \in Participants : Held(s) \in Handles /\ (s # Side => Held(s) # h)
  BY <1>1, SideFacts
<1>4. err \in {"none", "plain", "fatal"} /\ (err = "none" <=> reply = "ok")
  BY DEF Severity
<1>5. /\ WireAfter(h, reply) \in {"up", "bad", "skewed"}
      /\ wire[h] = "up" /\ WireAfter(h, reply) = "bad" => reply \in Losses
      /\ wire[h] = "up" /\ ~owing[h] /\ WireAfter(h, reply) # "bad" => WireAfter(h, reply) = "up"
  <2>1. wire[h] \in {"up", "bad", "skewed"}
    BY <1>3 DEF SessionInv, Types
  <2>2. CASE reply \in {"nodata", "handshake"}
    BY <2>1, <2>2 DEF WireAfter
  <2> QED
    BY <2>2, <1>3, RepliesAre DEF SessionInv
<1>6. Types /\ Types'
  <2>1. Types /\ raised' \in [Sessions -> {"none", "plain", "fatal"}]
    BY <1>2, <1>4, RaisedValues DEF SessionInv
  <2> QED
    BY <2>1, <1>1, <1>2, <1>3, <1>5 DEF Types, Keeps
<1>7. \A g \in Handles : g # h => SameHandle(g)
  BY <1>2, <1>6 DEF SameHandle, Keeps, Types
<1>8. /\ wire'[h] = WireAfter(h, reply)
      /\ unseen[h] # "no" => unseen'[h] # "no"
      /\ reply = "handshake" => unseen'[h] = "kept"
      /\ owing'[h] = (owing[h] \/ reply \in {"ok", "handshake"})
  BY <1>2, <1>3, <1>6 DEF Types, Keeps
<1>9. call.err = "none"
  BY <1>1, CallFacts DEF InCall, SessionInv
<1>10. ASSUME NEW s \in Participants, s = Side PROVE LeavesSound(s, err)
  <2>1. ComesAfter(s, err) <=> reply = "ok"
    <3>1. ~StillToCome(Side)
      BY <1>1, BeforeWindow
    <3>2. At(call.op, call.at) = <<Role(Side), Step>>
      BY <1>1, CallFacts DEF SessionInv
    <3> QED
      BY <3>1, <3>2, <1>1, <1>4, <1>10 DEF ComesAfter, Opens
  <2>2. ComesAfter(s, err) => owing'[Held(s)]
    BY <2>1, <1>3, <1>6, <1>8, <1>10 DEF Types
  <2>3. CASE Excused(s) \/ reply = "handshake"
    BY <2>2, <2>3, <1>1, <1>8, <1>10 DEF LeavesSound, Excused, Held
  <2>4. CASE ~Excused(s) /\ reply # "handshake"
    <3>1. wire[h] = "up" /\ ~owing[h]
      BY <2>4, <1>1, <1>10, BeforeWindow
    <3>2. CASE WireAfter(h, reply) = "up"
      BY <3>1, <3>2, <2>1, <2>2, <2>4, <1>4, <1>8, <1>10 DEF LeavesSound
    <3>3. CASE WireAfter(h, reply) = "bad"
      <4>1. reply # "ok" /\ err = "fatal"
        BY <3>1, <3>3, <1>5, LossIsFatal DEF Losses
      <4> QED
        BY <4>1, <3>3, <2>2, <1>8, <1>10 DEF LeavesSound
    <3> QED
      BY <3>1, <3>2, <3>3, <1>5
  <2> QED
    BY <2>3, <2>4
<1>11. \A s \in Participants : LeavesSound(s, err)
  <2> SUFFICES ASSUME NEW s \in Participants, s # Side PROVE LeavesSound(s, err)
    BY <1>10
  <2>1. SameHandle(Held(s)) /\ Held(s)' = Held(s) /\ sess'[s].fatal = sess[s].fatal
    BY <1>1, <1>3, <1>7 DEF Held
  <2> QED
    BY <2>1, <1>1, <1>4, <1>9, Bystander DEF SameHandle
<1> HIDE DEF err, h
<1>12. \A s \in Sessions : Held(s)' = Held(s) /\ sess'[s] = sess[s]
  BY <1>1 DEF Held
<1>13. \A g \in Handles : (\A s \in Participants : g # Held(s)) => SameHandle(g)
  BY <1>3, <1>7 DEF h
<1>14. Continue(err)
  BY <1>2 DEF err
<1> QED
  BY <1>1, <1>4, <1>6, <1>11, <1>12, <1>13, <1>14, CallMoves

(* The loop of a transfer: what it leaves of a listing's only handle.       *)
LEMMA DataOfListing ==
  ASSUME SessionInv, ~Idle, Step = "data", call.op = "listdir", NEW s \in Participants,
         NEW err \in {"none", "plain", "fatal"}, sess' = sess,
         wire' = wire, owing' = owing, unseen[Held(s)] # "no" => unseen'[Held(s)] # "no",
         err = "plain" => unseen'[Held(s)] # "no"
  PROVE  LeavesSound(s, err)
<1>1. /\ InCall /\ s \in Sessions /\ Held(s) # NoHandle
      /\ At(call.op, call.at)[2] = Step
  BY CallFacts DEF SessionInv, InCall
<1>2. ComesAfter(s, err) <=> MayOwe(s)
  BY <1>1 DEF ComesAfter, StillToCome, Pends, Reads, Opens, MayOwe
<1>3. CallSound(s) /\ OweKept(s) /\ call.err = "none"
  BY <1>1 DEF SessionInv, Sound, InCall
<1> QED
  BY <1>1, <1>2, <1>3 DEF LeavesSound, CallSound, OweKept, Excused, Held

LEMMA DataKeeps ==
  ASSUME SessionInv, Data
  PROVE  SessionInv'
<1>1. ~Idle /\ Step = "data" /\ sess' = sess /\ pooled' = pooled /\ owing' = owing
  BY DEF Data
<1>2. /\ call.err = "none" /\ call.by \in Participants
      /\ call.op = "listdir" => Participants = {call.by}
  BY <1>1, CallFacts, SessionAssumption DEF InCall, SessionInv, Participants
<1>3. \A s \in Participants : Held(s) \in Handles /\ s \in Sessions
  BY <1>1, SideFacts, CallFacts DEF SessionInv
<1>4. Types /\ \A s : Held(s)' = Held(s) /\ sess'[s] = sess[s]
  BY <1>1 DEF SessionInv, Held
<1>5. ASSUME NEW err \in {"none", "plain", "fatal"}, Continue(err), wire' = wire,
             unseen' = IF call.op = "listdir" /\ err = "plain"
                       THEN Keeps(Held(call.by)) ELSE unseen
      PROVE  SessionInv'
  <2>1. Types'
    <3>1. raised' \in [Sessions -> {"none", "plain", "fatal"}]
      BY <1>4, <1>5, RaisedValues
    <3> QED
      BY <3>1, <1>1, <1>4, <1>5 DEF Types, Keeps
  <2>2. ASSUME NEW s \in Participants PROVE LeavesSound(s, err)
    <3>1. /\ unseen[Held(s)] # "no" => unseen'[Held(s)] # "no"
          /\ call.op = "listdir" /\ err = "plain" => unseen'[Held(s)] # "no"
      BY <1>2, <1>3, <1>4, <1>5 DEF Types, Keeps
    <3>2. CASE call.op = "listdir"
      BY <3>1, <3>2, <1>1, <1>5, DataOfListing
    <3>3. CASE call.op # "listdir"
      BY <3>1, <3>3, <1>1, <1>2, <1>4, <1>5, Bystander
    <3> QED
      BY <3>2, <3>3
  <2>3. \A g \in Handles : (\A s \in Participants : g # Held(s)) => SameHandle(g)
    BY <1>1, <1>2, <1>4, <1>5 DEF SameHandle, Types, Keeps
  <2> QED
    BY <2>1, <2>2, <2>3, <1>1, <1>4, <1>5, CallMoves
<1>6. ASSUME NEW t \in Participants, NEW reply \in {"SFTPError", "SSHException"},
             wire' = [wire EXCEPT ![Held(t)] = "bad"],
             unseen' = IF reply = "SFTPError" THEN Misnames(Held(t)) ELSE unseen,
             Continue(Severity(Raw(reply)))
      PROVE  SessionInv'
  <2> DEFINE err == Severity(Raw(reply))
  <2>1. err \in {"none", "plain", "fatal"} /\ (reply = "SSHException" => err = "fatal")
    BY DEF Severity, Raw, ConnectionFatal
  <2>2. Types'
    <3>1. raised' \in [Sessions -> {"none", "plain", "fatal"}]
      BY <1>4, <1>6, <2>1, RaisedValues
    <3> QED
      BY <3>1, <1>1, <1>3, <1>4, <1>6 DEF Types, Misnames
  <2>3. \A g \in Handles : g # Held(t) => SameHandle(g)
    BY <1>1, <1>4, <1>6 DEF SameHandle, Misnames, Types
  <2>4. \A s \in Participants : s # t => Held(s) # Held(t)
    BY <1>3, SessionAssumption DEF SessionInv, OneOwner, Handles
  <2>5. LeavesSound(t, err)
    <3>1. wire'[Held(t)] = "bad" /\ (reply = "SFTPError" => unseen'[Held(t)] # "no")
      BY <1>3, <1>4, <1>6 DEF Types, Misnames
    <3> QED
      BY <3>1, <2>1, <1>4 DEF LeavesSound, Excused
  <2>6. ASSUME NEW s \in Participants, s # t PROVE LeavesSound(s, err)
    <3>1. SameHandle(Held(s)) /\ call.op # "listdir"
      BY <2>3, <2>4, <2>6, <1>2, <1>3
    <3> HIDE DEF err
    <3> QED
      BY <3>1, <2>1, <1>1, <1>2, <1>4, Bystander DEF SameHandle
  <2>7. \A g \in Handles : (\A s \in Participants : g # Held(s)) => SameHandle(g)
    BY <2>3
  <2> HIDE DEF err
  <2>8. Continue(err)
    BY <1>6 DEF err
  <2> QED
    BY <2>1, <2>2, <2>5, <2>6, <2>7, <2>8, <1>1, <1>4, CallMoves
<1> QED
  BY <1>5, <1>6 DEF Data

LEMMA ReadCompletionKeeps ==
  ASSUME SessionInv, ReadCompletion
  PROVE  SessionInv'
<1>1. ~Idle /\ Step \in {"drain", "reply"} /\ pooled' = pooled
  BY DEF ReadCompletion
<1>2. PICK t \in Participants : t = Side
  BY <1>1, SideFacts
<1> DEFINE h == Held(t)
<1>3. PICK reply \in Replies(h) \cup {"426"} :
        /\ reply = "426" => wire[h] = "up"
        /\ wire' = [wire EXCEPT ![h] = IF WireAfter(h, reply) = "bad" THEN "bad" ELSE @]
        /\ owing' = IF reply \in {"timeout", "eof"} THEN owing ELSE [owing EXCEPT ![h] = FALSE]
        /\ sess' = IF reply # "ok" /\ Step = "drain"
                   THEN [sess EXCEPT ![t].fatal = TRUE] ELSE sess
        /\ unseen' = IF call.err = "fatal" /\ Severity(Translated(reply)) = "plain" /\ reply # "ok"
                     THEN [g \in Handles |-> IF g \in Partners(t) /\ wire[g] = "bad"
                                            THEN "replaced" ELSE unseen[g]]
                     ELSE unseen
        /\ Continue(IF reply = "ok" THEN call.err ELSE Severity(Translated(reply)))
  BY <1>2 DEF ReadCompletion
<1> DEFINE err == IF reply = "ok" THEN call.err ELSE Severity(Translated(reply))
<1>4. /\ t \in Sessions /\ h \in Handles
      /\ \A s \in Participants : Held(s) \in Handles /\ s \in Sessions /\ (s # t => Held(s) # h)
  BY <1>1, <1>2, SideFacts, CallFacts DEF SessionInv
<1>5. call.err \in {"none", "plain", "fatal"} /\ (Step = "reply" => call.err = "none")
  BY <1>1, CallFacts DEF InCall, SessionInv
<1>6. err \in {"none", "plain", "fatal"}
  BY <1>5 DEF Severity
<1>7. wire[h] = "up" /\ WireAfter(h, reply) = "bad" => reply \in Losses
  BY <1>4, RepliesAre DEF SessionInv, WireAfter
<1>8. Types /\ Types'
  <2>1. Types /\ raised' \in [Sessions -> {"none", "plain", "fatal"}]
    BY <1>3, <1>6, RaisedValues DEF SessionInv
  <2>2. sess' \in [Sessions -> [entries : Nat, handler : Handles \cup {NoHandle},
                                epoch : Nat, fatal : BOOLEAN]]
    BY <2>1, <1>3 DEF Types
  <2>3. wire' \in [Handles -> {"up", "bad", "skewed"}]
    BY <2>1, <1>3, <1>4 DEF Types
  <2>4. owing' \in [Handles -> BOOLEAN] /\ unseen' \in [Handles -> {"no", "kept", "untranslated", "replaced"}]
    BY <2>1, <1>3, <1>4 DEF Types
  <2> QED
    BY <2>1, <2>2, <2>3, <2>4, <1>1 DEF Types
<1>9. \A s \in Sessions : /\ Held(s)' = Held(s) /\ sess'[s].entries = sess[s].entries
                          /\ s # t => sess'[s] = sess[s]
  BY <1>3, <1>8 DEF Types, Held
<1>10. \A g \in Handles :
         /\ g # h => wire'[g] = wire[g] /\ owing'[g] = owing[g]
         /\ unseen'[g] = unseen[g] \/ unseen'[g] = "replaced"
         /\ g \notin Partners(t) => unseen'[g] = unseen[g]
         /\ g \in Partners(t) /\ wire[g] = "bad" /\ call.err = "fatal" /\ err = "plain" =>
              reply = "ok" \/ unseen'[g] = "replaced"
  BY <1>3, <1>8 DEF Types
<1>11. LeavesSound(t, err)
  <2>1. ~ComesAfter(t, err)
    <3>1. At(call.op, call.at) = <<Role(t), Step>>
      BY <1>1, <1>2, CallFacts DEF SessionInv
    <3> QED
      BY <3>1, <1>1 DEF ComesAfter, StillToCome, Pends, Reads, Opens
  <2>2. /\ wire'[h] = IF WireAfter(h, reply) = "bad" THEN "bad" ELSE wire[h]
        /\ reply \notin {"timeout", "eof"} => ~owing'[h]
        /\ reply # "ok" /\ Step = "drain" => sess'[t].fatal
        /\ reply = "ok" \/ Step # "drain" => sess' = sess
        /\ unseen[h] # "no" => unseen'[h] # "no"
    BY <1>3, <1>4, <1>8, <1>10 DEF Types
  <2>3. CallSound(t)
    BY <1>1, <1>2, <1>4, SessionAssumption DEF SessionInv, Sound, Handles
  <2>4. CASE reply # "ok" /\ Step = "drain"
    BY <2>1, <2>2, <2>4 DEF LeavesSound, Excused
  <2>5. CASE Excused(t) /\ (reply = "ok" \/ Step # "drain")
    BY <2>1, <2>2, <2>5, <1>9, <1>4 DEF LeavesSound, Excused
  <2>6. CASE ~Excused(t) /\ reply = "ok"
    <3>1. wire'[h] = wire[h] \/ wire[h] = "up"
      BY <2>2, <2>6, <1>7 DEF WireAfter, Losses
    <3>2. WireAfter(h, reply) # "bad" \/ wire[h] = "bad"
      BY <2>6 DEF WireAfter
    <3> QED
      BY <3>1, <3>2, <2>1, <2>2, <2>3, <2>6 DEF LeavesSound, CallSound
  <2>7. CASE ~Excused(t) /\ reply # "ok" /\ Step # "drain"
    <3>1. wire[h] = "up"
      BY <2>3, <2>7, <1>1, <1>5 DEF CallSound
    <3>2. CASE WireAfter(h, reply) = "bad"
      <4>1. err = "fatal"
        BY <3>1, <3>2, <2>7, <1>7, LossIsFatal
      <4> QED
        BY <4>1, <3>2, <2>1, <2>2 DEF LeavesSound
    <3>3. CASE WireAfter(h, reply) # "bad"
      <4>1. reply \notin {"timeout", "eof"}
        BY <3>3 DEF WireAfter
      <4> QED
        BY <4>1, <3>1, <3>3, <2>1, <2>2 DEF LeavesSound
    <3> QED
      BY <3>2, <3>3
  <2> QED
    BY <2>4, <2>5, <2>6, <2>7
<1>12. ASSUME NEW s \in Participants, s # t PROVE LeavesSound(s, err)
  <2>1. Held(s) \in Handles /\ Held(s) # h /\ Held(s) \in Partners(t) /\ s \in Sessions
    BY <1>4, <1>12 DEF Partners
  <2>2. call.err = "fatal" /\ wire[Held(s)] = "bad" => err = "fatal" \/ unseen'[Held(s)] # "no"
    BY <2>1, <1>10 DEF Severity
  <2>3. /\ wire'[Held(s)] = wire[Held(s)] /\ owing'[Held(s)] = owing[Held(s)]
        /\ unseen[Held(s)] # "no" => unseen'[Held(s)] # "no"
        /\ Held(s)' = Held(s) /\ sess'[s].fatal = sess[s].fatal
    BY <2>1, <1>9, <1>10, <1>12
  <2> HIDE DEF err, h
  <2> QED
    BY <2>2, <2>3, <1>1, <1>2, <1>6, <1>12, Bystander
<1>13. \A g \in Handles : (\A s \in Participants : g # Held(s)) => SameHandle(g)
  BY <1>2, <1>10 DEF SameHandle, Partners
<1> HIDE DEF err, h
<1>14. Continue(err)
  BY <1>3 DEF err
<1> QED
  BY <1>1, <1>2, <1>6, <1>8, <1>9, <1>11, <1>12, <1>13, <1>14, CallMoves

-----------------------------------------------------------------------------
(* The blocks. *)

LEMMA InitHolds == Init => SessionInv
BY SessionAssumption
DEF Init, SessionInv, Types, OneOwner, CallOk, Sound, HealthyIsSound, Held, Idle, Quiet,
    Participants

(* Outside the calls there are no participants, and each block is sound.    *)
LEMMA NoCall ==
  ASSUME SessionInv, Idle
  PROVE  /\ Participants = {}
         /\ \A s \in Sessions : Held(s) # NoHandle => BlockSound(s)
<1>1. Participants = {}
  BY DEF Idle, Quiet, Participants
<1> QED
  BY <1>1 DEF SessionInv, Sound

(* A step of the blocks: it leaves the call alone.                          *)
LEMMA BlockMoves ==
  ASSUME SessionInv, Idle, call' = call, Types', OneOwner', HealthyIsSound',
         \A s \in Sessions : Held(s)' # NoHandle => BlockSound(s)'
  PROVE  SessionInv'
<1>1. Idle' /\ CallOk' /\ Participants' = {}
  BY DEF Idle, CallOk, Quiet, Participants
<1>2. Sound'
  BY <1>1 DEF Sound
<1> QED
  BY <1>1, <1>2 DEF SessionInv

LEMMA CheckoutKeeps ==
  ASSUME SessionInv, NEW s \in Sessions, Checkout(s)
  PROVE  SessionInv'
<1>1. sess[s].entries = 0 /\ Idle /\ raised' = raised /\ call' = call
  BY DEF Checkout
<1>2. PICK h \in HandlesOf(s) \ Lent :
        /\ sess' = [sess EXCEPT ![s] = [entries |-> 1, handler |-> h,
                                        epoch |-> @.epoch + 1, fatal |-> @.fatal]]
        /\ pooled' = pooled \ {h}
        /\ owing' = [owing EXCEPT ![h] = FALSE]
        /\ \/ Answers(h) /\ wire' = Lends(h) /\ UNCHANGED unseen
           \/ wire' = [wire EXCEPT ![h] = "up"] /\ unseen' = [unseen EXCEPT ![h] = "no"]
  BY DEF Checkout
<1>3. h \in Handles /\ h # NoHandle /\ \A t \in Sessions : Held(t) # h
  BY <1>2, SessionAssumption DEF HandlesOf, Handles, Lent
<1>4. /\ Types /\ OneOwner /\ HealthyIsSound
      /\ \A t \in Sessions : Held(t) # NoHandle => BlockSound(t)
  BY <1>1, NoCall DEF SessionInv
<1>5. Types'
  <2>1. sess' \in [Sessions -> [entries : Nat, handler : Handles \cup {NoHandle},
                                epoch : Nat, fatal : BOOLEAN]]
    BY <1>2, <1>3, <1>4 DEF Types
  <2>2. /\ wire' \in [Handles -> {"up", "bad", "skewed"}]
        /\ owing' \in [Handles -> BOOLEAN]
        /\ unseen' \in [Handles -> {"no", "kept", "untranslated", "replaced"}]
    BY <1>2, <1>3, <1>4 DEF Types, Lends
  <2> QED
    BY <2>1, <2>2, <1>1, <1>2, <1>4 DEF Types
<1>6. /\ Held(s)' = h /\ sess'[s].entries = 1
      /\ \A t \in Sessions : t # s => sess'[t] = sess[t] /\ Held(t)' = Held(t)
  BY <1>2, <1>3, <1>4 DEF Types, Held
<1>7. OneOwner'
  BY <1>1, <1>2, <1>3, <1>4, <1>6 DEF OneOwner
<1>8. \A g \in Handles : g # h => SameHandle(g)
  BY <1>2, <1>4 DEF Types, SameHandle, Lends
<1>9. HealthyIsSound'
  BY <1>2, <1>4, <1>8 DEF HealthyIsSound, SameHandle, Types
<1>10. unseen'[h] # "no" \/ (wire'[h] = "up" /\ ~owing'[h])
  <2>1. owing'[h] = FALSE
    BY <1>2, <1>3, <1>4 DEF Types
  <2>2. CASE Answers(h) /\ wire' = Lends(h) /\ UNCHANGED unseen
    BY <2>1, <2>2, <1>4 DEF Answers, Lends, HealthyIsSound, KnownLosses
  <2>3. CASE wire' = [wire EXCEPT ![h] = "up"]
    BY <2>1, <2>3, <1>3, <1>4 DEF Types
  <2> QED
    BY <2>2, <2>3, <1>2
<1>11. \A t \in Sessions : Held(t)' # NoHandle => BlockSound(t)'
  <2> SUFFICES ASSUME NEW t \in Sessions, Held(t)' # NoHandle PROVE BlockSound(t)'
    OBVIOUS
  <2>1. CASE t = s
    BY <2>1, <1>6, <1>10 DEF BlockSound, Excused
  <2>2. CASE t # s
    <3>1. Held(t)' = Held(t) /\ Held(t) \in Handles /\ Held(t) # h /\ sess'[t] = sess[t]
      BY <2>2, <1>3, <1>4, <1>6 DEF Types, Held
    <3> QED
      BY <3>1, <1>1, <1>4, <1>8 DEF BlockSound, Excused, SameHandle
  <2> QED
    BY <2>1, <2>2
<1> QED
  BY <1>1, <1>5, <1>7, <1>9, <1>11, BlockMoves

(* A step that changes nothing of the handles keeps the blocks sound, when  *)
(* what it forgets of an exception the session remembers.                   *)
LEMMA QuietMoves ==
  ASSUME SessionInv, Idle, Types', UNCHANGED <<call, pooled, wire, owing, unseen>>,
         \A t \in Sessions :
           /\ Held(t)' = Held(t) /\ (sess'[t].entries = 0 <=> sess[t].entries = 0)
           /\ raised'[t] # "none" => Held(t) # NoHandle
           /\ sess[t].fatal => sess'[t].fatal
           /\ raised[t] = "fatal" => raised'[t] = "fatal" \/ sess'[t].fatal
  PROVE  SessionInv'
<1>1. /\ Types /\ OneOwner /\ HealthyIsSound
      /\ \A t \in Sessions : Held(t) # NoHandle => BlockSound(t)
  BY NoCall DEF SessionInv
<1>2. OneOwner' /\ HealthyIsSound'
  BY <1>1 DEF OneOwner, HealthyIsSound
<1>3. \A t \in Sessions : Held(t)' # NoHandle => BlockSound(t)'
  BY <1>1 DEF BlockSound, Excused
<1> QED
  BY <1>2, <1>3, BlockMoves

LEMMA ReenterKeeps ==
  ASSUME SessionInv, NEW s \in Sessions, Reenter(s)
  PROVE  SessionInv'
<1>1. /\ sess[s].entries \in 1..(MaxDepth - 1) /\ Idle
      /\ sess' = [sess EXCEPT ![s].entries = @ + 1]
      /\ UNCHANGED <<raised, call, listing, pooled, wire, owing, unseen>>
  BY DEF Reenter
<1>2. Types /\ OneOwner
  BY DEF SessionInv
<1>3. /\ sess' \in [Sessions -> [entries : Nat, handler : Handles \cup {NoHandle},
                                 epoch : Nat, fatal : BOOLEAN]]
      /\ \A t \in Sessions : /\ Held(t)' = Held(t) /\ sess'[t].fatal = sess[t].fatal
                             /\ sess'[t].entries = 0 <=> sess[t].entries = 0
  BY <1>1, <1>2 DEF Types, Held
<1>4. Types'
  BY <1>1, <1>2, <1>3 DEF Types
<1> QED
  BY <1>1, <1>2, <1>3, <1>4, QuietMoves DEF OneOwner

LEMMA ExitInnerKeeps ==
  ASSUME SessionInv, NEW s \in Sessions, ExitInner(s)
  PROVE  SessionInv'
<1>1. /\ sess[s].entries > 1 /\ Idle
      /\ sess' = [sess EXCEPT ![s].entries = @ - 1, ![s].fatal = FatalAfter(s)]
      /\ UNCHANGED <<raised, call, listing, pooled, wire, owing, unseen>>
  BY DEF ExitInner
<1>2. Types /\ OneOwner
  BY DEF SessionInv
<1>3. FatalAfter(s) \in BOOLEAN /\ (sess[s].fatal => FatalAfter(s))
  BY <1>2 DEF FatalAfter, Types
<1>4. /\ sess' \in [Sessions -> [entries : Nat, handler : Handles \cup {NoHandle},
                                 epoch : Nat, fatal : BOOLEAN]]
      /\ sess'[s].entries = sess[s].entries - 1 /\ sess'[s].fatal = FatalAfter(s)
      /\ \A t \in Sessions : Held(t)' = Held(t) /\ (t # s => sess'[t] = sess[t])
  <2>1. sess[s].entries - 1 \in Nat
    BY <1>1, <1>2 DEF Types
  <2>2. sess' = [sess EXCEPT ![s] = [sess[s] EXCEPT !.entries = sess[s].entries - 1,
                                                    !.fatal = FatalAfter(s)]]
    BY <1>1
  <2>3. sess'[s] = [sess[s] EXCEPT !.entries = sess[s].entries - 1, !.fatal = FatalAfter(s)]
    BY <2>2, <1>2 DEF Types
  <2>4. sess \in [Sessions -> [entries : Nat, handler : Handles \cup {NoHandle},
                               epoch : Nat, fatal : BOOLEAN]]
    BY <1>2 DEF Types
  <2> HIDE DEF Handles
  <2> QED
    BY <2>1, <2>2, <2>3, <2>4, <1>3 DEF Held
<1>5. \A t \in Sessions : /\ Held(t)' = Held(t) /\ (sess[t].fatal => sess'[t].fatal)
                          /\ (sess'[t].entries = 0 <=> sess[t].entries = 0)
  <2>1. sess[s].entries \in Nat
    BY <1>2 DEF Types
  <2> QED
    BY <2>1, <1>1, <1>3, <1>4
<1>6. Types'
  BY <1>1, <1>2, <1>4 DEF Types
<1> QED
  BY <1>1, <1>2, <1>5, <1>6, QuietMoves DEF OneOwner

LEMMA CatchKeeps ==
  ASSUME SessionInv, NEW s \in Sessions, Catch(s)
  PROVE  SessionInv'
<1>1. /\ Idle
      /\ raised[s] = "plain" \/ (raised[s] = "fatal" /\ sess[s].fatal)
      /\ raised' = [raised EXCEPT ![s] = "none"]
      /\ UNCHANGED <<sess, call, listing, pooled, wire, owing, unseen>>
  BY DEF Catch
<1>2. Types /\ OneOwner
  BY DEF SessionInv
<1>3. Types' /\ \A t \in Sessions : Held(t)' = Held(t)
  BY <1>1, <1>2 DEF Types, Held
<1>4. \A t \in Sessions : /\ t # s => raised'[t] = raised[t]
                          /\ raised'[s] = "none"
  BY <1>1, <1>2 DEF Types
<1> QED
  BY <1>1, <1>2, <1>3, <1>4, QuietMoves DEF OneOwner

LEMMA ListingKeeps ==
  ASSUME SessionInv, NEW s \in Sessions,
         StartSftpListing(s) \/ ListingRefused(s) \/ FtpListingNext(s)
  PROVE  SessionInv'
<1>1. Idle /\ UNCHANGED <<sess, raised, call, pooled, wire, owing, unseen>>
  BY DEF StartSftpListing, ListingRefused, FtpListingNext
<1>2. Types /\ OneOwner /\ Types' /\ \A t \in Sessions : Held(t)' = Held(t)
  BY <1>1 DEF SessionInv, Types, Held
<1> QED
  BY <1>1, <1>2, QuietMoves DEF OneOwner

LEMMA SftpListingNextKeeps ==
  ASSUME SessionInv, NEW s \in Sessions, SftpListingNext(s)
  PROVE  SessionInv'
<1>1. Idle /\ sess' = sess /\ call' = call /\ pooled' = pooled /\ owing' = owing
  BY DEF SftpListingNext
<1>2. Held(s) # NoHandle
  BY DEF SftpListingNext, Outlived
<1>3. /\ Types /\ OneOwner /\ HealthyIsSound
      /\ \A t \in Sessions : Held(t)' = Held(t) /\ (Held(t) # NoHandle => BlockSound(t))
  BY <1>1, NoCall DEF SessionInv, Held
<1>4. CASE UNCHANGED <<raised, wire, unseen>>
  <2>1. Types'
    BY <1>1, <1>3, <1>4 DEF Types
  <2> QED
    BY <2>1, <1>1, <1>3, <1>4, QuietMoves DEF OneOwner
<1>5. CASE \E reply \in Replies(Held(s)) \ {"ok"} :
             /\ wire' = [wire EXCEPT ![Held(s)] = WireAfter(Held(s), reply)]
             /\ unseen' = IF reply = "SFTPError" THEN Keeps(Held(s)) ELSE unseen
             /\ raised' = [raised EXCEPT ![s] = Severity(Raw(reply))]
  <2> DEFINE h == Held(s)
  <2>1. PICK reply \in Replies(h) \ {"ok"} :
          /\ wire' = [wire EXCEPT ![h] = WireAfter(h, reply)]
          /\ unseen' = IF reply = "SFTPError" THEN Keeps(h) ELSE unseen
          /\ raised' = [raised EXCEPT ![s] = Severity(Raw(reply))]
    BY <1>5
  <2>2. h \in Handles
    BY <1>2, <1>3 DEF Types, Held
  <2>3. /\ WireAfter(h, reply) \in {"up", "bad", "skewed"}
        /\ wire[h] = "up" /\ ~owing[h] /\ WireAfter(h, reply) # "bad" => WireAfter(h, reply) = "up"
    BY <2>2, <1>3, RepliesAre
  <2>4. h \in SftpHandles
    BY <1>2, <1>3, SessionAssumption DEF OneOwner, HandlesOf, SftpListingNext
  <2>5. Types'
    BY <2>1, <2>2, <2>3, <1>1, <1>3 DEF Types, Keeps, Severity
  <2>6. \A g \in Handles : g # h => SameHandle(g)
    BY <2>1, <1>1, <1>3 DEF SameHandle, Keeps, Types
  <2>7. \A t \in Sessions : t # s => Held(t) # h /\ raised'[t] = raised[t]
    BY <2>1, <1>2, <1>3 DEF OneOwner, Types
  <2>8. OneOwner' /\ HealthyIsSound'
    BY <2>6, <2>7, <1>1, <1>2, <1>3 DEF OneOwner, HealthyIsSound, SameHandle, Types
  <2>9. BlockSound(s)'
    <3>1. /\ wire'[h] = WireAfter(h, reply) /\ owing'[h] = owing[h]
          /\ unseen'[h] = IF reply = "SFTPError" THEN "kept" ELSE unseen[h]
          /\ raised'[s] = Severity(Raw(reply))
      BY <2>1, <2>2, <1>1, <1>3 DEF Types, Keeps
    <3>2. BlockSound(s)
      BY <1>2, <1>3
    <3>3. CASE Excused(s) \/ reply = "SFTPError"
      BY <3>1, <3>3, <1>1, <1>3 DEF BlockSound, Excused
    <3>4. CASE reply \in {"SSHException", "eof"}
      <4>1. WireAfter(h, reply) = "bad" /\ raised'[s] = "fatal"
        BY <3>1, <3>4 DEF WireAfter, Severity, Raw, ConnectionFatal
      <4> QED
        BY <4>1, <3>1, <1>3 DEF BlockSound
    <3>5. CASE reply = "refused" /\ ~Excused(s)
      <4>1. wire[h] = "up"
        BY <2>1, <2>4, <3>5 DEF Replies
      <4>2. s \notin FtpSessions
        BY SessionAssumption DEF SftpListingNext
      <4>3. ~owing[h] /\ WireAfter(h, reply) = "up"
        BY <4>1, <4>2, <3>2, <3>5 DEF BlockSound, WireAfter
      <4> QED
        BY <4>3, <3>1, <1>3 DEF BlockSound
    <3>6. reply \in {"refused", "SFTPError", "SSHException", "eof"}
      BY <2>1, <2>4 DEF Replies
    <3> QED
      BY <3>3, <3>4, <3>5, <3>6
  <2>10. \A t \in Sessions : Held(t)' # NoHandle => BlockSound(t)'
    <3> SUFFICES ASSUME NEW t \in Sessions, t # s, Held(t) # NoHandle PROVE BlockSound(t)'
      BY <2>9, <1>3
    <3>1. Held(t) \in Handles /\ Held(t) # h /\ BlockSound(t)
      BY <2>7, <1>3 DEF Types, Held
    <3> QED
      BY <3>1, <2>6, <2>7, <1>1, <1>3 DEF BlockSound, Excused, SameHandle
  <2> QED
    BY <2>5, <2>8, <2>10, <1>1, BlockMoves
<1> QED
  BY <1>4, <1>5 DEF SftpListingNext

LEMMA ExitOuterKeeps ==
  ASSUME SessionInv, NEW s \in Sessions, ExitOuter(s)
  PROVE  SessionInv'
<1> DEFINE h == Held(s)
           discard == FatalAfter(s)
<1>1. /\ sess[s].entries = 1 /\ Idle
      /\ sess' = [sess EXCEPT ![s] = GivenBack(s)]
      /\ raised' = [raised EXCEPT ![s] = "none"]
      /\ pooled' = IF discard THEN pooled ELSE pooled \cup {h}
      /\ wire' = IF discard THEN [wire EXCEPT ![h] = "up"] ELSE wire
      /\ owing' = IF discard THEN [owing EXCEPT ![h] = FALSE] ELSE owing
      /\ unseen' = IF discard THEN [unseen EXCEPT ![h] = "no"] ELSE unseen
      /\ call' = call
  BY DEF ExitOuter
<1>2. /\ Types /\ OneOwner /\ HealthyIsSound
      /\ \A t \in Sessions : Held(t) # NoHandle => BlockSound(t)
  BY <1>1, NoCall DEF SessionInv
<1>3. h # NoHandle /\ h \in Handles /\ h \notin pooled /\ (\A t \in Sessions : t # s => Held(t) # h)
  BY <1>1, <1>2 DEF Types, OneOwner, Held
<1>4. /\ GivenBack(s) \in [entries : Nat, handler : Handles \cup {NoHandle},
                           epoch : Nat, fatal : BOOLEAN]
      /\ GivenBack(s).handler = NoHandle /\ GivenBack(s).entries = 0
  BY <1>2 DEF GivenBack, Types
<1>5. /\ sess' \in [Sessions -> [entries : Nat, handler : Handles \cup {NoHandle},
                                 epoch : Nat, fatal : BOOLEAN]]
      /\ sess'[s] = GivenBack(s) /\ \A t \in Sessions : t # s => sess'[t] = sess[t]
  BY <1>1, <1>2, <1>4 DEF Types
<1>6. Types'
  BY <1>1, <1>2, <1>3, <1>5 DEF Types
<1>7. /\ Held(s)' = NoHandle /\ raised'[s] = "none" /\ sess'[s].entries = 0
      /\ \A t \in Sessions : t # s => Held(t)' = Held(t) /\ raised'[t] = raised[t]
  BY <1>1, <1>2, <1>4, <1>5 DEF Held, Types
<1>8. pooled' \subseteq pooled \cup {h}
  BY <1>1
<1> HIDE DEF discard
<1>9. OneOwner'
  <2>1. NoHandle \notin pooled'
    BY <1>2, <1>3, <1>8, SessionAssumption DEF Types
  <2>2. \A t \in Sessions :
          /\ (Held(t)' = NoHandle) <=> (sess'[t].entries = 0)
          /\ Held(t)' = NoHandle => raised'[t] = "none"
          /\ Held(t)' # NoHandle => Held(t)' \in HandlesOf(t)
    BY <1>2, <1>5, <1>7 DEF OneOwner
  <2>3. \A t \in Sessions : Held(t)' \notin pooled'
    BY <2>1, <1>2, <1>3, <1>7, <1>8 DEF OneOwner
  <2>4. \A t, u \in Sessions : t # u /\ Held(t)' # NoHandle => Held(t)' # Held(u)'
    BY <1>2, <1>7 DEF OneOwner
  <2> QED
    BY <2>2, <2>3, <2>4 DEF OneOwner
<1>10. \A g \in Handles : g # h => SameHandle(g)
  BY <1>1, <1>2 DEF SameHandle, Types
<1>11. HealthyIsSound'
  <2> SUFFICES ASSUME NEW g \in pooled'
               PROVE  unseen'[g] \in {"kept"} \cup KnownLosses \/ (wire'[g] = "up" /\ ~owing'[g])
    BY DEF HealthyIsSound
  <2>1. CASE g # h
    BY <2>1, <1>2, <1>8, <1>10 DEF HealthyIsSound, SameHandle, Types
  <2>2. CASE g = h
    <3>1. ~discard /\ UNCHANGED <<wire, owing, unseen>>
      BY <2>2, <1>1, <1>3
    <3>2. BlockSound(s) /\ ~sess[s].fatal /\ raised[s] # "fatal"
      BY <3>1, <1>2, <1>3 DEF discard, FatalAfter
    <3> QED
      BY <3>1, <3>2, <2>2, <1>2, <1>3 DEF BlockSound, Excused, Types, KnownLosses
  <2> QED
    BY <2>1, <2>2
<1>12. \A t \in Sessions : Held(t)' # NoHandle => BlockSound(t)'
  <2> SUFFICES ASSUME NEW t \in Sessions, t # s, Held(t) # NoHandle PROVE BlockSound(t)'
    BY <1>7
  <2>1. Held(t) \in Handles /\ Held(t) # h /\ BlockSound(t)
    BY <1>2, <1>3 DEF Types, Held
  <2> QED
    BY <2>1, <1>5, <1>7, <1>10 DEF BlockSound, Excused, SameHandle
<1> QED
  BY <1>1, <1>6, <1>9, <1>11, <1>12, BlockMoves

LEMMA BeginKeeps ==
  ASSUME SessionInv, NEW s \in Sessions, Begin(s)
  PROVE  SessionInv'
<1>1. PICK m \in Methods(s) :
        /\ Idle
        /\ \A t \in {s, m[2]} \ {NoSession} : sess[t].entries > 0 /\ raised[t] = "none"
        /\ call' = [by |-> s, op |-> m[1], at |-> 1, peer |-> m[2], err |-> "none"]
        /\ UNCHANGED <<sess, raised, listing, pooled, wire, owing, unseen>>
  BY DEF Begin
<1>2. /\ Types /\ OneOwner /\ HealthyIsSound
      /\ \A t \in Sessions : Held(t) # NoHandle => BlockSound(t)
  BY <1>1, NoCall DEF SessionInv
<1>3. /\ m[2] \in Sessions \cup {NoSession} /\ m[2] # s
      /\ m[1] \in DOMAIN Program
      /\ m[1] = "listdir" => s \in FtpSessions /\ m[2] = NoSession
      /\ m[1] \in {"ftp_to_ftp", "sftp_to_ftp"} => m[2] \in Sessions
  <2>1. m \in (IF s \in FtpSessions THEN FtpMethods ELSE SftpMethods) /\ m[2] # s
    BY DEF Methods
  <2>2. CASE s \in FtpSessions
    <3>1. m \in FtpMethods
      BY <2>1, <2>2
    <3>2. /\ m[1] \in DOMAIN Program /\ m[1] # "sftp_to_ftp"
          /\ m[2] \in Sessions \cup {NoSession}
          /\ m[1] = "listdir" => m[2] = NoSession
          /\ m[1] = "ftp_to_ftp" => m[2] \in Sessions
      BY <3>1, MethodNames DEF FtpMethods, Sessions
    <3> QED
      BY <2>1, <2>2, <3>2
  <2>3. CASE s \notin FtpSessions
    <3>1. m \in SftpMethods
      BY <2>1, <2>3
    <3>2. /\ m[1] \in DOMAIN Program /\ m[1] \notin {"listdir", "ftp_to_ftp"}
          /\ m[2] \in Sessions \cup {NoSession}
          /\ m[1] = "sftp_to_ftp" => m[2] \in Sessions
      BY <3>1, MethodNames DEF SftpMethods, Sessions
    <3> QED
      BY <2>1, <2>3, <3>2
  <2> QED
    BY <2>1, <2>2, <2>3
<1>4. 1 \in 1..Len(Program[m[1]])
  <2> DEFINE steps == Len(Program[m[1]])
  <2>1. steps \in 1..9
    BY <1>3, MethodsFit
  <2> HIDE DEF steps
  <2>2. 1 \in 1..steps
    BY <2>1
  <2> QED
    BY <2>2 DEF steps
<1>5. call' \in [by : Sessions, op : DOMAIN Program, at : Nat,
                 peer : Sessions \cup {NoSession}, err : {"none", "plain", "fatal"}]
  BY <1>1, <1>3
<1>6. /\ call'.by = s /\ call'.op = m[1] /\ call'.at = 1 /\ call'.peer = m[2]
      /\ call'.err = "none"
  BY <1>1
<1>7. Participants' = {s, m[2]} \ {NoSession} /\ Participants' \subseteq Sessions
  BY <1>3, <1>6 DEF Participants
<1>8. \A t \in Sessions : Held(t)' = Held(t)
  BY <1>1 DEF Held
<1>9. \A t \in Participants' : Held(t) # NoHandle /\ raised[t] = "none"
  BY <1>1, <1>2, <1>7 DEF OneOwner
<1>10. Types' /\ OneOwner' /\ HealthyIsSound'
  BY <1>1, <1>2, <1>8 DEF Types, OneOwner, HealthyIsSound
<1>11. CallOk'
  BY <1>3, <1>4, <1>5, <1>6, <1>7, <1>8, <1>9 DEF CallOk
<1>12. Sound'
  <2> SUFFICES ASSUME NEW t \in Sessions, Held(t) # NoHandle
               PROVE  IF t \in Participants' THEN CallSound(t)' /\ OweKept(t)' ELSE BlockSound(t)'
    BY <1>8 DEF Sound
  <2>1. BlockSound(t) /\ owing[Held(t)] \in BOOLEAN
    BY <1>2 DEF Types, Held
  <2>2. ~MayOwe(t)'
    BY <1>6 DEF MayOwe, Window
  <2>3. BlockSound(t)'
    BY <2>1, <1>1, <1>8 DEF BlockSound, Excused
  <2>4. t \in Participants' => CallSound(t)'
    BY <2>1, <1>1, <1>8, <1>9 DEF BlockSound, CallSound, Excused
  <2> QED
    BY <2>2, <2>3, <2>4 DEF OweKept
<1> QED
  BY <1>10, <1>11, <1>12 DEF SessionInv

-----------------------------------------------------------------------------

LEMMA StepKeeps ==
  ASSUME SessionInv, [Next]_vars
  PROVE  SessionInv'
<1>1. CASE Command
  BY <1>1, CommandKeeps
<1>2. CASE Open
  BY <1>2, OpenKeeps
<1>3. CASE Data
  BY <1>3, DataKeeps
<1>4. CASE ReadCompletion
  BY <1>4, ReadCompletionKeeps
<1>5. ASSUME NEW s \in Sessions, SessionStep(s) PROVE SessionInv'
  BY <1>5, CheckoutKeeps, ReenterKeeps, ExitInnerKeeps, ExitOuterKeeps, CatchKeeps, BeginKeeps,
     ListingKeeps, SftpListingNextKeeps DEF SessionStep
<1>6. CASE UNCHANGED vars
  <2>1. Types' /\ OneOwner' /\ HealthyIsSound'
    BY <1>6 DEF SessionInv, vars, Types, OneOwner, Held, HealthyIsSound
  <2>2. CallOk'
    BY <1>6 DEF SessionInv, vars, CallOk, Idle, Step, Participants, Held
  <2>3. Sound'
    BY <1>6 DEF SessionInv, vars, Sound, CallSound, OweKept, BlockSound, Excused, MayOwe, Role,
      Participants, Held
  <2> QED
    BY <2>1, <2>2, <2>3 DEF SessionInv
<1> QED
  BY <1>1, <1>2, <1>3, <1>4, <1>5, <1>6 DEF Next

(* The inductive invariant: one owner per handle, calls that are somewhere  *)
(* in their program, and every failure excused, raised or on its way.       *)
THEOREM SessionsAreSound == Spec => []SessionInv
<1>1. SessionInv /\ [Next]_vars => SessionInv'
  BY StepKeeps
<1> QED
  BY InitHolds, <1>1, PTL DEF Spec

(* For any sessions, nesting, transfers and failures: a handle that         *)
(* __exit__ gives back to its pool as healthy has neither a lost connection *)
(* nor an unread completion reply, unless the code kept the failure from    *)
(* __exit__ (HealthyIsSound).                                               *)
THEOREM GivenBackIsUsable == Spec => []HealthyIsSound
<1>1. SessionInv => HealthyIsSound
  BY DEF SessionInv
<1> QED
  BY SessionsAreSound, <1>1, PTL

(* Whatever failed before it, drain_completion_reply() and listdir()'s      *)
(* voidresp() read only where a completion reply is to come (ReplyWillCome). *)
THEOREM NoDrainWaitsInVain == Spec => []ReplyWillCome
<1>1. SessionInv => ReplyWillCome
  <2> SUFFICES ASSUME SessionInv, ~Idle, Step \in {"drain", "reply"}
               PROVE  owing[Held(Side)] \/ wire[Held(Side)] # "up" \/ unseen[Held(Side)] # "no"
    BY DEF ReplyWillCome
  <2>1. /\ InCall /\ Side \in Participants /\ Side \in Sessions
        /\ At(call.op, call.at) = <<Role(Side), Step>>
        /\ Role(Side) \in Parties /\ Held(Side) # NoHandle
    BY CallFacts DEF SessionInv, InCall
  <2>2. call.at \in Window(call.op, Role(Side))
    BY <2>1, MethodsFit DEF InCall, WindowFits, Reads
  <2>3. OweKept(Side)
    BY <2>1 DEF SessionInv, Sound
  <2> QED
    BY <2>1, <2>2, <2>3 DEF OweKept, MayOwe
<1> QED
  BY SessionsAreSound, <1>1, PTL

-----------------------------------------------------------------------------
(* Listings that outlive their block. *)

(* A listing remembers a checkout that began. *)
ListingsOk == listing \in [Sessions -> Nat] /\ \A s \in Sessions : listing[s] <= sess[s].epoch

LEMMA CheckoutCounts ==
  ASSUME SessionInv, NEW s \in Sessions, Checkout(s)
  PROVE  sess[s].epoch \in Nat /\ sess'[s].epoch = sess[s].epoch + 1
<1>1. \E h : sess' = [sess EXCEPT ![s] = [entries |-> 1, handler |-> h,
                                         epoch |-> @.epoch + 1, fatal |-> @.fatal]]
  BY DEF Checkout
<1> QED BY <1>1 DEF SessionInv, Types

(* Apart from a checkout nothing lends a handle or counts an epoch. *)
LEMMA LendersAre ==
  ASSUME SessionInv, Next, NEW s \in Sessions, ~Checkout(s)
  PROVE  sess'[s].epoch = sess[s].epoch /\ sess'[s].handler \in {Held(s), NoHandle}
<1>1. sess \in [Sessions -> [entries : Nat, handler : Handles \cup {NoHandle},
                             epoch : Nat, fatal : BOOLEAN]]
  BY DEF SessionInv, Types
<1>2. CASE Command \/ Open \/ Data
  BY <1>2 DEF Command, Open, Data, Held
<1>3. CASE ReadCompletion
  BY <1>1, <1>3 DEF ReadCompletion, Held
<1>4. ASSUME NEW t \in Sessions, SessionStep(t)
      PROVE  sess'[s].epoch = sess[s].epoch /\ sess'[s].handler \in {Held(s), NoHandle}
  <2>1. CASE Checkout(t)
    <3>1. s # t
      BY <2>1
    <3> QED
      BY <1>1, <2>1, <3>1 DEF Checkout, Held
  <2>2. CASE ExitOuter(t)
    BY <1>1, <2>2 DEF ExitOuter, GivenBack, Held
  <2>3. CASE Reenter(t) \/ ExitInner(t)
    BY <1>1, <2>3 DEF Reenter, ExitInner, Held
  <2>4. CASE Catch(t) \/ Begin(t) \/ StartSftpListing(t) \/ ListingRefused(t)
               \/ FtpListingNext(t) \/ SftpListingNext(t)
    BY <2>4 DEF Catch, Begin, StartSftpListing, ListingRefused, FtpListingNext,
      SftpListingNext, Held
  <2> QED BY <1>4, <2>1, <2>2, <2>3, <2>4 DEF SessionStep
<1> QED BY <1>2, <1>3, <1>4 DEF Next

(* A step leaves a session's listing, ends it, or starts one under the      *)
(* session's checkout of the moment.                                        *)
LEMMA ListingMoves ==
  ASSUME SessionInv, ListingsOk, Next, NEW s \in Sessions
  PROVE  /\ listing' \in [Sessions -> Nat]
         /\ listing'[s] \in {listing[s], 0, sess[s].epoch}
         /\ Checkout(s) => listing' = listing
<1>1. sess \in [Sessions -> [entries : Nat, handler : Handles \cup {NoHandle},
                             epoch : Nat, fatal : BOOLEAN]]
  BY DEF SessionInv, Types
<1> DEFINE Starts(t) == listing' = [listing EXCEPT ![t] = sess[t].epoch]
           Ends(t) == listing' = [listing EXCEPT ![t] = 0]
<1>2. ASSUME NEW err, Continue(err)
      PROVE  listing' = listing \/ Starts(call.by)
  BY <1>2 DEF Continue
<1>3. CASE Command \/ Open \/ Data \/ ReadCompletion
  <2>1. listing' = listing \/ Starts(call.by)
    BY <1>2, <1>3 DEF Command, Open, Data, ReadCompletion
  <2>2. ~Idle
    BY <1>3 DEF Command, Open, Data, ReadCompletion
  <2>3. ~Checkout(s)
    BY <2>2 DEF Checkout
  <2>4. call.by \in Sessions
    BY <2>2 DEF SessionInv, CallOk
  <2> QED BY <1>1, <2>1, <2>3, <2>4 DEF ListingsOk
<1>4. ASSUME NEW t \in Sessions, SessionStep(t)
      PROVE  (listing' = listing \/ Starts(t) \/ Ends(t)) /\ (Checkout(s) => listing' = listing)
  <2>1. listing' = listing \/ Starts(t) \/ Ends(t)
    BY <1>4 DEF SessionStep, Checkout, Reenter, ExitInner, ExitOuter, Catch, Begin,
      StartSftpListing, ListingRefused, FtpListingNext, SftpListingNext
  <2>2. Checkout(s) => listing' = listing
    BY DEF Checkout
  <2> QED BY <2>1, <2>2
<1>5. CASE \E t \in Sessions : SessionStep(t)
  BY <1>1, <1>4, <1>5 DEF ListingsOk
<1> QED BY <1>3, <1>5 DEF Next

LEMMA ListingsHold ==
  ASSUME SessionInv, ListingsOk, [Next]_vars
  PROVE  ListingsOk'
<1>1. SessionInv'
  BY StepKeeps
<1>2. sess \in [Sessions -> [entries : Nat, handler : Handles \cup {NoHandle},
                             epoch : Nat, fatal : BOOLEAN]]
  BY DEF SessionInv, Types
<1>3. ASSUME Next, NEW s \in Sessions
      PROVE  listing'[s] <= sess'[s].epoch
  <2>1. CASE Checkout(s)
    <3>1. listing'[s] = listing[s]
      BY <1>3, <2>1, ListingMoves
    <3>2. sess[s].epoch \in Nat /\ sess'[s].epoch = sess[s].epoch + 1
      BY <2>1, CheckoutCounts
    <3> QED BY <3>1, <3>2 DEF ListingsOk
  <2>2. CASE ~Checkout(s)
    BY <1>2, <1>3, <2>2, LendersAre, ListingMoves DEF ListingsOk
  <2> QED BY <2>1, <2>2
<1>4. CASE Next
  <2>1. \A s \in Sessions : listing'[s] <= sess'[s].epoch
    BY <1>3, <1>4
  <2>2. listing' \in [Sessions -> Nat]
    <3>1. PICK s \in Sessions : TRUE
      BY <1>4 DEF Next, Command, Open, Data, ReadCompletion, SessionInv, CallOk
    <3> QED BY <1>4, <3>1, ListingMoves
  <2> QED BY <2>1, <2>2 DEF ListingsOk
<1>5. CASE UNCHANGED vars
  BY <1>5 DEF vars, ListingsOk
<1> QED BY <1>4, <1>5

(* An iterator of listdir() that goes on after its block reads the handle   *)
(* it began on, which nobody was lent in between, its own session included, *)
(* or it reads nothing (ReadsOwnCheckout).                                  *)
THEOREM ListingsReadTheirOwn == Spec => ReadsOwnCheckout
<1> DEFINE Own(s) ==
      /\ SftpListingNext(s) \/ FtpListingNext(s) => Held(s) # NoHandle /\ sess[s].epoch = listing[s]
      /\ listing[s] # 0 /\ sess'[s].epoch = listing[s] => sess'[s].handler \in {Held(s), NoHandle}
<1>1. Init => ListingsOk
  BY DEF Init, ListingsOk
<1>2. SessionInv /\ ListingsOk /\ [Next]_vars => ListingsOk'
  BY ListingsHold
<1>3. SessionInv /\ ListingsOk /\ [Next]_vars => [\A s \in Sessions : Own(s)]_vars
  <2> SUFFICES ASSUME SessionInv, ListingsOk, Next, NEW s \in Sessions
               PROVE  Own(s)
    OBVIOUS
  <2>1. SftpListingNext(s) \/ FtpListingNext(s) => Held(s) # NoHandle /\ sess[s].epoch = listing[s]
    BY DEF SftpListingNext, FtpListingNext, Outlived
  <2>2. CASE Checkout(s)
    <3>1. sess[s].epoch \in Nat /\ sess'[s].epoch = sess[s].epoch + 1
      BY <2>2, CheckoutCounts
    <3> QED BY <2>1, <3>1 DEF ListingsOk
  <2>3. CASE ~Checkout(s)
    BY <2>1, <2>3, LendersAre
  <2> QED BY <2>2, <2>3
<1>4. Spec => []ListingsOk
  BY <1>1, <1>2, SessionsAreSound, PTL DEF Spec
<1> QED
  BY <1>3, <1>4, SessionsAreSound, PTL DEF Spec, ReadsOwnCheckout
=============================================================================
