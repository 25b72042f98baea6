------------------------------ MODULE Session ------------------------------
(***************************************************************************)
(* The sessions of ftp/session.py: AdaptedFTP and AdaptedSFTP borrow a     *)
(* handle from a pool at the outermost `with`, run commands, transfers and *)
(* listings on it, and give it back, healthy or fatal, at the outermost    *)
(* exit.  The pool asks an idle handle for one round trip before it lends  *)
(* it, which shows a dead connection but not one that is a reply behind.   *)
(*                                                                         *)
(* The control connection is modelled by what a client can tell of it.  A  *)
(* handle is "up"; "bad" once the client was told that it is lost (421, a  *)
(* malformed reply, a timeout, an end of file); "skewed" once a command    *)
(* read the reply of an older one.                                         *)
(***************************************************************************)
EXTENDS Naturals, Sequences, FiniteSets, FiniteSetsExt, Functions

CONSTANTS FtpSessions, SftpSessions,   \* sessions of each adapter
          FtpHandles, SftpHandles,     \* connections and channels of the two pools
          NoHandle, NoSession,
          MaxDepth,                    \* bound on nested `with` blocks
          MaxCheckouts                 \* bound on the checkouts of all sessions

Sessions == FtpSessions \cup SftpSessions
Handles == FtpHandles \cup SftpHandles

ASSUME SessionAssumption ==
  /\ FtpSessions \cap SftpSessions = {} /\ FtpHandles \cap SftpHandles = {}
  /\ NoHandle \notin Handles /\ NoSession \notin Sessions
  /\ MaxDepth \in Nat \ {0} /\ MaxCheckouts \in Nat

VARIABLES
  sess,     \* per session: entries, handler, checkout epoch, fatal flag
  raised,   \* the exception leaving the caller's block: "none", "plain" or "fatal"
  call,     \* the method being executed: on which session, at which step
  listing,  \* the iterator of listdir(): the checkout it started under, 0 if none
  pooled,   \* open handles that wait in their pool
  wire,     \* the control connection of a handle
  owing,    \* the server owes the completion reply of a transfer
  unseen    \* how a failure of this handle passed __exit__ by: not at all ("no"),
            \* "kept" from it by the code, "untranslated" by a transfer, or its
            \* exception "replaced" by a later one

vars == <<sess, raised, call, listing, pooled, wire, owing, unseen>>

\* One caller drives the sessions: calls of two threads use different
\* sessions and handles, and meet in the pools only.
Quiet == [by |-> NoSession, op |-> "none", at |-> 0, peer |-> NoSession, err |-> "none"]
Idle == call = Quiet

Held(s) == sess[s].handler
HandlesOf(s) == IF s \in FtpSessions THEN FtpHandles ELSE SftpHandles
Lent == {Held(s) : s \in Sessions} \ {NoHandle}

-----------------------------------------------------------------------------
(* What a reply becomes.  Fatal exceptions are those __exit__ recognises.  *)

\* Refusals by their class: 425 and 450; 530, 532, 534 and 553; 550; any other.
Refusals == {"busy", "denied", "missing", "other"}

ConnectionFatal == {"TimeoutError", "ConnectionError", "ConnectionAbortedError",
                    "EOFError", "SSHException"}

\* A command with no _translate context lets ftplib's own error classes out.
Raw(reply) == CASE reply = "timeout" -> "TimeoutError"
                [] reply = "eof" -> "EOFError"
                [] reply = "SSHException" -> "SSHException"
                [] reply = "SFTPError" -> "SFTPError"
                [] reply \in {"refused", "unreadable", "nodata", "handshake"} -> "OSError"
                [] OTHER -> "ftplib.Error"

\* _translate_ftp_errors and _translate_sftp_errors.
Translated(reply) == CASE reply \in {"421", "426"} -> "ConnectionAbortedError"
                       [] reply = "malformed" -> "ConnectionError"
                       [] reply = "busy" -> "BlockingIOError"
                       [] reply = "denied" -> "PermissionError"
                       [] reply = "missing" -> "FileNotFoundError"
                       [] reply = "other" -> "OSError"
                       [] reply \in {"SFTPError", "SSHException"} -> "ConnectionError"
                       [] OTHER -> Raw(reply)

Severity(exception) == IF exception \in ConnectionFatal THEN "fatal" ELSE "plain"

\* What reading one reply of h may bring.
Replies(h) ==
  IF h \in SftpHandles
  THEN IF wire[h] = "up" THEN {"ok", "refused", "SFTPError", "SSHException", "eof"}
       ELSE {"SSHException", "eof"}
  ELSE CASE wire[h] = "up" -> {"ok", "421", "malformed", "timeout", "eof"} \cup Refusals
         [] wire[h] = "skewed" -> {"ok", "malformed"} \cup Refusals
         [] wire[h] = "bad" -> {"eof", "unreadable"}

\* The connection after such a reply; a command sent while an older reply is
\* unread takes that one for its own.
WireAfter(h, reply) ==
  IF reply \in {"421", "malformed", "timeout", "eof", "unreadable", "SFTPError", "SSHException"}
  THEN "bad" ELSE IF owing[h] THEN "skewed" ELSE wire[h]

-----------------------------------------------------------------------------
(* The methods, as the steps they take on their own session and on the     *)
(* other one of a transfer.  "type" is voidcmd("TYPE I"), outside every    *)
(* translating context, as "noop" is; "peek" is a size lookup whose error  *)
(* is caught; "open" is transfercmd(); "drain" is drain_completion_reply() *)
(* in a finally; "reply" is listdir()'s voidresp().                        *)

Self(step) == <<"self", step>>
Other(step) == <<"other", step>>

NoOp == <<Self("noop")>>
OneCommand == <<Self("command")>>
GetSize == <<Self("type"), Self("command")>>
UploadFile == <<Self("type"), Self("open"), Self("data"), Self("drain")>>
DownloadFile == <<Self("type"), Self("command"), Self("open"), Self("data"), Self("drain")>>
ListDir == <<Self("open"), Self("data"), Self("reply")>>
FtpToSftp == <<Self("type"), Self("peek"), Self("open"), Self("data"), Self("drain")>>
FtpToFtp ==
  <<Self("type"), Self("peek"), Self("open"), Other("type"), Other("open"),
    Self("data"), Other("drain"), Self("drain"), Other("peek")>>
SftpToFtp ==
  <<Self("peek"), Other("type"), Other("open"), Self("data"), Other("drain"), Other("peek")>>
SftpToSftp == <<Self("peek"), Self("data")>>

\* upload_file() and download_file() of AdaptedSFTP run inside one translating
\* context, so whatever fails in them, fails as one command does.
SftpStream == OneCommand

Program ==
  [noop |-> NoOp, command |-> OneCommand, get_size |-> GetSize,
   upload_file |-> UploadFile, download_file |-> DownloadFile, listdir |-> ListDir,
   ftp_to_sftp |-> FtpToSftp, ftp_to_ftp |-> FtpToFtp,
   sftp_to_ftp |-> SftpToFtp, sftp_to_sftp |-> SftpToSftp, sftp_stream |-> SftpStream]

\* What a session may be asked to do, with the other session of a transfer.
FtpMethods ==
  ({"command", "noop", "get_size", "upload_file", "download_file", "listdir"} \X {NoSession})
    \cup ({"ftp_to_ftp"} \X FtpSessions) \cup ({"ftp_to_sftp"} \X SftpSessions)
SftpMethods ==
  ({"command", "noop", "sftp_stream"} \X {NoSession})
    \cup ({"sftp_to_ftp"} \X FtpSessions) \cup ({"sftp_to_sftp"} \X SftpSessions)
Methods(s) == {m \in IF s \in FtpSessions THEN FtpMethods ELSE SftpMethods : m[2] # s}

Step == Program[call.op][call.at][2]
Side == IF Program[call.op][call.at][1] = "self" THEN call.by ELSE call.peer
Participants == {call.by, call.peer} \ {NoSession}

\* The steps still to run once step i ended with err: all of them after a
\* success; after an exception the finally blocks, that is the drains of
\* the connections opened before.
Opened_OrTried(p, side, i) == \E j \in 1..i : p[j] = <<side, "open">>
Opened(p, side, i) == \E j \in 1..(i - 1) : p[j] = <<side, "open">>
StepsLeft(op, i, err) ==
  LET p == Program[op]
  IN IF err = "none" THEN (i + 1)..Len(p)
     ELSE {j \in (i + 1)..Len(p) : p[j][2] = "drain" /\ Opened(p, p[j][1], i)}

\* The call goes on, or ends and lets its exception out of the caller's block.
Continue(err) ==
  LET left == StepsLeft(call.op, call.at, err)
  IN IF left # {}
     THEN /\ call' = [call EXCEPT !.at = Min(left), !.err = err]
          /\ UNCHANGED <<raised, listing>>
     ELSE /\ call' = Quiet
          /\ raised' = [t \in Sessions |-> IF t \in Participants THEN err ELSE raised[t]]
          /\ listing' = IF call.op = "listdir" /\ err = "none"
                        THEN [listing EXCEPT ![call.by] = sess[call.by].epoch] ELSE listing

-----------------------------------------------------------------------------

Init ==
  /\ sess = [s \in Sessions |-> [entries |-> 0, handler |-> NoHandle, epoch |-> 0, fatal |-> FALSE]]
  /\ raised = [s \in Sessions |-> "none"]
  /\ call = Quiet
  /\ listing = [s \in Sessions |-> 0]
  /\ pooled = {}
  /\ wire = [h \in Handles |-> "up"]
  /\ owing = [h \in Handles |-> FALSE]
  /\ unseen = [h \in Handles |-> "no"]

\* The outermost `with`: the provider lends an idle handle that answered its
\* round trip, or dials a new one in place of a handle that did not.  Behind an
\* unread reply the round trip takes that one for its answer.
Answers(h) == h \in pooled /\ wire[h] \in {"up", "skewed"}
Lends(h) ==
  IF owing[h] THEN [wire EXCEPT ![h] = "skewed"] ELSE wire

Checkout(s) ==
  /\ sess[s].entries = 0 /\ Idle
  /\ FoldFunction(+, 0, [t \in Sessions |-> sess[t].epoch]) < MaxCheckouts
  /\ \E h \in HandlesOf(s) \ Lent :
       /\ sess' = [sess EXCEPT ![s] = [entries |-> 1, handler |-> h,
                                       epoch |-> @.epoch + 1, fatal |-> @.fatal]]
       /\ pooled' = pooled \ {h}
       /\ owing' = [owing EXCEPT ![h] = FALSE]
       /\ \/ Answers(h) /\ wire' = Lends(h) /\ UNCHANGED unseen
          \/ wire' = [wire EXCEPT ![h] = "up"] /\ unseen' = [unseen EXCEPT ![h] = "no"]
  /\ UNCHANGED <<raised, call, listing>>

\* A nested `with` on the same session.
Reenter(s) ==
  /\ sess[s].entries \in 1..(MaxDepth - 1) /\ Idle /\ raised[s] = "none"
  /\ sess' = [sess EXCEPT ![s].entries = @ + 1]
  /\ UNCHANGED <<raised, call, listing, pooled, wire, owing, unseen>>

\* The fatal flag an exit leaves: that of this exit or of any before it.
FatalAfter_LastExit(s) == raised[s] = "fatal"
FatalAfter(s) == sess[s].fatal \/ raised[s] = "fatal"

\* An inner exit: the outer block still owns the handle.
ExitInner(s) ==
  /\ sess[s].entries > 1 /\ Idle
  /\ sess' = [sess EXCEPT ![s].entries = @ - 1, ![s].fatal = FatalAfter(s)]
  /\ UNCHANGED <<raised, call, listing, pooled, wire, owing, unseen>>

\* What a session forgets with its handle.
GivenBack(s) == [sess[s] EXCEPT !.entries = 0, !.handler = NoHandle, !.fatal = FALSE]

\* The outermost exit: the pool keeps a healthy handle and closes a fatal
\* one, whose name then stands for the next connection dialled.
ExitOuter(s) ==
  LET h == Held(s)
      discard == FatalAfter(s)
  IN /\ sess[s].entries = 1 /\ Idle
     /\ sess' = [sess EXCEPT ![s] = GivenBack(s)]
     /\ raised' = [raised EXCEPT ![s] = "none"]
     /\ pooled' = IF discard THEN pooled ELSE pooled \cup {h}
     /\ wire' = IF discard THEN [wire EXCEPT ![h] = "up"] ELSE wire
     /\ owing' = IF discard THEN [owing EXCEPT ![h] = FALSE] ELSE owing
     /\ unseen' = IF discard THEN [unseen EXCEPT ![h] = "no"] ELSE unseen
     /\ UNCHANGED <<call, listing>>

\* The caller catches an exception inside its block.  A connection-fatal one
\* is caught only after an inner exit saw it.
Catch(s) ==
  /\ Idle
  /\ raised[s] = "plain" \/ (raised[s] = "fatal" /\ sess[s].fatal)
  /\ raised' = [raised EXCEPT ![s] = "none"]
  /\ UNCHANGED <<sess, call, listing, pooled, wire, owing, unseen>>

\* The caller calls a method; both sessions of a transfer are inside their blocks.
Begin(s) ==
  Idle /\ \E m \in Methods(s) :
    /\ \A t \in {s, m[2]} \ {NoSession} :
         sess[t].entries > 0 /\ raised[t] = "none"
    /\ m[1] = "listdir" => listing[s] = 0
    /\ call' = [by |-> s, op |-> m[1], at |-> 1, peer |-> m[2], err |-> "none"]
    /\ UNCHANGED <<sess, raised, listing, pooled, wire, owing, unseen>>

\* The methods that promise a ConnectionError when the connection is lost.
Transfers == {"upload_file", "download_file", "ftp_to_sftp", "ftp_to_ftp",
              "sftp_to_ftp", "sftp_to_sftp"}

\* The code keeps a failure of h to itself, or raises it as an exception that
\* __exit__ does not recognise.
Keeps(h) == [unseen EXCEPT ![h] = "kept"]
Misnames(h) == [unseen EXCEPT ![h] = IF call.op \in Transfers THEN "untranslated" ELSE "kept"]

\* A command and its reply: "command" translates its errors, "type" and
\* "noop" do not, "peek" catches them (all_errors for FTP; for SFTP OSError
\* and SFTPError, which leaves SSHException and EOFError to propagate).
Caught(step, h, reply) ==
  step = "peek" /\ (h \in SftpHandles => reply \notin {"SSHException", "eof"})
ErrorOf(step, h, reply) ==
  IF reply = "ok" \/ Caught(step, h, reply) THEN "none"
  ELSE Severity(IF step = "command" THEN Translated(reply) ELSE Raw(reply))

Command ==
  /\ ~Idle /\ Step \in {"command", "type", "noop", "peek"}
  /\ LET h == Held(Side)
     IN \E reply \in Replies(h) :
          /\ wire' = [wire EXCEPT ![h] = WireAfter(h, reply)]
          /\ owing' = IF reply \in {"timeout", "eof"} THEN owing ELSE [owing EXCEPT ![h] = FALSE]
          /\ unseen' = IF /\ Step # "command" /\ WireAfter(h, reply) = "bad"
                          /\ ErrorOf(Step, h, reply) # "fatal"
                       THEN IF Step = "peek" THEN Keeps(h) ELSE Misnames(h)
                       ELSE unseen
          /\ Continue(ErrorOf(Step, h, reply))
  /\ UNCHANGED <<sess, pooled>>

\* transfercmd(): PASV, the data connection, the command and its 1xx reply.
\* "nodata" is a data connection that cannot be opened; "handshake" is a TLS
\* wrap of it that fails after the 1xx, with the completion reply to come.
Open ==
  /\ ~Idle /\ Step = "open"
  /\ LET h == Held(Side)
     IN \E reply \in Replies(h) \cup {"nodata", "handshake"} :
          /\ reply \in {"nodata", "handshake"} => wire[h] \in {"up", "skewed"}
          /\ wire' = [wire EXCEPT ![h] = WireAfter(h, reply)]
          /\ owing' = IF reply \in {"ok", "handshake"} THEN [owing EXCEPT ![h] = TRUE] ELSE owing
          /\ unseen' = IF reply = "handshake" THEN Keeps(h) ELSE unseen
          /\ Continue(IF reply = "ok" THEN "none" ELSE Severity(Translated(reply)))
  /\ UNCHANGED <<sess, pooled>>

\* The loop over the data connection or the remote file, up to its end, to an
\* exception of a callback, or to a failure of a connection.  In a transfer the
\* SFTP side is used outside every translating context; a listing whose loop
\* fails leaves the completion reply unread.
Data ==
  /\ ~Idle /\ Step = "data"
  /\ \/ \E err \in {"none", "plain", "fatal"} :
          /\ Continue(err)
          /\ unseen' = IF call.op = "listdir" /\ err = "plain"
                       THEN Keeps(Held(call.by)) ELSE unseen
          /\ UNCHANGED wire
     \/ \E t \in Participants \cap SftpSessions, reply \in {"SFTPError", "SSHException"} :
          /\ wire' = [wire EXCEPT ![Held(t)] = "bad"]
          /\ unseen' = IF reply = "SFTPError" THEN Misnames(Held(t)) ELSE unseen
          /\ Continue(Severity(Raw(reply)))
  /\ UNCHANGED <<sess, pooled, owing>>

Partners(t) == {Held(u) : u \in Participants \ {t}}

\* voidresp() after the data connection closed.  drain_completion_reply marks
\* its session fatal on any failure, and its exception replaces the pending
\* one; listdir() only raises.
ReadCompletion ==
  /\ ~Idle /\ Step \in {"drain", "reply"}
  /\ LET t == Side
         h == Held(t)
     IN \E reply \in Replies(h) \cup {"426"} :
          /\ owing[h] \/ wire[h] # "up"
          /\ reply = "426" => wire[h] = "up"
          /\ wire' = [wire EXCEPT ![h] = IF WireAfter(h, reply) = "bad" THEN "bad" ELSE @]
          /\ owing' = IF reply \in {"timeout", "eof"} THEN owing ELSE [owing EXCEPT ![h] = FALSE]
          /\ sess' = IF reply # "ok" /\ Step = "drain"
                     THEN [sess EXCEPT ![t].fatal = TRUE] ELSE sess
          /\ unseen' = IF call.err = "fatal" /\ Severity(Translated(reply)) = "plain" /\ reply # "ok"
                       THEN [g \in Handles |-> IF g \in Partners(t) /\ wire[g] = "bad"
                                              THEN "replaced" ELSE unseen[g]]
                       ELSE unseen
          /\ Continue(IF reply = "ok" THEN call.err ELSE Severity(Translated(reply)))
  /\ UNCHANGED pooled

\* An SFTP listing starts without touching the channel.
StartSftpListing(s) ==
  /\ s \in SftpSessions
  /\ sess[s].entries > 0 /\ Idle /\ raised[s] = "none" /\ listing[s] = 0
  /\ listing' = [listing EXCEPT ![s] = sess[s].epoch]
  /\ UNCHANGED <<sess, raised, call, pooled, wire, owing, unseen>>

\* The check of each next(): is this still the checkout the listing began under?
Outlived_ByHandle(s) == Held(s) = NoHandle
Outlived(s) == Held(s) = NoHandle \/ sess[s].epoch # listing[s]

\* next() on an iterator whose session gave its handle back.
ListingRefused(s) ==
  /\ listing[s] # 0 /\ Idle /\ Outlived(s)
  /\ listing' = [listing EXCEPT ![s] = 0]
  /\ UNCHANGED <<sess, raised, call, pooled, wire, owing, unseen>>

\* next() on an FTP listing yields from the buffer, up to the last entry.
FtpListingNext(s) ==
  /\ s \in FtpSessions
  /\ listing[s] # 0 /\ Idle /\ ~Outlived(s)
  /\ listing' = [listing EXCEPT ![s] = 0]
  /\ UNCHANGED <<sess, raised, call, pooled, wire, owing, unseen>>

\* next() on an SFTP listing reads the channel, with no translating context.
SftpListingNext(s) ==
  /\ s \in SftpSessions
  /\ listing[s] # 0 /\ Idle /\ ~Outlived(s)
  /\ \/ /\ wire[Held(s)] = "up"
        /\ UNCHANGED <<raised, wire, unseen>>
        /\ listing' \in {listing, [listing EXCEPT ![s] = 0]}
     \/ \E reply \in Replies(Held(s)) \ {"ok"} :
          /\ wire' = [wire EXCEPT ![Held(s)] = WireAfter(Held(s), reply)]
          /\ unseen' = IF reply = "SFTPError" THEN Keeps(Held(s)) ELSE unseen
          /\ raised' = [raised EXCEPT ![s] = Severity(Raw(reply))]
          /\ listing' = [listing EXCEPT ![s] = 0]
  /\ UNCHANGED <<sess, call, pooled, owing>>

SessionStep(s) ==
  \/ Checkout(s) \/ Reenter(s) \/ ExitInner(s) \/ ExitOuter(s) \/ Catch(s) \/ Begin(s)
  \/ StartSftpListing(s) \/ ListingRefused(s) \/ FtpListingNext(s) \/ SftpListingNext(s)

Next == Command \/ Open \/ Data \/ ReadCompletion \/ \E s \in Sessions : SessionStep(s)

Spec == Init /\ [][Next]_vars

-----------------------------------------------------------------------------

\* The values of every variable; a session has a handle exactly while it has
\* entries, and what it remembers of fatal errors ends with its checkout.
TypeOK ==
  /\ sess \in [Sessions -> [entries : 0..MaxDepth, handler : Handles \cup {NoHandle},
                            epoch : 0..MaxCheckouts, fatal : BOOLEAN]]
  /\ \A s \in Sessions :
       /\ (Held(s) = NoHandle) <=> (sess[s].entries = 0)
       /\ Held(s) # NoHandle => Held(s) \in HandlesOf(s)
       /\ sess[s].entries = 0 => (~sess[s].fatal /\ raised[s] = "none")
  /\ raised \in [Sessions -> {"none", "plain", "fatal"}]
  /\ call \in [by : Sessions \cup {NoSession}, op : DOMAIN Program \cup {"none"}, at : 0..9,
               peer : Sessions \cup {NoSession}, err : {"none", "plain", "fatal"}]
  /\ listing \in [Sessions -> 0..MaxCheckouts]
  /\ pooled \subseteq Handles \ Lent
  /\ wire \in [Handles -> {"up", "bad", "skewed"}]
  /\ owing \in [Handles -> BOOLEAN] /\ unseen \in [Handles -> {"no", "kept", "untranslated", "replaced"}]

\* A handle that __exit__ gave back as healthy is usable: its session was
\* never told that the connection is lost, no completion reply is unread on
\* it and no command took the reply of another, however the blocks nested and
\* wherever a transfer failed.  Excused are what the code keeps to itself: a
\* size lookup whose error it catches, the reply of a listing or a data
\* connection that broke after the 1xx, and the lost connection of a noop(), a
\* get_size() or an SFTP listing, which promise no ConnectionError.  Excused by
\* name too are the two ways to lose a handle that LostIsDiscarded records.
KnownLosses == {"untranslated", "replaced"}
HealthyIsSound ==
  \A h \in pooled : unseen[h] \in {"kept"} \cup KnownLosses \/ (wire[h] = "up" /\ ~owing[h])

\* voidresp() is only called when an answer is to come: a drain runs for a
\* data connection that was opened and no other, or it would wait for a reply
\* that is never sent.
ReplyWillCome ==
  (~Idle /\ Step \in {"drain", "reply"}) =>
    LET h == Held(Side) IN owing[h] \/ wire[h] # "up" \/ unseen[h] # "no"

\* A listing kept past its block never touches a handle that was lent again,
\* be it to the same session: each next() that reads or yields runs under the
\* checkout the listing began with, and no step puts another handle, or the
\* same one lent anew, under the epoch of a listing.
ReadsOwnCheckout ==
  [][\A s \in Sessions :
       /\ SftpListingNext(s) \/ FtpListingNext(s) =>
            Held(s) # NoHandle /\ sess[s].epoch = listing[s]
       /\ listing[s] # 0 /\ sess'[s].epoch = listing[s] =>
            sess'[s].handler \in {Held(s), NoHandle}]_vars

\* "ConnectionError: The connection was lost or the transfer aborted (FTP
\* 421/426); the session is discarded from the pool."  No lost connection goes
\* back into the pool because a transfer raised the loss under another name, or
\* because the failure of a drain took its place.
LostIsDiscarded == \A h \in pooled : wire[h] = "bad" => unseen[h] \notin KnownLosses
=============================================================================
