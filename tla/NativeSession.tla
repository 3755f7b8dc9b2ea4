---------------------------- MODULE NativeSession ----------------------------
(***************************************************************************)
(* The sessions of one native backend process: accept_client serves one    *)
(* connection after another; each session has a receiver thread, which     *)
(* main joins, and a streamer thread (screencap_binder), which nobody      *)
(* joins or stops when the session ends.  All streamers share the flag     *)
(* `running` and the record screen_info, and write to a descriptor number, *)
(* which the next connection may get.                                      *)
(*                                                                         *)
(* At most one connection is open at a time.  The identity of a streamer   *)
(* is reused once its thread has ended; their number bounds how many are   *)
(* alive at once.  Touch, key and button messages go to the injectors and  *)
(* change nothing here; IMGDIFF changes which frames are skipped.          *)
(***************************************************************************)
EXTENDS Naturals

CONSTANTS
    Streamers,      \* identities of streamer threads
    NoStreamer,
    Fds,            \* descriptor numbers accept may return
    NoFd,           \* -1
    DeviceWidth, DeviceHeight,
    Resolutions,    \* <<width, height>> pairs a browser may ask for
    Frequencies,    \* sending frequencies a browser may ask for
    InitFrequency,  \* 500
    FrameParts,     \* writes that make up a frame (4 in the code)
    Garbage         \* the value of a local variable nobody has set

ASSUME StreamersAssumption == NoStreamer \notin Streamers
ASSUME FdsAssumption == NoFd \notin Fds
ASSUME DeviceAssumption == DeviceWidth \in Nat \ {0} /\ DeviceHeight \in Nat \ {0}
ASSUME ResolutionsAssumption == Resolutions \subseteq Nat \X Nat
ASSUME FramePartsAssumption == FrameParts \in Nat \ {0}
ASSUME GarbageAssumption ==
    Garbage \notin (Nat \X Nat) \cup Frequencies \cup {InitFrequency}

VARIABLES
    pc,             \* where the main thread is, or its receiver while it joins
    clientfd,       \* accept_client's local variable, which threads point to
    open,           \* clientfd is the descriptor of an open connection
    gone,           \* the peer of that connection has closed
    halt, listening,
    running,        \* screencap.cc's flag of all streamers
    info,           \* screen_info
    stream,         \* the streamer threads
    cur,            \* history: the streamer of the session
    rx,             \* history: what the peer expects to read next
    torn,           \* history: some peer of a clean run read something else
    blank,          \* history: a screenshot of this session had no pixels
    clean           \* history: no streamer was alive at any accept

mainVars == <<pc, clientfd, open, halt, listening>>
streamVars == <<running, info, stream>>
history == <<cur, rx, torn, blank, clean>>
vars == <<mainVars, gone, streamVars, history>>

MainPC == {"accept", "update", "key", "auth", "start", "receiver", "close",
           "loop", "break", "teardown", "leave", "exit"}
StreamPC == {"none", "created", "begin", "test", "lock", "shot", "send"}

-----------------------------------------------------------------------------
(* The peer reads its key first and then frames of FrameParts parts, each  *)
(* of one streamer; part 1 is the boundary between two frames.             *)
AwaitKey == [by |-> NoStreamer, part |-> 0]
Boundary == [by |-> NoStreamer, part |-> 1]

BeforePart(t, k) == IF k = 1 THEN Boundary ELSE [by |-> t, part |-> k]

AfterPart(t, k) == IF k = FrameParts THEN Boundary ELSE [by |-> t, part |-> k + 1]

(* Bytes reach the peer, unless it has gone; they are followed as long as  *)
(* the run is clean.                                                       *)
Deliver(before, after) ==
    IF gone \/ ~clean THEN UNCHANGED <<rx, torn>>
    ELSE /\ rx' = after
         /\ torn' = (torn \/ rx # before)

Idle == [pc |-> "none", socket |-> NoFd, res |-> Garbage, freq |-> Garbage,
         part |-> 1]

Alive(t) == stream[t].pc # "none"

(* main() up to accept_client: screencap_init and init_socket succeeded.   *)
Init ==
    /\ pc = "accept" /\ clientfd = NoFd
    /\ open = FALSE /\ gone = FALSE
    /\ halt = FALSE /\ listening = TRUE
    /\ running = FALSE
    /\ info = [res |-> <<DeviceWidth, DeviceHeight>>, freq |-> InitFrequency,
               newRes |-> TRUE, newFreq |-> TRUE]
    /\ stream = [t \in Streamers |-> Idle]
    /\ cur = NoStreamer
    /\ rx = AwaitKey /\ torn = FALSE /\ blank = FALSE
    /\ clean = TRUE

-----------------------------------------------------------------------------
Goto(from, to) == pc = from /\ pc' = to

(* accept returns a connection on some descriptor number ...               *)
Accept ==
    /\ Goto("accept", "update") /\ listening
    /\ \E t \in Streamers : ~Alive(t)    \* the bound
    /\ clientfd' \in Fds
    /\ open' = TRUE /\ gone' = FALSE
    /\ cur' = NoStreamer /\ rx' = AwaitKey
    /\ clean' = (clean /\ \A t \in Streamers : ~Alive(t))
    /\ UNCHANGED <<halt, listening, streamVars, torn, blank>>

(* ... or fails, as it does once the listening socket is closed.           *)
AcceptError ==
    /\ Goto("accept", "break")
    /\ clientfd' = NoFd
    /\ UNCHANGED <<open, gone, halt, listening, streamVars, history>>

(* check_and_update: a new binary ends the loop.                           *)
CheckAndUpdate ==
    /\ Goto("update", "key") \/ Goto("update", "break")
    /\ UNCHANGED <<clientfd, open, gone, halt, listening, streamVars, history>>

(* Faulty variant of SendAuthKey: the key is not sent.                     *)
SendAuthKey_Omitted ==
    /\ Goto("key", "auth")
    /\ UNCHANGED <<clientfd, open, gone, halt, listening, streamVars, history>>

(* send_auth_key.                                                          *)
SendAuthKey ==
    /\ Goto("key", "auth")
    /\ Deliver(AwaitKey, Boundary)
    /\ UNCHANGED <<clientfd, open, gone, halt, listening, streamVars, cur,
                   blank, clean>>

(* read_and_check_auth.                                                    *)
AuthOk ==
    /\ Goto("auth", "start")
    /\ UNCHANGED <<clientfd, open, gone, halt, listening, streamVars, history>>

AuthFailed ==
    /\ Goto("auth", "break")
    /\ halt' = TRUE
    /\ UNCHANGED <<clientfd, open, gone, listening, streamVars, history>>

(* Faulty variant of StartStreamer: the flags are left as they are.        *)
StartStreamer_NoFlags ==
    /\ Goto("start", "receiver")
    /\ \E t \in Streamers : /\ ~Alive(t)
                            /\ stream' = [stream EXCEPT ![t].pc = "created"]
                            /\ cur' = t
    /\ blank' = FALSE
    /\ UNCHANGED <<clientfd, open, gone, halt, listening, running, info, rx,
                   torn, clean>>

(* start_streamer, and the receiver thread main waits for.                 *)
StartStreamer ==
    /\ Goto("start", "receiver")
    /\ info' = [info EXCEPT !.newRes = TRUE, !.newFreq = TRUE]
    /\ \E t \in Streamers : /\ ~Alive(t)
                            /\ stream' = [stream EXCEPT ![t].pc = "created"]
                            /\ cur' = t
    /\ blank' = FALSE
    /\ UNCHANGED <<clientfd, open, gone, halt, listening, running, rx, torn, clean>>

-----------------------------------------------------------------------------
Landscape(w, h) == w > h

(* Faulty variant of StoredRes: the pair is not turned.                    *)
StoredRes_Unturned(w, h) ==
    IF Landscape(w, h) = Landscape(DeviceWidth, DeviceHeight) /\ w > DeviceWidth
    THEN info.res ELSE <<w, h>>

(* set_resolution: the pair is stored in the orientation of the device if  *)
(* its width, so turned, fits.                                             *)
StoredRes(w, h) ==
    LET r == IF Landscape(w, h) = Landscape(DeviceWidth, DeviceHeight)
             THEN <<w, h>> ELSE <<h, w>>
    IN IF r[1] <= DeviceWidth THEN r ELSE info.res

SetResolution ==
    /\ pc = "receiver"
    /\ \E r \in Resolutions :
        /\ r[1] > 0 /\ r[2] > 0
        /\ info' = [info EXCEPT !.res = StoredRes(r[1], r[2]), !.newRes = TRUE]
    /\ UNCHANGED <<mainVars, gone, running, stream, history>>

SetFrequency ==
    /\ pc = "receiver"
    /\ \E f \in Frequencies : info' = [info EXCEPT !.freq = f, !.newFreq = TRUE]
    /\ UNCHANGED <<mainVars, gone, running, stream, history>>

(* Any command ends the receiver and the process.                          *)
ReceiveCommand ==
    /\ Goto("receiver", "close")
    /\ halt' = TRUE
    /\ UNCHANGED <<clientfd, open, gone, listening, streamVars, history>>

(* Faulty variant of ReceiveEnd: the receiver reads on.                    *)
ReceiveEnd_Ignored ==
    /\ pc = "receiver" /\ gone
    /\ UNCHANGED vars

(* read_message fails: at the end of the stream, or at a message it cannot *)
(* parse on a connection that lives on.                                    *)
ReceiveEnd ==
    /\ Goto("receiver", "close")
    /\ UNCHANGED <<clientfd, open, gone, halt, listening, streamVars, history>>

(* close(clientfd) after the join.                                         *)
CloseClient ==
    /\ Goto("close", "loop")
    /\ open' = FALSE
    /\ cur' = NoStreamer /\ rx' = AwaitKey /\ blank' = FALSE
    /\ UNCHANGED <<clientfd, gone, halt, listening, streamVars, torn, clean>>

(* while (!halt).                                                          *)
LoopTest ==
    /\ Goto("loop", IF halt THEN "break" ELSE "accept")
    /\ UNCHANGED <<clientfd, open, gone, halt, listening, streamVars, history>>

(* close(clientfd) behind the loop, which a normal exit closed already.    *)
Break ==
    /\ Goto("break", "teardown")
    /\ open' = FALSE
    /\ UNCHANGED <<clientfd, gone, halt, listening, streamVars, history>>

(* teardown: the listening socket is closed and the streamers are told to  *)
(* stop ...                                                                *)
Teardown ==
    /\ Goto("teardown", "leave")
    /\ listening' = FALSE
    /\ running' = FALSE
    /\ UNCHANGED <<clientfd, open, gone, halt, info, stream, history>>

(* ... and the process ends with whatever threads it still has.            *)
Exit ==
    /\ Goto("leave", "exit")
    /\ UNCHANGED <<clientfd, open, gone, halt, listening, streamVars, history>>

(* sig_handler.                                                            *)
SigInt ==
    /\ pc # "exit" /\ ~halt
    /\ halt' = TRUE /\ listening' = FALSE
    /\ UNCHANGED <<pc, clientfd, open, gone, streamVars, history>>

(* The app closes its end of the connection.                               *)
PeerCloses ==
    /\ pc # "exit" /\ open /\ ~gone
    /\ gone' = TRUE
    /\ UNCHANGED <<mainVars, streamVars, history>>

-----------------------------------------------------------------------------
(* screencap_binder.  It copies the descriptor out of main's variable ...  *)
ReadSocket(t) ==
    /\ stream[t].pc = "created"
    /\ stream' = [stream EXCEPT ![t].socket = clientfd, ![t].pc = "begin"]
    /\ UNCHANGED <<running, info, history>>

(* Faulty variant of RaiseRunning: the flag is not raised again.           *)
RaiseRunning_Omitted(t) ==
    /\ stream[t].pc = "begin"
    /\ stream' = [stream EXCEPT ![t].pc = "test"]
    /\ UNCHANGED <<running, info, history>>

(* ... and raises the flag that is shared by all streamers.                *)
RaiseRunning(t) ==
    /\ stream[t].pc = "begin"
    /\ running' = TRUE
    /\ stream' = [stream EXCEPT ![t].pc = "test"]
    /\ UNCHANGED <<info, history>>

(* while(running).                                                         *)
WhileRunning(t) ==
    /\ stream[t].pc = "test"
    /\ stream' = IF running THEN [stream EXCEPT ![t].pc = "lock"]
                            ELSE [stream EXCEPT ![t] = Idle]
    /\ UNCHANGED <<running, info, history>>

(* The section under screen_info.lock: what changed is copied and its flag *)
(* is lowered.                                                             *)
TakeUpdates(t) ==
    /\ stream[t].pc = "lock"
    /\ stream' = [stream EXCEPT
           ![t].res = IF info.newRes THEN info.res ELSE @,
           ![t].freq = IF info.newFreq THEN info.freq ELSE @,
           ![t].pc = "shot"]
    /\ info' = [info EXCEPT !.newRes = FALSE, !.newFreq = FALSE]
    /\ UNCHANGED <<running, history>>

(* The screenshot fails, or it is not sent because it does not differ from *)
(* the last picture; whether the comparison (IMGDIFF) is on is left open.  *)
SkipFrame(t) ==
    /\ stream[t].pc = "shot"
    /\ stream' = [stream EXCEPT ![t].pc = "test"]
    /\ UNCHANGED <<running, info, history>>

SendFrame(t) ==
    /\ stream[t].pc = "shot"
    /\ stream' = [stream EXCEPT ![t].pc = "send"]
    /\ UNCHANGED <<running, info, history>>

(* The screenshot has no pixels.                                           *)
BaseIsEmpty(t) ==
    /\ stream[t].pc = "shot"
    /\ running' = FALSE
    /\ blank' = clean
    /\ stream' = [stream EXCEPT ![t].pc = "test"]
    /\ UNCHANGED <<info, cur, rx, torn, clean>>

OnConnection(t) == open /\ stream[t].socket = clientfd

(* Faulty variant of WritePart: the writes go on behind the last part.     *)
WritePart_Endless(t) ==
    LET k == stream[t].part IN
    /\ stream[t].pc = "send" /\ OnConnection(t)
    /\ stream' = [stream EXCEPT ![t].part = k + 1]
    /\ Deliver(BeforePart(t, k), AfterPart(t, k))
    /\ UNCHANGED <<running, info, cur, blank, clean>>

(* One of the write_n_bytes of a frame reaches the connection the          *)
(* descriptor number refers to now.                                        *)
WritePart(t) ==
    LET k == stream[t].part IN
    /\ stream[t].pc = "send" /\ OnConnection(t)
    /\ stream' = [stream EXCEPT ![t].pc = IF k = FrameParts THEN "test" ELSE "send",
                                ![t].part = IF k = FrameParts THEN 1 ELSE k + 1]
    /\ Deliver(BeforePart(t, k), AfterPart(t, k))
    /\ UNCHANGED <<running, info, cur, blank, clean>>

(* A write fails when the descriptor is closed or the peer has gone.       *)
WriteFails(t) ==
    /\ stream[t].pc = "send"
    /\ ~OnConnection(t) \/ gone
    /\ running' = FALSE
    /\ stream' = [stream EXCEPT ![t].pc = "test", ![t].part = 1]
    /\ UNCHANGED <<info, history>>

Streamer(t) ==
    /\ pc # "exit"
    /\ \/ ReadSocket(t) \/ RaiseRunning(t) \/ WhileRunning(t) \/ TakeUpdates(t)
       \/ SkipFrame(t) \/ SendFrame(t) \/ BaseIsEmpty(t)
       \/ WritePart(t) \/ WriteFails(t)
    /\ UNCHANGED <<mainVars, gone>>

Main == \/ Accept \/ AcceptError \/ CheckAndUpdate \/ SendAuthKey \/ AuthOk
        \/ AuthFailed \/ StartStreamer \/ CloseClient \/ LoopTest \/ Break
        \/ Teardown \/ Exit

Receiver == \/ SetResolution \/ SetFrequency \/ ReceiveCommand \/ ReceiveEnd

Next == Main \/ Receiver \/ SigInt \/ PeerCloses \/ \E t \in Streamers : Streamer(t)

Spec == Init /\ [][Next]_vars

(* The main thread and its receiver are scheduled, and a read from a       *)
(* connection whose peer has gone returns.                                 *)
FairSpec ==
    /\ Spec
    /\ WF_vars(CheckAndUpdate \/ SendAuthKey \/ StartStreamer \/ CloseClient
               \/ LoopTest \/ Break \/ Teardown \/ Exit)
    /\ WF_vars(gone /\ (AuthOk \/ AuthFailed))
    /\ WF_vars(gone /\ ReceiveEnd)

-----------------------------------------------------------------------------
TypeOK ==
    /\ pc \in MainPC
    /\ clientfd \in Fds \cup {NoFd}
    /\ open \in BOOLEAN /\ gone \in BOOLEAN
    /\ halt \in BOOLEAN /\ listening \in BOOLEAN /\ running \in BOOLEAN
    /\ info \in [res : Nat \X Nat, freq : Frequencies \cup {InitFrequency},
                 newRes : BOOLEAN, newFreq : BOOLEAN]
    /\ stream \in [Streamers ->
           [pc : StreamPC, socket : Fds \cup {NoFd},
            res : (Nat \X Nat) \cup {Garbage},
            freq : Frequencies \cup {InitFrequency, Garbage}, part : 1..FrameParts]]
    /\ cur \in Streamers \cup {NoStreamer}
    /\ rx \in [by : Streamers \cup {NoStreamer}, part : 0..FrameParts]
    /\ torn \in BOOLEAN /\ blank \in BOOLEAN /\ clean \in BOOLEAN

InFrame(t) == stream[t].pc \in {"shot", "send"}

(* As long as every client was accepted after the last streamer had ended, *)
(* the frames on each connection arrive whole: nothing comes between the   *)
(* parts of a frame or ahead of the key.                                   *)
CleanFraming == clean => ~torn

(* Under the same condition a streamer works with the settings asked for   *)
(* last, unless their flag is still raised, and never with a variable it   *)
(* has not set.                                                            *)
CleanSettings ==
    clean => \A t \in Streamers : Alive(t) =>
        /\ info.newRes \/ stream[t].res = info.res
        /\ info.newFreq \/ stream[t].freq = info.freq
        /\ InFrame(t) => stream[t].res # Garbage /\ stream[t].freq # Garbage

(* Under the same condition a connected client has a streamer, whatever    *)
(* the streamers before it did to the shared flag `running`.               *)
CleanStream ==
    clean /\ pc = "receiver" /\ ~gone /\ ~blank => Alive(cur)

(* What makes these promises inductive.  The connection is open from the   *)
(* accept to the close, and only a streamer in the middle of a frame has   *)
(* parts behind it.  In a clean run at most one streamer is alive, none    *)
(* before the session has started its own; that one writes to the          *)
(* connection of the session, where the peer expects its next part; and    *)
(* the flag `running` is up once it has raised it.                         *)
Unstarted == {"update", "key", "auth", "start"}
Joining == {"receiver", "close"}

SessionInv ==
    /\ pc \in Unstarted \cup Joining => open
    /\ open => pc \in Unstarted \cup Joining \cup {"break"}
    /\ \A t \in Streamers : stream[t].pc # "send" => stream[t].part = 1

StreamerInv(t) ==
    /\ pc \notin Unstarted
    /\ pc = "break" => ~open
    /\ pc \in Joining /\ ~gone =>
          /\ stream[t].pc = "created" \/ stream[t].socket = clientfd
          /\ rx = BeforePart(t, stream[t].part)

CleanInv ==
    clean =>
      /\ \A t, u \in Streamers : Alive(t) /\ Alive(u) => t = u
      /\ \A t \in Streamers : Alive(t) => StreamerInv(t)
      /\ pc \in {"update", "key"} => rx = AwaitKey
      /\ pc \in {"auth", "start"} /\ ~gone => rx = Boundary
      /\ pc = "receiver" /\ ~gone /\ ~blank =>
            /\ cur \in Streamers
            /\ running \/ stream[cur].pc \in {"created", "begin"}

(* No screenshot is asked for that is wider than the device, in the        *)
(* orientation of the device.                                              *)
FitsDevice ==
    /\ info.res[1] <= DeviceWidth
    /\ \A t \in Streamers :
         stream[t].res # Garbage => stream[t].res[1] <= DeviceWidth

(* After a HALT command, a failed authentication or SIGINT no further      *)
(* client is accepted.                                                     *)
NoAcceptAfterHalt == [][halt /\ pc = "accept" => pc' # "update"]_vars

(* When the client has gone the backend waits for the next one, or exits.  *)
ServesAgain == gone ~> (pc \in {"accept", "exit"})

(* "Must guaranteed the first time running" (screencap.cc:168): a streamer *)
(* has read the resolution and the frequency before it takes a screenshot. *)
FirstIterationReads ==
    \A t \in Streamers : InFrame(t) =>
        stream[t].res # Garbage /\ stream[t].freq # Garbage
=============================================================================
