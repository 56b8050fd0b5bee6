----------------------------- MODULE RenderServer ----------------------------
(***************************************************************************)
(* The render server (RenderServer.cpp), its render threads                 *)
(* (RenderThread.cpp) and the caller that stops it (stopOpenGLRenderer of   *)
(* render_api.cpp), all of host-opengl-render.                              *)
(*                                                                          *)
(* The server accepts one connection after the other, reads the client's    *)
(* flags, starts a render thread, deletes the threads that said they were   *)
(* finished, and on the exit flag waits for the rest and de-initialises the *)
(* frame buffer.  Decoding is abstracted to what the life cycle sees of it: *)
(* it uses the stream, the RenderThread object and the frame buffer, and it *)
(* may leave the thread with a current context.                             *)
(***************************************************************************)
EXTENDS OsThread, Sequences

CONSTANTS
  Server,                    \* the Thread object of the server itself
  ExitConn,                  \* the connection stopOpenGLRenderer opens
  NoConn,
  StartFails,                \* TRUE: pthread_create may fail
  AcceptFails,               \* TRUE: accept may fail
  UnbindFails                \* TRUE: eglMakeCurrent may fail to release a context

Conn == Obj \ {Server}
Stream == Conn \cup {ExitConn}

ASSUME ServerAssumption ==
  /\ Server \in Obj
  /\ ExitConn \notin Obj /\ NoConn \notin Obj \cup {ExitConn}
  /\ {StartFails, AcceptFails, UnbindFails} \subseteq BOOLEAN

VARIABLES
  backlog,                   \* connections not accepted yet, in order
  stream,                    \* [Stream -> {"none", "open", "closed"}]: the server's end
  sent,                      \* streams whose client has sent its flags
  hup,                       \* streams whose client has closed its end
  srv,                       \* where RenderServer::Main is
  cur,                       \* the connection Main works on
  rt,                        \* its RenderThread, NoConn for NULL
  threads,                   \* Main's set of render threads
  todo,                      \* the part of it an iterator has not visited
  step,                      \* [Conn -> where RenderThread::Main is]
  finished,                  \* threads with m_finished set
  bound,                     \* threads whose tInfo holds a context
  fb,                        \* FrameBuffer::s_theFrameBuffer is not NULL
  api                        \* where stopOpenGLRenderer is

serverVars == <<srv, cur, rt, threads, todo>>
clientVars == <<backlog, stream, sent, hup>>
renderVars == <<step, finished, bound>>
vars == <<threadVars, serverVars, clientVars, renderVars, fb, api>>

TypeOK ==
  /\ ThreadTypeOK
  /\ backlog \in Seq(Stream)
  /\ stream \in [Stream -> {"none", "open", "closed"}]
  /\ sent \in SUBSET Stream /\ hup \in SUBSET Stream
  /\ srv \in {"none", "accept", "flags", "start", "started", "reap", "wait", "join", "done"}
  /\ cur \in Stream \cup {NoConn} /\ rt \in Conn \cup {NoConn}
  /\ threads \in SUBSET Conn /\ todo \in SUBSET Conn
  /\ step \in [Conn -> {"decode", "unbind", "flag", "return"}]
  /\ finished \in SUBSET Conn /\ bound \in SUBSET Conn
  /\ fb \in BOOLEAN
  /\ api \in {"started", "wait", "join", "stopped"}

\* initOpenGLRenderer has returned TRUE: the frame buffer and the server's object exist
\* and the socket listens.  It does not look at the result of start(): without a thread
\* Main is never entered (srv = "none").
Init ==
  /\ object = [o \in Obj |-> IF o = Server THEN "live" ELSE "none"]
  /\ \E ok \in {TRUE, ~StartFails} :
       /\ isRunning = [o \in Obj |-> o = Server /\ ok]
       /\ pos = [o \in Obj |-> IF o = Server /\ ok THEN "main" ELSE "none"]
       /\ srv = IF ok THEN "accept" ELSE "none"
  /\ backlog = <<>>
  /\ stream = [c \in Stream |-> "none"]
  /\ sent = {} /\ hup = {}
  /\ cur = NoConn /\ rt = NoConn
  /\ threads = {} /\ todo = {}
  /\ step = [c \in Conn |-> "decode"]
  /\ finished = {} /\ bound = {}
  /\ fb = TRUE
  /\ api = "started"

----------------------------------------------------------------------------
(* Clients: connect while the listening socket exists, send, hang up.       *)

Connect(c) ==
  /\ stream[c] = "none"
  /\ c \notin {backlog[i] : i \in DOMAIN backlog}
  /\ object[Server] = "live"
  /\ backlog' = Append(backlog, c)
  /\ UNCHANGED <<threadVars, serverVars, renderVars, stream, sent, hup, fb, api>>

Connected(c) == stream[c] # "none" \/ c \in {backlog[i] : i \in DOMAIN backlog}

SendFlags(c) ==
  /\ Connected(c) /\ c \notin sent \cup hup
  /\ sent' = sent \cup {c}
  /\ UNCHANGED <<threadVars, serverVars, renderVars, backlog, stream, hup, fb, api>>

HangUp(c) ==
  /\ Connected(c) /\ c \notin hup
  /\ hup' = hup \cup {c}
  /\ UNCHANGED <<threadVars, serverVars, renderVars, backlog, stream, sent, fb, api>>

----------------------------------------------------------------------------
(* RenderServer::Main.                                                      *)

Accept ==
  /\ srv = "accept" /\ backlog # <<>>
  /\ cur' = Head(backlog)
  /\ backlog' = Tail(backlog)
  /\ stream' = [stream EXCEPT ![Head(backlog)] = "open"]
  /\ srv' = "flags"
  /\ UNCHANGED <<threadVars, renderVars, sent, hup, rt, threads, todo, fb, api>>

\* The loop is left: the iteration over all threads starts.
LeaveLoop == srv' = "wait" /\ todo' = threads

AcceptError ==
  /\ srv = "accept" /\ AcceptFails
  /\ LeaveLoop
  /\ UNCHANGED <<threadVars, clientVars, renderVars, cur, rt, threads, fb, api>>

\* Mutant: a client that closed before it sent its flags is read again.
FlagsMissingRetries ==
  /\ srv = "flags" /\ cur \in hup \ sent
  /\ UNCHANGED vars

\* readFully returned NULL: the stream is deleted.
FlagsMissing ==
  /\ srv = "flags" /\ cur \in hup \ sent
  /\ stream' = [stream EXCEPT ![cur] = "closed"]
  /\ srv' = "accept"
  /\ UNCHANGED <<threadVars, renderVars, backlog, sent, hup, cur, rt, threads, todo, fb, api>>

\* Mutant: the exit flag is noted but the loop goes on.
FlagsExitContinues ==
  /\ srv = "flags" /\ cur \in sent
  /\ srv' = "accept"
  /\ UNCHANGED <<threadVars, clientVars, renderVars, cur, rt, threads, todo, fb, api>>

\* IOSTREAM_CLIENT_EXIT_SERVER, which the stop sends and any client's flags may have;
\* the stream of this connection is never deleted.
FlagsExit ==
  /\ srv = "flags" /\ cur \in sent
  /\ LeaveLoop
  /\ UNCHANGED <<threadVars, clientVars, renderVars, cur, rt, threads, fb, api>>

\* RenderThread::create.
FlagsRender ==
  /\ srv = "flags" /\ cur \in sent /\ cur # ExitConn
  /\ New(cur)
  /\ rt' = cur
  /\ srv' = "start"
  /\ UNCHANGED <<isRunning, pos, clientVars, renderVars, cur, threads, todo, fb, api>>

\* rt->start() up to its unlock.
StartThread ==
  /\ srv = "start"
  /\ \E ok \in {TRUE, ~StartFails} : StartCreate(rt, ok)
  /\ srv' = "started"
  /\ UNCHANGED <<object, clientVars, renderVars, cur, rt, threads, todo, fb, api>>

\* ~RenderThread deletes the stream, and the object is gone.
DeleteRT(c) ==
  /\ Delete(c)
  /\ stream' = [stream EXCEPT ![c] = "closed"]

\* start() returns m_isRunning, read after the unlock; FALSE deletes rt.
StartReturns ==
  /\ srv = "started"
  /\ IF isRunning[rt]
       THEN UNCHANGED <<object, stream, rt>>
       ELSE DeleteRT(rt) /\ rt' = NoConn
  /\ srv' = "reap" /\ todo' = threads
  /\ UNCHANGED <<isRunning, pos, backlog, sent, hup, renderVars, cur, threads, fb, api>>

\* Mutant: every thread but the new one is taken for finished.
ReapUnchecked(c) ==
  /\ srv = "reap" /\ c \in todo
  /\ todo' = todo \ {c}
  /\ DeleteRT(c) /\ threads' = threads \ {c}
  /\ UNCHANGED <<isRunning, pos, backlog, sent, hup, renderVars, srv, cur, rt, fb, api>>

\* One iteration of the loop that removes finished threads.
Reap(c) ==
  /\ srv = "reap" /\ c \in todo
  /\ todo' = todo \ {c}
  /\ IF c \in finished
       THEN DeleteRT(c) /\ threads' = threads \ {c}
       ELSE UNCHANGED <<object, stream, threads>>
  /\ UNCHANGED <<isRunning, pos, backlog, sent, hup, renderVars, srv, cur, rt, fb, api>>

\* Mutant: the new thread is kept out of the set.
InsertForgets ==
  /\ srv = "reap" /\ todo = {}
  /\ UNCHANGED threads
  /\ srv' = "accept"
  /\ UNCHANGED <<threadVars, clientVars, renderVars, cur, rt, todo, fb, api>>

\* Mutant: rt is inserted without the test for NULL.
InsertNull ==
  /\ srv = "reap" /\ todo = {}
  /\ threads' = threads \cup {rt}
  /\ srv' = "accept"
  /\ UNCHANGED <<threadVars, clientVars, renderVars, cur, rt, todo, fb, api>>

Insert ==
  /\ srv = "reap" /\ todo = {}
  /\ threads' = threads \cup ({rt} \ {NoConn})
  /\ srv' = "accept"
  /\ UNCHANGED <<threadVars, clientVars, renderVars, cur, rt, todo, fb, api>>

\* wait() of one thread, and its deletion when there was nothing to join.
WaitThread(c) ==
  /\ srv = "wait" /\ c \in todo
  /\ IF WaitSkips(c)
       THEN DeleteRT(c) /\ todo' = todo \ {c} /\ UNCHANGED <<srv, cur>>
       ELSE srv' = "join" /\ cur' = c /\ UNCHANGED <<object, stream, todo>>
  /\ UNCHANGED <<isRunning, pos, backlog, sent, hup, renderVars, rt, threads, fb, api>>

JoinThread ==
  /\ srv = "join" /\ WaitJoins(cur)
  /\ DeleteRT(cur)
  /\ todo' = todo \ {cur} /\ srv' = "wait"
  /\ UNCHANGED <<isRunning, pos, backlog, sent, hup, renderVars, cur, rt, threads, fb, api>>

\* threads.clear(), FrameBuffer::finalize() and the return from Main.
Finalize ==
  /\ srv = "wait" /\ todo = {}
  /\ threads' = {} /\ fb' = FALSE
  /\ srv' = "done" /\ MainReturned(Server)
  /\ UNCHANGED <<object, isRunning, clientVars, renderVars, cur, rt, todo, api>>

ServerStep ==
  \/ Accept \/ FlagsMissing \/ FlagsExit \/ FlagsRender
  \/ StartThread \/ StartReturns \/ Insert \/ JoinThread \/ Finalize
  \/ \E c \in Conn : Reap(c) \/ WaitThread(c)

----------------------------------------------------------------------------
(* RenderThread::Main.                                                      *)

At(c, s) == pos[c] = "main" /\ step[c] = s

\* getData and the decoders: some command made a context current, or none.
\* After a hang-up it works off what was received before.
Decode(c) ==
  /\ At(c, "decode")
  /\ bound' \in {bound \cup {c}, bound \ {c}}
  /\ UNCHANGED <<threadVars, serverVars, clientVars, step, finished, fb, api>>

\* getData returned no data.
StreamEnds(c) ==
  /\ At(c, "decode") /\ c \in hup
  /\ step' = [step EXCEPT ![c] = "unbind"]
  /\ UNCHANGED <<threadVars, serverVars, clientVars, finished, bound, fb, api>>

\* FrameBuffer::getFB()->bindContext(0, 0, 0); a failure is only reported.
Unbind(c) ==
  /\ At(c, "unbind")
  /\ \/ bound' = bound \ {c}
     \/ UnbindFails /\ UNCHANGED bound
  /\ step' = [step EXCEPT ![c] = "flag"]
  /\ UNCHANGED <<threadVars, serverVars, clientVars, finished, fb, api>>

\* m_finished = true: from here on the server may delete the object.
FlagFinished(c) ==
  /\ At(c, "flag")
  /\ finished' = finished \cup {c}
  /\ step' = [step EXCEPT ![c] = "return"]
  /\ UNCHANGED <<threadVars, serverVars, clientVars, bound, fb, api>>

\* Main returns: the destructor of tInfo releases what it still refers to.
ReturnMain(c) ==
  /\ At(c, "return")
  /\ bound' = bound \ {c}
  /\ MainReturned(c)
  /\ UNCHANGED <<object, isRunning, serverVars, clientVars, step, finished, fb, api>>

RenderStep(c) ==
  \/ Decode(c) \/ StreamEnds(c) \/ Unbind(c) \/ FlagFinished(c) \/ ReturnMain(c)

EndStep(o) ==
  ThreadEnd(o) /\ UNCHANGED <<serverVars, clientVars, renderVars, fb, api>>

----------------------------------------------------------------------------
(* stopOpenGLRenderer, called by another thread of the process.             *)

\* createRenderThread(8, IOSTREAM_CLIENT_EXIT_SERVER).
StopConnect ==
  /\ api = "started"
  /\ backlog' = Append(backlog, ExitConn)
  /\ sent' = sent \cup {ExitConn}
  /\ api' = "wait"
  /\ UNCHANGED <<threadVars, serverVars, renderVars, stream, hup, fb>>

\* Mutant: stopOpenGLRenderer does not wait for the server's thread.
StopWaitNot ==
  /\ api = "wait"
  /\ Delete(Server) /\ api' = "stopped"
  /\ UNCHANGED <<isRunning, pos, serverVars, clientVars, renderVars, fb>>

\* s_renderThread->wait(), and the delete when there was nothing to join.
StopWait ==
  /\ api = "wait"
  /\ IF WaitSkips(Server)
       THEN Delete(Server) /\ api' = "stopped"
       ELSE api' = "join" /\ UNCHANGED object
  /\ UNCHANGED <<isRunning, pos, serverVars, clientVars, renderVars, fb>>

StopJoin ==
  /\ api = "join" /\ WaitJoins(Server)
  /\ Delete(Server)
  /\ api' = "stopped"
  /\ UNCHANGED <<isRunning, pos, serverVars, clientVars, renderVars, fb>>

StopStep == StopWait \/ StopJoin

----------------------------------------------------------------------------

Next ==
  \/ ServerStep \/ AcceptError \/ StopConnect \/ StopStep
  \/ \E c \in Conn : Connect(c) \/ SendFlags(c) \/ HangUp(c) \/ RenderStep(c)
  \/ \E o \in Obj : EndStep(o)

Spec == Init /\ [][Next]_vars

(* Fairness.  The server, the caller of stopOpenGLRenderer and the tail of  *)
(* every thread are scheduled by the host; a render thread reaches the end  *)
(* of a stream that was hung up, since what was received before is finite.  *)
(* That every client hangs up in the end is an assumption on the guest.     *)
FairSpec ==
  /\ Spec
  /\ WF_vars(ServerStep) /\ WF_vars(StopStep)
  /\ \A c \in Conn : WF_vars(HangUp(c)) /\ WF_vars(StreamEnds(c))
                     /\ WF_vars(Unbind(c) \/ FlagFinished(c) \/ ReturnMain(c))
  /\ \A o \in Obj : WF_vars(EndStep(o))

----------------------------------------------------------------------------
(* Properties.                                                              *)

\* RenderThread::Main has not set m_finished yet.
Rendering(c) == pos[c] = "main" /\ step[c] # "return"

\* Until a render thread has set m_finished, the server has deleted neither its
\* object nor the stream it decodes, and has not finalized the frame buffer.
RenderingProtected ==
  \A c \in Conn :
    Rendering(c) => object[c] = "live" /\ stream[c] = "open" /\ fb

\* When stopOpenGLRenderer has deleted the server, nobody renders any more, and
\* RenderServer::Main has left its loops and finalized the frame buffer: Thread::wait
\* skips its join only for a server that has already returned, or whose thread could
\* never be created and whose frame buffer stays.
StopAfterFinalize ==
  api = "stopped" =>
    /\ srv = "none" \/ (srv = "done" /\ ~fb)
    /\ \A c \in Conn : ~Rendering(c)

\* The invariant behind the two.  A thread that renders is in the set the
\* server waits for, or is the one just started; what waits to be accepted has
\* no thread, object or stream yet; every end of a loop in Main keeps it so;
\* and the server's own flag is up until Main has returned, if it ever ran.

QueueInv ==
  /\ \A i, j \in DOMAIN backlog : backlog[i] = backlog[j] => i = j
  /\ \A i \in DOMAIN backlog : stream[backlog[i]] = "none"
  /\ api = "started" => ~Connected(ExitConn)

MainInv ==
  /\ srv # "done" => fb
  /\ srv \in {"flags", "start", "started"} => cur # NoConn /\ stream[cur] = "open"
  /\ srv \in {"flags", "start"} /\ cur \in Conn => pos[cur] = "none"
  /\ srv \in {"start", "started"} => rt = cur /\ rt \in Conn /\ object[rt] = "live"
  /\ srv = "join" => cur \in todo
  /\ \A c \in threads \cup todo : stream[c] # "none"
  /\ rt # NoConn => stream[rt] # "none"

StopInv ==
  /\ srv = "done" => ~fb /\ pos[Server] # "main"
  /\ srv = "none" => pos[Server] = "none" /\ ~isRunning[Server]
  /\ srv \notin {"none", "done"} => pos[Server] = "main" /\ isRunning[Server]
  /\ api = "stopped" => srv \in {"none", "done"}

ThreadInv(c) ==
  /\ stream[c] = "none" => pos[c] = "none"
  /\ pos[c] = "none" => step[c] = "decode" /\ c \notin finished \cup bound
  /\ pos[c] = "main" => isRunning[c]
  /\ Rendering(c) =>
       /\ object[c] = "live" /\ stream[c] = "open" /\ c \notin finished
       /\ srv \in {"wait", "join"} => c \in todo
       /\ srv \notin {"none", "done"}
       /\ c \in threads \/ (srv \in {"started", "reap"} /\ rt = c)

\* IndInv is kept by every step of Main, of the render threads and of the caller.
IndInv == TypeOK /\ QueueInv /\ MainInv /\ StopInv /\ \A c \in Conn : ThreadInv(c)

\* A connected client that sent its flags gets its render thread, whoever
\* connected before it, or sees its stream closed when that thread could not be
\* created, unless the server leaves its loop first or was never started.
ClientServed ==
  \A c \in Conn :
    Connected(c) /\ c \in sent /\ srv # "none"
      ~> pos[c] # "none" \/ stream[c] = "closed" \/ srv \in {"wait", "join", "done"}

\* stopOpenGLRenderer returns: the exit flag reaches the server behind the
\* connections before it, and every thread it waits for ends.
StopReturns == api = "wait" ~> api = "stopped"
=============================================================================
