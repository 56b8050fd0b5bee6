----------------------------- MODULE FrameBuffer -----------------------------
(***************************************************************************)
(* The frame buffer of the renderer and what it hands out: FrameBuffer.cpp, *)
(* WindowSurface.cpp, ColorBuffer.cpp, RenderContext.cpp and the entry      *)
(* points of RenderControl.cpp, all of host-opengl-render.                  *)
(*                                                                          *)
(* Render threads name contexts, window surfaces and color buffers by       *)
(* handles; the objects are kept by smart pointers, so an object lives as   *)
(* long as a map, a thread's RenderThreadInfo or a window refers to it.     *)
(* Every operation runs under m_lock and is one action, except repost,      *)
(* which reads what to post before it takes the lock.  The brackets         *)
(* bind_locked .. unbind_locked leave the thread's binding as it was and    *)
(* are not visible between operations; pixels are left out.                 *)
(***************************************************************************)
EXTENDS Integers, FiniteSets

CONSTANTS
  Thread,                \* render threads
  Ctx, Win, Buf,         \* RenderContext, WindowSurface and ColorBuffer objects
  GL2,                   \* the GLES2 contexts of Ctx
  Empty, Large,          \* the buffers of Buf without an area, and the larger ones
  None,
  W,                     \* HandleType has the values 0 .. W-1 (2^32 in the code)
  MaxRef,                \* bound on the references a client takes on one buffer
  WinSizes,              \* the sizes a window may be created with
  Wraps,                 \* FALSE: stop before the handle counter wraps around
  Posting,               \* FALSE: nothing is posted and there is no subwindow
  EglFails,              \* TRUE: EGL may fail to create a surface or an image
  CrossThread            \* TRUE: a window may be resized by a thread that has it not current

ASSUME FrameBufferAssumption ==
  /\ W \in Nat /\ W > 1 /\ MaxRef \in Nat
  /\ GL2 \subseteq Ctx /\ Empty \subseteq Buf /\ Large \subseteq Buf
  /\ None \notin Ctx \cup Win \cup Buf
  /\ WinSizes \subseteq 0 .. 2
  /\ {Wraps, Posting, EglFails, CrossThread} \subseteq BOOLEAN

Handle == 1 .. W - 1

VARIABLES
  nextHandle,            \* s_nextHandle
  contexts, windows,     \* [Handle -> object or None]: m_contexts, m_windows
  colorbuffers,          \* [Handle -> [cb, refcount]]: m_colorbuffers
  win,                   \* [Win -> the fields of the WindowSurface]
  tinfo,                 \* [Thread -> RenderThreadInfo's current context and surfaces]
  dec,                   \* [Thread -> the contexts whose data its two decoders use]
  egl,                   \* [Thread -> what EGL has current]
  orphan,                \* threads whose current EGL surface was destroyed
  lastPosted,            \* m_lastPostedColorBuffer
  subWin,                \* m_subWin is not NULL
  refs,                  \* ghost, [Handle -> references the clients hold]
  reposting,             \* the handle repost() has read and not posted yet, or 0
  posted,                \* ghost: the buffer last posted by a client
  behind,                \* ghost: a repost undid a client's post, and none came since
  shown                  \* ghost: what the subwindow was last painted with

mapVars == <<nextHandle, contexts, windows, colorbuffers, refs>>
bindVars == <<win, tinfo, dec, egl, orphan>>
postVars == <<lastPosted, subWin, reposting, posted, behind, shown>>
vars == <<mapVars, bindVars, postVars>>

NoEntry == [cb |-> None, refcount |-> 0]
Entry == [cb : Buf, refcount : Nat \ {0}] \cup {NoEntry}

NoBinding == [ctx |-> None, draw |-> None, read |-> None]
Binding == [ctx : Ctx \cup {None}, draw : Win \cup {None}, read : Win \cup {None}]

\* Buffers, windows (size) and their pbuffers (pbuf, and surf for the EGL surface
\* itself) have one of three sizes; 0 stands for a width or a height of 0.  An FBO
\* of size 0 is incomplete and deleted again, so for it 0 is also the size of none.
Size == 0 .. 2
SizeOf(b) == IF b \in Empty THEN 0 ELSE IF b \in Large THEN 2 ELSE 1

NoSurface == -1

NoWindow == [cb |-> None, rctx |-> None, dctx |-> None,
             size |-> 0, pbuf |-> 0, surf |-> NoSurface, fbo |-> 0]

TypeOK ==
  /\ nextHandle \in 0 .. W - 1
  /\ contexts \in [Handle -> Ctx \cup {None}]
  /\ windows \in [Handle -> Win \cup {None}]
  /\ colorbuffers \in [Handle -> Entry]
  /\ win \in [Win -> [cb : Buf \cup {None}, rctx : Ctx \cup {None},
                      dctx : Ctx \cup {None}, size : Size, pbuf : Size,
                      surf : Size \cup {NoSurface}, fbo : Size]]
  /\ tinfo \in [Thread -> Binding]
  /\ dec \in [Thread -> [gl1 : Ctx \cup {None}, gl2 : Ctx \cup {None}]]
  /\ egl \in [Thread -> Binding]
  /\ orphan \in SUBSET Thread
  /\ lastPosted \in 0 .. W - 1 /\ reposting \in 0 .. W - 1
  /\ subWin \in BOOLEAN /\ behind \in BOOLEAN
  /\ refs \in [Handle -> Nat]
  /\ posted \in Buf \cup {None}
  /\ shown \in {"nothing", "posted", "older", "other"}

Init ==
  /\ nextHandle = 0
  /\ contexts = [h \in Handle |-> None]
  /\ windows = [h \in Handle |-> None]
  /\ colorbuffers = [h \in Handle |-> NoEntry]
  /\ win = [w \in Win |-> NoWindow]
  /\ tinfo = [t \in Thread |-> NoBinding]
  /\ dec = [t \in Thread |-> [gl1 |-> None, gl2 |-> None]]
  /\ egl = [t \in Thread |-> NoBinding]
  /\ orphan = {}
  /\ lastPosted = 0 /\ subWin = FALSE /\ reposting = 0
  /\ refs = [h \in Handle |-> 0]
  /\ posted = None /\ behind = FALSE /\ shown = "nothing"

----------------------------------------------------------------------------
(* Smart pointers: an object is alive while something refers to it.         *)

Images(f) == {f[x] : x \in DOMAIN f} \ {None}

LiveWin(ws, ti) == Images(ws) \cup UNION {{ti[t].draw, ti[t].read} \ {None} : t \in Thread}

LiveCtx ==
  Images(contexts) \cup ({tinfo[t].ctx : t \in Thread} \ {None})
    \cup (UNION {{win[w].rctx, win[w].dctx} : w \in Win} \ {None})

LiveBuf ==
  ({colorbuffers[h].cb : h \in Handle} \cup {win[w].cb : w \in Win}) \ {None}

\* ~WindowSurface for the windows nothing refers to any more.
Surviving(wn, ws, ti) == [w \in Win |-> IF w \in LiveWin(ws, ti) THEN wn[w] ELSE NoWindow]

----------------------------------------------------------------------------
(* Handles.                                                                 *)

\* Mutant: windows are not looked up.
FreeOfContexts == {h \in Handle : contexts[h] = None}

\* What genHandle may return: color buffers are not looked up.
Free == {h \in Handle : contexts[h] = None /\ windows[h] = None}

\* genHandle: count on from the last handle to one that is free.
IsNext(id) ==
  \E n \in 1 .. W :
    /\ id = (nextHandle + n) % W
    /\ id \in Free
    /\ \A m \in 1 .. n - 1 : (nextHandle + m) % W \notin Free

GenHandle(h) ==
  /\ Wraps \/ h > nextHandle
  /\ IsNext(h)
  /\ nextHandle' = h

----------------------------------------------------------------------------
(* Color buffers.                                                           *)

\* The entry is overwritten if the handle names a color buffer already.
CreateColorBuffer(h, b) ==
  /\ b \notin LiveBuf
  /\ GenHandle(h)
  /\ colorbuffers' = [colorbuffers EXCEPT ![h] = [cb |-> b, refcount |-> 1]]
  /\ refs[h] < MaxRef /\ refs' = [refs EXCEPT ![h] = @ + 1]
  /\ posted' = IF colorbuffers[h].cb = posted THEN None ELSE posted
  /\ UNCHANGED <<contexts, windows, bindVars, lastPosted, subWin, reposting, behind, shown>>

OpenColorBuffer(h) ==
  /\ colorbuffers[h].cb # None
  /\ refs[h] < MaxRef /\ refs' = [refs EXCEPT ![h] = @ + 1]
  /\ colorbuffers' = [colorbuffers EXCEPT ![h].refcount = @ + 1]
  /\ UNCHANGED <<nextHandle, contexts, windows, bindVars, postVars>>

\* Mutant: the entry goes with the first close.
CloseColorBufferAtOnce(h) ==
  /\ refs[h] > 0 /\ refs' = [refs EXCEPT ![h] = @ - 1]
  /\ colorbuffers' = [colorbuffers EXCEPT ![h] = NoEntry]
  /\ posted' = IF colorbuffers[h].cb = posted THEN None ELSE posted
  /\ UNCHANGED <<nextHandle, contexts, windows, bindVars, lastPosted, subWin, reposting, behind, shown>>

\* Mutant: the entry stays when the last reference goes.
CloseColorBufferKept(h) ==
  /\ refs[h] > 0 /\ refs' = [refs EXCEPT ![h] = @ - 1]
  /\ colorbuffers[h].cb # None
  /\ colorbuffers' = [colorbuffers EXCEPT ![h].refcount = @ - 1]
  /\ UNCHANGED <<nextHandle, contexts, windows, bindVars, postVars>>

\* A client closes what it has opened; a handle that names nothing is ignored.
CloseColorBuffer(h) ==
  /\ refs[h] > 0 /\ refs' = [refs EXCEPT ![h] = @ - 1]
  /\ LET c == colorbuffers[h]
         erased == c.cb # None /\ c.refcount = 1
     IN /\ colorbuffers' = [colorbuffers EXCEPT
             ![h] = IF erased \/ c.cb = None THEN NoEntry
                    ELSE [cb |-> c.cb, refcount |-> c.refcount - 1]]
        /\ posted' = IF erased /\ c.cb = posted THEN None ELSE posted
  /\ UNCHANGED <<nextHandle, contexts, windows, bindVars, lastPosted, subWin, reposting, behind, shown>>

----------------------------------------------------------------------------
(* Contexts and window surfaces.                                            *)

\* The shared context of RenderContext::create must be named by a handle.
CreateRenderContext(h, c, share) ==
  /\ share # 0 => contexts[share] # None
  /\ c \notin LiveCtx
  /\ GenHandle(h)
  /\ contexts' = [contexts EXCEPT ![h] = c]
  /\ UNCHANGED <<windows, colorbuffers, refs, bindVars, postVars>>

DestroyRenderContext(h) ==
  /\ contexts[h] # None
  /\ contexts' = [contexts EXCEPT ![h] = None]
  /\ UNCHANGED <<nextHandle, windows, colorbuffers, refs, bindVars, postVars>>

\* Mutant: the handle of a window is only looked up among the windows.
CreateWindowSurfaceOver(h, w, size) ==
  /\ w \notin LiveWin(windows, tinfo)
  /\ windows[h] = None
  /\ nextHandle' = h
  /\ windows' = [windows EXCEPT ![h] = w]
  /\ win' = [win EXCEPT ![w] = [NoWindow EXCEPT !.size = size, !.pbuf = size, !.surf = size]]
  /\ UNCHANGED <<contexts, colorbuffers, refs, tinfo, dec, egl, orphan, postVars>>

\* A window that gets no pbuffer is deleted again, and no handle is used.
CreateWindowSurface(h, w, size) ==
  /\ w \notin LiveWin(windows, tinfo)
  /\ GenHandle(h)
  /\ windows' = [windows EXCEPT ![h] = w]
  /\ win' = [win EXCEPT ![w] = [NoWindow EXCEPT !.size = size, !.pbuf = size, !.surf = size]]
  /\ UNCHANGED <<contexts, colorbuffers, refs, tinfo, dec, egl, orphan, postVars>>

DestroyWindowSurface(h) ==
  /\ windows[h] # None
  /\ windows' = [windows EXCEPT ![h] = None]
  /\ win' = Surviving(win, windows', tinfo)
  /\ UNCHANGED <<nextHandle, contexts, colorbuffers, refs, tinfo, dec, egl, orphan, postVars>>

HasCurrent(t, w) == w \in {egl[t].draw, egl[t].read}

\* A pbuffer that has lost its area once is never resized again.
NeedsResize(r, b) ==
  SizeOf(b) # r.size /\ r.pbuf # 0 /\ ~(r.surf # NoSurface /\ r.pbuf = SizeOf(b))

\* Mutant: m_width and m_height keep the size the window was created with.
AttachUnsized(r, b, ok) ==
  IF ~NeedsResize(r, b) THEN [r EXCEPT !.cb = b]
  ELSE IF ok THEN [r EXCEPT !.cb = b, !.surf = SizeOf(b), !.pbuf = SizeOf(b)]
  ELSE [r EXCEPT !.cb = b, !.surf = NoSurface]

\* setColorBuffer: m_width and m_height follow the buffer even when the pbuffer
\* cannot.
Attach(r, b, ok) ==
  IF ~NeedsResize(r, b) THEN [r EXCEPT !.cb = b, !.size = SizeOf(b)]
  ELSE IF ok THEN [r EXCEPT !.cb = b, !.size = SizeOf(b), !.surf = SizeOf(b), !.pbuf = SizeOf(b)]
  ELSE [r EXCEPT !.cb = b, !.size = SizeOf(b), !.surf = NoSurface]

\* Mutant: the surface to destroy stays current.
SetWindowColorBufferBound(t, hw, hc) ==
  LET w == windows[hw]
      b == colorbuffers[hc].cb
  IN
  /\ w # None /\ b # None
  /\ \E ok \in BOOLEAN :
       /\ ok \/ (EglFails /\ NeedsResize(win[w], b))
       /\ win' = [win EXCEPT ![w] = Attach(win[w], b, ok)]
  /\ UNCHANGED <<mapVars, tinfo, dec, egl, orphan, postVars>>

\* resizePbuffer destroys the old EGL surface and makes the new one current again
\* in the calling thread; when it cannot be created nothing is left current.
SetWindowColorBuffer(t, hw, hc) ==
  LET w == windows[hw]
      b == colorbuffers[hc].cb
      resize == NeedsResize(win[w], b)
      others == {u \in Thread \ {t} : HasCurrent(u, w) /\ win[w].surf # NoSurface}
  IN
  /\ w # None /\ b # None
  /\ CrossThread \/ others = {}
  /\ \E ok \in BOOLEAN :
       /\ ok \/ (EglFails /\ resize)
       /\ win' = [win EXCEPT ![w] = Attach(win[w], b, ok)]
       /\ egl' = IF ~ok /\ win[w].surf # NoSurface /\ HasCurrent(t, w)
                   THEN [egl EXCEPT ![t] = NoBinding] ELSE egl
  /\ orphan' = IF resize THEN orphan \cup others ELSE orphan
  /\ UNCHANGED <<mapVars, tinfo, dec, postVars>>

----------------------------------------------------------------------------
(* bindContext.                                                             *)

\* EGL refuses a context or a surface that is current in another thread, and
\* a window that has no surface.
EglMakeCurrent(t, b) ==
  /\ win[b.draw].surf # NoSurface /\ win[b.read].surf # NoSurface
  /\ \A u \in Thread \ {t} :
       egl[u].ctx # b.ctx /\ ~HasCurrent(u, b.draw) /\ ~HasCurrent(u, b.read)

\* WindowSurface::bind, with bind_fbo: the FBO is made once, for the size of the
\* buffer attached at that time.
BindFbo(r, c, ok) ==
  IF c # None /\ r.fbo = 0 /\ r.cb # None /\ ok THEN SizeOf(r.cb) ELSE r.fbo

Bind(wn, w, c, as, ok) ==
  [wn EXCEPT ![w] = [wn[w] EXCEPT !.dctx = IF "draw" \in as THEN c ELSE wn[w].dctx,
                                  !.rctx = IF "read" \in as THEN c ELSE wn[w].rctx,
                                  !.fbo = BindFbo(wn[w], c, ok)]]

BindBoth(wn, bd, br, c, ok) ==
  IF bd = None \/ br = None THEN wn
  ELSE IF bd = br THEN Bind(wn, bd, c, {"draw", "read"}, ok)
  ELSE Bind(Bind(wn, bd, c, {"draw"}, ok), br, c, {"read"}, ok)

\* The decoder of the other API keeps the context it had.
SetContextData(d, c) ==
  IF c = None THEN [gl1 |-> None, gl2 |-> None]
  ELSE IF c \in GL2 THEN [d EXCEPT !.gl2 = c]
  ELSE [d EXCEPT !.gl1 = c]

\* What follows a successful eglMakeCurrent: bd and br are the windows to bind.
MakeCurrent(t, b, bd, br) ==
  /\ egl' = [egl EXCEPT ![t] = b]
  /\ tinfo' = [tinfo EXCEPT ![t] = b]
  /\ orphan' = orphan \ {t}
  /\ dec' = [dec EXCEPT ![t] = SetContextData(@, b.ctx)]
  /\ \E ok \in {TRUE, ~EglFails} :
       win' = Surviving(BindBoth(win, bd, br, b.ctx, ok), windows, tinfo')
  /\ UNCHANGED <<mapVars, postVars>>

\* Mutant: eglMakeCurrent's refusal is ignored.
BindContextUnchecked(t, hc, hd, hr) ==
  LET b == [ctx |-> contexts[hc], draw |-> windows[hd], read |-> windows[hr]]
  IN /\ None \notin {b.ctx, b.draw, b.read}
     /\ MakeCurrent(t, b, b.draw, b.read)

\* Mutant: the windows are not told of the context.
BindContextUntold(t, hc, hd, hr) ==
  LET b == [ctx |-> contexts[hc], draw |-> windows[hd], read |-> windows[hr]]
  IN /\ None \notin {b.ctx, b.draw, b.read}
     /\ EglMakeCurrent(t, b)
     /\ MakeCurrent(t, b, tinfo[t].draw, tinfo[t].read)

BindContext(t, hc, hd, hr) ==
  LET b == [ctx |-> contexts[hc], draw |-> windows[hd], read |-> windows[hr]]
  IN /\ None \notin {b.ctx, b.draw, b.read}
     /\ EglMakeCurrent(t, b)
     /\ MakeCurrent(t, b, b.draw, b.read)

\* bindContext(0, 0, 0), also the end of a render thread.
Unbind(t) == MakeCurrent(t, NoBinding, tinfo[t].draw, tinfo[t].read)

----------------------------------------------------------------------------
(* Posting.                                                                 *)

\* The second half of post(): what the subwindow, if there is one and it can be
\* made current, is painted with.
Paint(h, sub) ==
  IF h # 0 /\ colorbuffers[h].cb # None /\ sub
    THEN \/ shown' = IF colorbuffers[h].cb = posted' THEN "posted"
                     ELSE IF behind' THEN "older" ELSE "other"
         \/ EglFails /\ UNCHANGED shown
    ELSE UNCHANGED shown

\* Mutant: a buffer that cannot be painted is not remembered.
PostForgets(h) ==
  /\ Posting
  /\ colorbuffers[h].cb # None
  /\ lastPosted' = IF subWin \/ lastPosted = 0 THEN h ELSE lastPosted
  /\ posted' = colorbuffers[h].cb
  /\ behind' = FALSE
  /\ Paint(h, subWin)
  /\ UNCHANGED <<mapVars, bindVars, subWin, reposting>>

\* rcFBPost.
Post(h) ==
  /\ Posting
  /\ colorbuffers[h].cb # None
  /\ lastPosted' = h
  /\ posted' = colorbuffers[h].cb
  /\ behind' = FALSE
  /\ Paint(h, subWin)
  /\ UNCHANGED <<mapVars, bindVars, subWin, reposting>>

\* repost(), for repaintOpenGLDisplay and setOpenGLDisplayRotation: what to post is
\* read without m_lock.  These two, the subwindow and the end of the renderer are the
\* business of one thread, the emulator's.
RepostRead ==
  /\ reposting = 0
  /\ lastPosted # 0
  /\ reposting' = lastPosted
  /\ UNCHANGED <<mapVars, bindVars, lastPosted, subWin, posted, behind, shown>>

\* Its post(): the handle that was read becomes the last posted one again, even if a
\* client has posted another since; one that was closed since is ignored.
RepostPost ==
  /\ reposting # 0
  /\ reposting' = 0
  /\ IF colorbuffers[reposting].cb # None
     THEN /\ lastPosted' = reposting
          /\ behind' = (behind \/ reposting # lastPosted)
     ELSE UNCHANGED <<lastPosted, behind>>
  /\ UNCHANGED posted
  /\ Paint(reposting, subWin)
  /\ UNCHANGED <<mapVars, bindVars, subWin>>

\* Fails without a trace, or leaves m_subWin set when only the binding failed.
SetupSubWindow ==
  /\ Posting /\ reposting = 0
  /\ ~subWin
  /\ subWin' = TRUE
  /\ UNCHANGED <<posted, behind>>
  /\ Paint(lastPosted, TRUE)
  /\ UNCHANGED <<mapVars, bindVars, lastPosted, reposting>>

RemoveSubWindow ==
  /\ reposting = 0
  /\ subWin /\ subWin' = FALSE
  /\ UNCHANGED <<mapVars, bindVars, lastPosted, reposting, posted, behind, shown>>

\* finalize, once the render threads have unbound, and a new initialize: only
\* the static handle counter survives.
Reinitialize ==
  /\ reposting = 0
  /\ \A t \in Thread : tinfo[t] = NoBinding
  /\ contexts' = [h \in Handle |-> None]
  /\ windows' = [h \in Handle |-> None]
  /\ colorbuffers' = [h \in Handle |-> NoEntry]
  /\ refs' = [h \in Handle |-> 0]
  /\ win' = [w \in Win |-> NoWindow]
  /\ lastPosted' = 0 /\ subWin' = FALSE
  /\ posted' = None /\ behind' = FALSE /\ shown' = "nothing"
  /\ UNCHANGED <<nextHandle, tinfo, dec, egl, orphan, reposting>>

----------------------------------------------------------------------------

\* The handles that name something; bindContext with another one changes nothing.
Named(objects) == {h \in Handle : objects[h] # None}

Next ==
  \/ \E h \in Handle :
       \/ \E b \in Buf : CreateColorBuffer(h, b)
       \/ OpenColorBuffer(h) \/ CloseColorBuffer(h) \/ Post(h)
       \/ \E c \in Ctx, s \in Handle \cup {0} : CreateRenderContext(h, c, s)
       \/ \E w \in Win, size \in WinSizes : CreateWindowSurface(h, w, size)
       \/ DestroyRenderContext(h) \/ DestroyWindowSurface(h)
  \/ \E t \in Thread :
       \/ \E hw, hc \in Handle : SetWindowColorBuffer(t, hw, hc)
       \/ \E hc \in Named(contexts), hd, hr \in Named(windows) : BindContext(t, hc, hd, hr)
       \/ Unbind(t)
  \/ RepostRead \/ RepostPost \/ SetupSubWindow \/ RemoveSubWindow \/ Reinitialize

Spec == Init /\ [][Next]_vars

----------------------------------------------------------------------------
(* Properties.                                                              *)

\* What EGL has current in a render thread is what the thread's RenderThreadInfo
\* says, down to the surface of each window, and no two threads share any of it.
CurrentAgrees ==
  /\ egl = tinfo /\ orphan = {}
  /\ \A t, u \in Thread :
       t # u =>
         /\ tinfo[t].ctx # None => tinfo[t].ctx # tinfo[u].ctx
         /\ {tinfo[t].draw, tinfo[t].read} \cap {tinfo[u].draw, tinfo[u].read} \subseteq {None}

\* The context of the thread's decoder for the API of its current context.
Decoder(t) == IF tinfo[t].ctx \in GL2 THEN dec[t].gl2 ELSE dec[t].gl1

\* A window that is current knows the context of the thread that draws to it or
\* reads from it, and the thread's decoder for the API of that context decodes
\* with that context's data, whatever was bound and destroyed before.
WindowsKnowContext ==
  \A t \in Thread :
    tinfo[t].ctx # None =>
      /\ win[tinfo[t].draw].dctx = tinfo[t].ctx
      /\ win[tinfo[t].read].rctx = tinfo[t].ctx
      /\ Decoder(t) = tinfo[t].ctx

\* Also when a pbuffer cannot be resized (WindowSurface.cpp:231), what EGL has current
\* in a thread is what its RenderThreadInfo says, and every window of it has a surface:
\* a thread may have nothing current behind its own record, never something else.
CurrentIsReal ==
  \A t \in Thread :
    egl[t] # NoBinding =>
      /\ egl[t] = tinfo[t]
      /\ win[egl[t].draw].surf # NoSurface /\ win[egl[t].read].surf # NoSurface

\* WindowSurface.cpp:104, "resize the window if the attached color buffer is of different
\* size": the pbuffer of a window has the size of the attached buffer, in whatever order
\* buffers are attached and whichever resizes failed before, as long as it has an area.
SurfaceFitsBuffer ==
  \A w \in Win :
    win[w].surf # NoSurface /\ win[w].pbuf # 0 /\ win[w].cb # None =>
      win[w].surf = SizeOf(win[w].cb)

\* A handle names a context or a window surface, never both, and no object has
\* two handles, also when the counter has wrapped around.
HandlesDistinct ==
  /\ \A h \in Handle : contexts[h] = None \/ windows[h] = None
  /\ \A h, k \in Handle :
       h # k =>
         /\ contexts[h] # None => contexts[h] # contexts[k]
         /\ windows[h] # None => windows[h] # windows[k]

\* genHandle never gives a handle in use to another context or window surface.
NamesKept ==
  [][\A h \in Handle :
       /\ contexts[h] # None => contexts'[h] \in {contexts[h], None}
       /\ windows[h] # None => windows'[h] \in {windows[h], None}]_vars

\* FrameBuffer.h:31: refcount is the "number of client-side references", and an
\* entry exists as long as there are any.
RefcountIsClients ==
  \A h \in Handle : colorbuffers[h].refcount = refs[h]

\* FrameBuffer.cpp:442, "draw the last posted color buffer": the subwindow is painted
\* with the buffer a client posted last, and with an older one only by or after a repost
\* that a client's post overtook between its read and its lock, until the next post.
ShowsLastPosted == shown # "other"
=============================================================================
