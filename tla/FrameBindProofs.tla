--------------------------- MODULE FrameBindProofs ---------------------------
(***************************************************************************)
(* Proofs that EGL, the thread's own record and the windows agree on what   *)
(* is current, that pbuffers fit, that references are counted, and that the *)
(* display shows what was posted unless a repost was overtaken, for any     *)
(* number of threads, contexts, windows and buffers.                        *)
(***************************************************************************)
EXTENDS FrameBufferProofs

\* The bindings: besides the two properties, a thread has a context and two
\* windows current, or nothing.
Known ==
  /\ CurrentAgrees /\ WindowsKnowContext
  /\ \A t \in Thread :
       \/ tinfo[t] = NoBinding
       \/ tinfo[t].ctx # None /\ tinfo[t].draw \in Win /\ tinfo[t].read \in Win

BindInv == TypeOK /\ Known

\* Windows that a thread has current keep their record when nothing is bound.
LEMMA WindowsStay ==
  ASSUME BindInv, UNCHANGED <<tinfo, dec, egl, orphan>>,
         \A w \in Win : (\E t \in Thread : w \in {tinfo[t].draw, tinfo[t].read}) =>
            win'[w].dctx = win[w].dctx /\ win'[w].rctx = win[w].rctx
  PROVE  Known'
BY DEF BindInv, Known, CurrentAgrees, WindowsKnowContext, Decoder, NoBinding

\* Binding in one thread leaves the other threads' windows alone.
LEMMA MakeCurrentStep ==
  ASSUME BindInv, NEW t \in Thread, NEW b \in Binding,
         NEW bd \in Win \cup {None}, NEW br \in Win \cup {None},
         MakeCurrent(t, b, bd, br),
         \/ /\ b.ctx # None /\ b.draw \in Win /\ b.read \in Win
            /\ bd = b.draw /\ br = b.read /\ EglMakeCurrent(t, b)
         \/ b = NoBinding /\ bd = tinfo[t].draw /\ br = tinfo[t].read
  PROVE  Known'
<1> USE FrameBufferAssumption
<1>1. /\ egl' = [egl EXCEPT ![t] = b] /\ tinfo' = [tinfo EXCEPT ![t] = b]
      /\ orphan' = {} /\ windows' = windows
  BY DEF MakeCurrent, BindInv, CurrentAgrees, mapVars, Known
<1>2. tinfo \in [Thread -> Binding] /\ egl = tinfo /\ win \in [Win -> WinRec]
  BY DEF BindInv, Known, TypeOK, CurrentAgrees, WinRec
<1>3. egl' = tinfo' /\ tinfo' \in [Thread -> Binding] /\ tinfo'[t] = b
      /\ \A u \in Thread \ {t} : tinfo'[u] = tinfo[u]
  BY <1>1, <1>2
<1>4. \A u \in Thread \ {t} :
        /\ b.ctx # None => b.ctx # tinfo[u].ctx
        /\ {b.draw, b.read} \cap {tinfo[u].draw, tinfo[u].read} \subseteq {None}
  BY <1>2 DEF EglMakeCurrent, HasCurrent, NoBinding
<1>5. CurrentAgrees'
  <2>1. ASSUME NEW u \in Thread, NEW v \in Thread, u # v
        PROVE  /\ tinfo'[u].ctx # None => tinfo'[u].ctx # tinfo'[v].ctx
               /\ {tinfo'[u].draw, tinfo'[u].read} \cap {tinfo'[v].draw, tinfo'[v].read} \subseteq {None}
    <3>1. CASE u = t
      BY <1>3, <1>4, <2>1, <3>1
    <3>2. CASE v = t
      BY <1>3, <1>4, <2>1, <3>2
    <3>3. CASE u # t /\ v # t
      BY <1>3, <2>1, <3>3 DEF BindInv, Known, CurrentAgrees
    <3> QED
      BY <3>1, <3>2, <3>3
  <2> QED
    BY <1>1, <1>3, <2>1 DEF CurrentAgrees
<1>6. \A u \in Thread :
        tinfo'[u] = NoBinding \/ (tinfo'[u].ctx # None /\ tinfo'[u].draw \in Win /\ tinfo'[u].read \in Win)
  BY <1>3 DEF BindInv, Known
<1>7. WindowsKnowContext'
  <2>1. PICK ok \in BOOLEAN :
          win' = Surviving(BindBoth(win, bd, br, b.ctx, ok), windows, tinfo')
    BY DEF MakeCurrent
  <2> DEFINE wn == BindBoth(win, bd, br, b.ctx, ok)
  <2>2. /\ wn \in [Win -> WinRec]
        /\ \A v \in Win \ {bd, br} : wn[v] = win[v]
        /\ (bd # None /\ br # None) => wn[bd].dctx = b.ctx /\ wn[br].rctx = b.ctx
    <3>1. b.ctx \in Ctx \cup {None}
      BY DEF Binding
    <3> QED
      BY <1>2, <3>1, BindBothType
  <2> HIDE DEF wn
  <2>3. \A w \in LiveWin(windows, tinfo') \cap Win : win'[w] = wn[w]
    BY <2>1, <2>2, SurvivingType DEF wn
  <2>4. ASSUME NEW u \in Thread, tinfo'[u].ctx # None
        PROVE  /\ win'[tinfo'[u].draw].dctx = tinfo'[u].ctx
               /\ win'[tinfo'[u].read].rctx = tinfo'[u].ctx
    <3>1. tinfo'[u].draw \in Win /\ tinfo'[u].read \in Win
      BY <1>6, <2>4 DEF NoBinding
    <3>2. {tinfo'[u].draw, tinfo'[u].read} \subseteq LiveWin(windows, tinfo') \cap Win
      BY <3>1 DEF LiveWin
    <3>3. win'[tinfo'[u].draw] = wn[tinfo'[u].draw] /\ win'[tinfo'[u].read] = wn[tinfo'[u].read]
      BY <2>3, <3>2
    <3>4. CASE u = t
      BY <1>3, <2>2, <2>4, <3>1, <3>3, <3>4 DEF NoBinding
    <3>5. CASE u # t
      <4>1. tinfo'[u] = tinfo[u]
        BY <1>3, <3>5
      <4>2. tinfo[u].draw \notin {bd, br} /\ tinfo[u].read \notin {bd, br}
        <5>1. tinfo[u].draw # None /\ tinfo[u].read # None
          BY <3>1, <4>1
        <5>2. CASE bd = b.draw /\ br = b.read
          BY <1>4, <3>5, <5>1, <5>2, Zenon
        <5>3. CASE bd = tinfo[t].draw /\ br = tinfo[t].read
          <6>1. {tinfo[t].draw, tinfo[t].read} \cap {tinfo[u].draw, tinfo[u].read} \subseteq {None}
            BY <3>5, Zenon DEF BindInv, Known, CurrentAgrees
          <6> QED
            BY <5>1, <5>3, <6>1, Zenon
        <5> QED
          BY <5>2, <5>3, Zenon
      <4>3. wn[tinfo[u].draw] = win[tinfo[u].draw] /\ wn[tinfo[u].read] = win[tinfo[u].read]
        BY <2>2, <3>1, <4>1, <4>2
      <4> QED
        <5>1. /\ win[tinfo[u].draw].dctx = tinfo[u].ctx
              /\ win[tinfo[u].read].rctx = tinfo[u].ctx
          BY <2>4, <4>1, Zenon DEF BindInv, Known, WindowsKnowContext
        <5> QED
          BY <3>3, <4>1, <4>3, <5>1, Zenon
    <3> QED
      BY <3>4, <3>5
  <2>5. ASSUME NEW u \in Thread, tinfo'[u].ctx # None
        PROVE  Decoder(u)' = tinfo'[u].ctx
    <3>1. /\ dec' = [dec EXCEPT ![t] = SetContextData(@, b.ctx)]
          /\ dec \in [Thread -> [gl1 : Ctx \cup {None}, gl2 : Ctx \cup {None}]]
      BY DEF MakeCurrent, BindInv, TypeOK
    <3>2. CASE u = t
      BY <1>3, <2>5, <3>1, <3>2 DEF Decoder, SetContextData
    <3>3. CASE u # t
      BY <1>3, <2>5, <3>1, <3>3 DEF Decoder, BindInv, Known, WindowsKnowContext
    <3> QED
      BY <3>2, <3>3
  <2> QED
    BY <2>4, <2>5 DEF WindowsKnowContext
<1> QED
  BY <1>5, <1>6, <1>7 DEF Known

\* Every step keeps the bindings consistent, as long as EGL does not fail and no
\* thread resizes a window that another one has current.
LEMMA BindStep ==
  ASSUME EglFails = FALSE, CrossThread = FALSE, BindInv, [Next]_vars
  PROVE  BindInv'
<1>0. TypeOK'
  BY TypeStep DEF BindInv
<1> SUFFICES Known'
  BY <1>0 DEF BindInv
<1> USE FrameBufferAssumption DEF vars, mapVars, bindVars, postVars
<1>1. ASSUME UNCHANGED bindVars PROVE Known'
  BY <1>1, WindowsStay
<1>2. ASSUME NEW h \in Handle,
             \/ \E b \in Buf : CreateColorBuffer(h, b)
             \/ OpenColorBuffer(h) \/ CloseColorBuffer(h) \/ Post(h)
             \/ \E c \in Ctx, s \in Handle \cup {0} : CreateRenderContext(h, c, s)
             \/ DestroyRenderContext(h)
      PROVE UNCHANGED bindVars
  BY <1>2 DEF CreateColorBuffer, OpenColorBuffer, CloseColorBuffer, Post,
              CreateRenderContext, DestroyRenderContext
<1>3. ASSUME NEW h \in Handle, NEW w \in Win, NEW size \in WinSizes,
             CreateWindowSurface(h, w, size) PROVE Known'
  <2>1. \A t \in Thread : w \notin {tinfo[t].draw, tinfo[t].read}
    BY <1>3 DEF CreateWindowSurface, LiveWin
  <2>2. \A v \in Win \ {w} : win'[v] = win[v]
    BY <1>3 DEF CreateWindowSurface, BindInv, TypeOK
  <2>3. UNCHANGED <<tinfo, dec, egl, orphan>>
    BY <1>3 DEF CreateWindowSurface
  <2> QED
    BY <2>1, <2>2, <2>3, WindowsStay
<1>4. ASSUME NEW h \in Handle, DestroyWindowSurface(h) PROVE Known'
  <2>1. win \in [Win -> WinRec]
    BY DEF BindInv, TypeOK, WinRec
  <2>2. \A w \in LiveWin(windows', tinfo) \cap Win : win'[w] = win[w]
    <3>1. win' = Surviving(win, windows', tinfo)
      BY <1>4 DEF DestroyWindowSurface
    <3> QED
      BY <2>1, <3>1, Zenon DEF Surviving
  <2>3. ASSUME NEW w \in Win, NEW t \in Thread, w \in {tinfo[t].draw, tinfo[t].read}
        PROVE  w \in LiveWin(windows', tinfo)
    <3>1. w \in {tinfo[t].draw, tinfo[t].read} \ {None}
      BY <2>3, FrameBufferAssumption
    <3> QED
      BY <3>1, Zenon DEF LiveWin
  <2>4. UNCHANGED <<tinfo, dec, egl, orphan>>
    BY <1>4 DEF DestroyWindowSurface
  <2> QED
    BY <2>2, <2>3, <2>4, WindowsStay
<1>5. ASSUME NEW t \in Thread, NEW hw \in Handle, NEW hc \in Handle,
             SetWindowColorBuffer(t, hw, hc) PROVE Known'
  <2> DEFINE w == windows[hw]
             b == colorbuffers[hc].cb
  <2>1. w \in Win /\ b \in Buf /\ win[w] \in WinRec
    <3>1. /\ windows \in [Handle -> Win \cup {None}] /\ colorbuffers \in [Handle -> Entry]
          /\ win \in [Win -> WinRec]
      BY Zenon DEF BindInv, TypeOK, WinRec
    <3>2. w # None /\ b # None
      BY <1>5, Zenon DEF SetWindowColorBuffer
    <3> QED
      BY <3>1, <3>2 DEF Entry, NoEntry
  <2>2. PICK ok \in BOOLEAN : /\ ok \/ (EglFails /\ NeedsResize(win[w], b))
                              /\ win' = [win EXCEPT ![w] = Attach(win[w], b, ok)]
                              /\ egl' = IF ~ok /\ win[w].surf # NoSurface /\ HasCurrent(t, w)
                                          THEN [egl EXCEPT ![t] = NoBinding] ELSE egl
    BY <1>5, Zenon DEF SetWindowColorBuffer
  <2>3. egl' = egl
    BY <2>2
  <2>4. tinfo' = tinfo /\ dec' = dec /\ orphan' = orphan
    BY <1>5 DEF SetWindowColorBuffer, BindInv, Known, CurrentAgrees
  <2>5. \A v \in Win : win'[v].dctx = win[v].dctx /\ win'[v].rctx = win[v].rctx
    <3>1. /\ Attach(win[w], b, ok).dctx = win[w].dctx
          /\ Attach(win[w], b, ok).rctx = win[w].rctx
      BY <2>1, <2>2, AttachType
    <3>2. win'[w] = Attach(win[w], b, ok) /\ \A v \in Win \ {w} : win'[v] = win[v]
      BY <2>1, <2>2 DEF BindInv, TypeOK
    <3> QED
      BY <2>1, <3>1, <3>2
  <2> QED
    BY <2>3, <2>4, <2>5, WindowsStay
<1>6. ASSUME NEW t \in Thread, NEW hc \in Handle, NEW hd \in Handle, NEW hr \in Handle,
             BindContext(t, hc, hd, hr) PROVE Known'
  <2> DEFINE b == [ctx |-> contexts[hc], draw |-> windows[hd], read |-> windows[hr]]
  <2>1. b \in Binding /\ b.ctx # None /\ b.draw \in Win /\ b.read \in Win
    BY <1>6 DEF BindContext, Binding, BindInv, TypeOK
  <2>2. EglMakeCurrent(t, b) /\ MakeCurrent(t, b, b.draw, b.read)
    BY <1>6 DEF BindContext
  <2> HIDE DEF b
  <2> QED
    BY <2>1, <2>2, MakeCurrentStep
<1>7. ASSUME NEW t \in Thread, Unbind(t) PROVE Known'
  <2>1. NoBinding \in Binding /\ tinfo[t].draw \in Win \cup {None}
        /\ tinfo[t].read \in Win \cup {None}
    BY DEF Binding, NoBinding, BindInv, TypeOK
  <2>2. MakeCurrent(t, NoBinding, tinfo[t].draw, tinfo[t].read)
    BY <1>7 DEF Unbind
  <2> QED
    BY <2>1, <2>2, MakeCurrentStep
<1>8. ASSUME RepostRead \/ RepostPost \/ SetupSubWindow \/ RemoveSubWindow \/ UNCHANGED vars
      PROVE UNCHANGED bindVars
  BY <1>8 DEF RepostRead, RepostPost, SetupSubWindow, RemoveSubWindow
<1>9. CASE Reinitialize
  <2>1. \A t \in Thread : tinfo[t] = NoBinding
    BY <1>9 DEF Reinitialize
  <2>2. UNCHANGED <<tinfo, dec, egl, orphan>>
    BY <1>9 DEF Reinitialize
  <2>3. \A w \in Win, t \in Thread : w \notin {tinfo[t].draw, tinfo[t].read}
    BY <2>1 DEF NoBinding
  <2> QED
    BY <2>2, <2>3, WindowsStay
<1> QED
  BY <1>1, <1>2, <1>3, <1>4, <1>5, <1>6, <1>7, <1>8, <1>9 DEF Next, Named

\* What bindContext maintains, of the threads, the windows and EGL together.
THEOREM BindInvariance ==
  ASSUME EglFails = FALSE, CrossThread = FALSE PROVE Spec => []BindInv
<1>1. Init => BindInv
  <2> SUFFICES ASSUME Init PROVE BindInv
    OBVIOUS
  <2>1. /\ tinfo = [t \in Thread |-> NoBinding] /\ egl = [t \in Thread |-> NoBinding]
        /\ orphan = {}
    BY Zenon DEF Init
  <2>2. Known
    BY <2>1 DEF Known, CurrentAgrees, WindowsKnowContext, NoBinding
  <2> QED
    BY InitType, <2>2 DEF BindInv
<1>2. BindInv /\ [Next]_vars => BindInv'
  BY BindStep
<1> QED
  BY <1>1, <1>2, PTL DEF Spec

\* RenderThreadInfo and EGL agree on what is current, and no two threads share it.
THEOREM BindingsAgree ==
  ASSUME EglFails = FALSE, CrossThread = FALSE PROVE Spec => []CurrentAgrees
<1>1. Spec => []BindInv
  BY BindInvariance
<1>2. BindInv => CurrentAgrees
  BY DEF BindInv, Known
<1> QED
  BY <1>1, <1>2, PTL

\* A current window knows the context of its thread, and so does the decoder.
THEOREM WindowsAgree ==
  ASSUME EglFails = FALSE, CrossThread = FALSE PROVE Spec => []WindowsKnowContext
<1>1. Spec => []BindInv
  BY BindInvariance
<1>2. BindInv => WindowsKnowContext
  BY DEF BindInv, Known
<1> QED
  BY <1>1, <1>2, PTL

----------------------------------------------------------------------------
(* What is left of that when EGL may fail.                                  *)

\* Besides CurrentIsReal, EGL has two windows current in a thread, or nothing.
Real ==
  /\ CurrentIsReal
  /\ \A t \in Thread : egl[t] = NoBinding \/ (egl[t].draw \in Win /\ egl[t].read \in Win)

RealInv == TypeOK /\ Real

\* Nothing is bound and the current windows keep their surfaces.
LEMMA SurfacesStay ==
  ASSUME RealInv, UNCHANGED <<tinfo, egl>>,
         \A w \in Win : (\E t \in Thread : w \in {tinfo[t].draw, tinfo[t].read}) =>
            win'[w].surf = win[w].surf
  PROVE  Real'
<1>1. ASSUME NEW t \in Thread, egl[t] # NoBinding
      PROVE  win'[egl[t].draw].surf # NoSurface /\ win'[egl[t].read].surf # NoSurface
  <2>1. /\ egl[t].draw \in Win /\ egl[t].read \in Win /\ egl[t] = tinfo[t]
        /\ win[egl[t].draw].surf # NoSurface /\ win[egl[t].read].surf # NoSurface
    BY <1>1 DEF RealInv, Real, CurrentIsReal
  <2> QED
    BY <2>1
<1> QED
  BY <1>1 DEF RealInv, Real, CurrentIsReal

\* bindContext, where EGL checks that the windows have surfaces.
LEMMA MakeCurrentReal ==
  ASSUME RealInv, NEW t \in Thread, NEW b \in Binding,
         NEW bd \in Win \cup {None}, NEW br \in Win \cup {None},
         MakeCurrent(t, b, bd, br),
         b = NoBinding \/ (b.draw \in Win /\ b.read \in Win /\ EglMakeCurrent(t, b))
  PROVE  Real'
<1>1. /\ tinfo \in [Thread -> Binding] /\ egl \in [Thread -> Binding] /\ win \in [Win -> WinRec]
      /\ egl' = [egl EXCEPT ![t] = b] /\ tinfo' = [tinfo EXCEPT ![t] = b]
  <2>1. tinfo \in [Thread -> Binding] /\ egl \in [Thread -> Binding] /\ win \in [Win -> WinRec]
    BY Zenon DEF RealInv, TypeOK, WinRec
  <2> QED
    BY <2>1, Zenon DEF MakeCurrent
<1>2. PICK ok \in BOOLEAN :
        win' = Surviving(BindBoth(win, bd, br, b.ctx, ok), windows, tinfo')
  BY DEF MakeCurrent
<1> DEFINE wn == BindBoth(win, bd, br, b.ctx, ok)
<1>3. wn \in [Win -> WinRec] /\ \A v \in Win : wn[v].surf = win[v].surf
  <2>1. b.ctx \in Ctx \cup {None} /\ win \in [Win -> WinRec]
    BY <1>1 DEF Binding
  <2>2. wn \in [Win -> WinRec]
    BY <2>1, BindBothType
  <2>3. SameSurfaces(wn, win)
    BY <2>1, BindSurface
  <2> HIDE DEF wn
  <2> QED
    BY <2>2, <2>3 DEF SameSurfaces
<1>4. \A w \in LiveWin(windows, tinfo') \cap Win : win'[w] = wn[w]
  <2>1. win' = Surviving(wn, windows, tinfo')
    BY <1>2, Zenon
  <2> HIDE DEF wn
  <2> QED
    BY <1>3, <2>1, Zenon DEF Surviving
<1> HIDE DEF wn
<1>5. ASSUME NEW u \in Thread, egl'[u] # NoBinding
      PROVE  /\ egl'[u] = tinfo'[u] /\ egl'[u].draw \in Win /\ egl'[u].read \in Win
             /\ win'[egl'[u].draw].surf # NoSurface /\ win'[egl'[u].read].surf # NoSurface
  <2>1. /\ egl'[u] = tinfo'[u] /\ egl'[u].draw \in Win /\ egl'[u].read \in Win
        /\ win[egl'[u].draw].surf # NoSurface /\ win[egl'[u].read].surf # NoSurface
    <3>1. CASE u = t
      <4>1. egl'[u] = b /\ tinfo'[u] = b
        BY <1>1, <3>1
      <4> QED
        BY <1>5, <4>1 DEF EglMakeCurrent
    <3>2. CASE u # t
      <4>1. egl'[u] = egl[u] /\ tinfo'[u] = tinfo[u]
        BY <1>1, <3>2
      <4> QED
        BY <1>5, <4>1 DEF RealInv, Real, CurrentIsReal
    <3> QED
      BY <3>1, <3>2
  <2>2. {tinfo'[u].draw, tinfo'[u].read} \subseteq LiveWin(windows, tinfo') \cap Win
    BY <2>1, FrameBufferAssumption DEF LiveWin
  <2>3. win'[egl'[u].draw] = wn[egl'[u].draw] /\ win'[egl'[u].read] = wn[egl'[u].read]
    BY <1>4, <2>1, <2>2
  <2> QED
    BY <1>3, <2>1, <2>3
<1> QED
  BY <1>5, Zenon DEF Real, CurrentIsReal

\* setColorBuffer: a resize that fails leaves nothing current in its own thread.
LEMMA AttachReal ==
  ASSUME CrossThread = FALSE, RealInv, NEW t \in Thread, NEW hw \in Handle, NEW hc \in Handle,
         SetWindowColorBuffer(t, hw, hc)
  PROVE  Real'
<1> DEFINE w == windows[hw]
           b == colorbuffers[hc].cb
<1>1. /\ w \in Win /\ b \in Buf /\ win[w] \in WinRec
      /\ win \in [Win -> WinRec] /\ egl \in [Thread -> Binding]
  <2>1. /\ windows \in [Handle -> Win \cup {None}] /\ colorbuffers \in [Handle -> Entry]
        /\ win \in [Win -> WinRec] /\ egl \in [Thread -> Binding]
    BY Zenon DEF RealInv, TypeOK, WinRec
  <2>2. w # None /\ b # None
    BY Zenon DEF SetWindowColorBuffer
  <2> QED
    BY <2>1, <2>2 DEF Entry, NoEntry
<1>2. PICK ok \in BOOLEAN : /\ ok \/ (EglFails /\ NeedsResize(win[w], b))
                            /\ win' = [win EXCEPT ![w] = Attach(win[w], b, ok)]
                            /\ egl' = IF ~ok /\ win[w].surf # NoSurface /\ HasCurrent(t, w)
                                        THEN [egl EXCEPT ![t] = NoBinding] ELSE egl
  BY Zenon DEF SetWindowColorBuffer
<1>3. tinfo' = tinfo /\ \A u \in Thread \ {t} : HasCurrent(u, w) => win[w].surf = NoSurface
  BY DEF SetWindowColorBuffer
<1> HIDE DEF w, b
<1>4. win'[w] = Attach(win[w], b, ok) /\ \A v \in Win \ {w} : win'[v] = win[v]
  BY <1>1, <1>2
<1>5. ASSUME NEW u \in Thread, egl'[u] # NoBinding
      PROVE  /\ egl'[u] = egl[u]
             /\ ok \/ ~HasCurrent(u, w)
  <2>1. egl'[u] = egl[u]
    BY <1>1, <1>2, <1>5
  <2>2. HasCurrent(u, w) => win[w].surf # NoSurface
    BY <1>5, <2>1 DEF RealInv, Real, CurrentIsReal, HasCurrent
  <2>3. u = t /\ ~ok /\ HasCurrent(u, w) => egl'[u] = NoBinding
    BY <1>1, <1>2, <2>2
  <2> QED
    BY <1>3, <1>5, <2>1, <2>2, <2>3
<1>6. ASSUME NEW u \in Thread, egl'[u] # NoBinding, NEW v \in {egl[u].draw, egl[u].read}
      PROVE  v \in Win /\ win'[v].surf # NoSurface
  <2>1. egl[u] # NoBinding /\ (ok \/ ~HasCurrent(u, w))
    BY <1>5, <1>6
  <2>2. v \in Win /\ win[v].surf # NoSurface
    BY <1>6, <2>1 DEF RealInv, Real, CurrentIsReal
  <2>3. CASE v # w
    BY <1>4, <2>2, <2>3
  <2>4. CASE v = w
    <3>1. ok
      BY <1>6, <2>1, <2>4 DEF HasCurrent
    <3> QED
      BY <1>1, <1>4, <2>2, <2>4, <3>1, AttachSurface
  <2> QED
    BY <2>3, <2>4
<1>7. ASSUME NEW u \in Thread, egl'[u] # NoBinding
      PROVE  egl'[u] = egl[u] /\ egl'[u] = tinfo'[u]
  BY <1>3, <1>5, <1>7 DEF RealInv, Real, CurrentIsReal
<1> QED
  BY <1>6, <1>7 DEF Real, CurrentIsReal

\* Every step, as long as no thread resizes a window that another one has current.
LEMMA RealStep ==
  ASSUME CrossThread = FALSE, RealInv, [Next]_vars
  PROVE  RealInv'
<1>0. TypeOK'
  BY TypeStep DEF RealInv
<1> SUFFICES Real'
  BY <1>0 DEF RealInv
<1> USE DEF vars, mapVars, bindVars, postVars
<1>1. ASSUME UNCHANGED <<win, tinfo, egl>> PROVE Real'
  BY <1>1, SurfacesStay
<1>2. ASSUME NEW h \in Handle,
             \/ \E b \in Buf : CreateColorBuffer(h, b)
             \/ OpenColorBuffer(h) \/ CloseColorBuffer(h) \/ Post(h)
             \/ \E c \in Ctx, s \in Handle \cup {0} : CreateRenderContext(h, c, s)
             \/ DestroyRenderContext(h)
      PROVE UNCHANGED <<win, tinfo, egl>>
  BY <1>2 DEF CreateColorBuffer, OpenColorBuffer, CloseColorBuffer, Post,
              CreateRenderContext, DestroyRenderContext
<1>3. ASSUME NEW h \in Handle, NEW w \in Win, NEW size \in WinSizes,
             CreateWindowSurface(h, w, size) PROVE Real'
  <2>1. \A t \in Thread : w \notin {tinfo[t].draw, tinfo[t].read}
    BY <1>3, FrameBufferAssumption DEF CreateWindowSurface, LiveWin
  <2>2. \A v \in Win \ {w} : win'[v] = win[v]
    BY <1>3 DEF CreateWindowSurface, RealInv, TypeOK
  <2>3. UNCHANGED <<tinfo, egl>>
    BY <1>3 DEF CreateWindowSurface
  <2> QED
    BY <2>1, <2>2, <2>3, SurfacesStay
<1>4. ASSUME NEW h \in Handle, DestroyWindowSurface(h) PROVE Real'
  <2>1. win \in [Win -> WinRec]
    BY DEF RealInv, TypeOK, WinRec
  <2>2. \A w \in LiveWin(windows', tinfo) \cap Win : win'[w] = win[w]
    <3>1. win' = Surviving(win, windows', tinfo)
      BY <1>4 DEF DestroyWindowSurface
    <3> QED
      BY <2>1, <3>1, Zenon DEF Surviving
  <2>3. ASSUME NEW w \in Win, NEW t \in Thread, w \in {tinfo[t].draw, tinfo[t].read}
        PROVE  w \in LiveWin(windows', tinfo)
    <3>1. w \in {tinfo[t].draw, tinfo[t].read} \ {None}
      BY <2>3, FrameBufferAssumption
    <3> QED
      BY <3>1, Zenon DEF LiveWin
  <2>4. UNCHANGED <<tinfo, egl>>
    BY <1>4 DEF DestroyWindowSurface
  <2> QED
    BY <2>2, <2>3, <2>4, SurfacesStay
<1>5. ASSUME NEW t \in Thread, NEW hc \in Handle, NEW hd \in Handle, NEW hr \in Handle,
             BindContext(t, hc, hd, hr) PROVE Real'
  <2> DEFINE b == [ctx |-> contexts[hc], draw |-> windows[hd], read |-> windows[hr]]
  <2>1. b \in Binding /\ b.draw \in Win /\ b.read \in Win
    BY <1>5 DEF BindContext, Binding, RealInv, TypeOK
  <2>2. EglMakeCurrent(t, b) /\ MakeCurrent(t, b, b.draw, b.read)
    BY <1>5 DEF BindContext
  <2> HIDE DEF b
  <2> QED
    BY <2>1, <2>2, MakeCurrentReal
<1>6. ASSUME NEW t \in Thread, Unbind(t) PROVE Real'
  <2>1. NoBinding \in Binding /\ tinfo[t].draw \in Win \cup {None}
        /\ tinfo[t].read \in Win \cup {None}
    BY DEF Binding, NoBinding, RealInv, TypeOK
  <2>2. MakeCurrent(t, NoBinding, tinfo[t].draw, tinfo[t].read)
    BY <1>6 DEF Unbind
  <2> QED
    BY <2>1, <2>2, MakeCurrentReal
<1>7. ASSUME RepostRead \/ RepostPost \/ SetupSubWindow \/ RemoveSubWindow \/ UNCHANGED vars
      PROVE UNCHANGED <<win, tinfo, egl>>
  BY <1>7 DEF RepostRead, RepostPost, SetupSubWindow, RemoveSubWindow
<1>8. CASE Reinitialize
  <2>1. UNCHANGED <<tinfo, egl>> /\ \A t \in Thread : tinfo[t] = NoBinding
    BY <1>8 DEF Reinitialize
  <2>2. \A w \in Win, t \in Thread : w \notin {tinfo[t].draw, tinfo[t].read}
    <3>1. NoBinding.draw = None /\ NoBinding.read = None /\ None \notin Win
      BY FrameBufferAssumption DEF NoBinding
    <3> QED
      BY <2>1, <3>1, Zenon
  <2> QED
    BY <2>1, <2>2, SurfacesStay
<1>9. ASSUME NEW t \in Thread, NEW hw \in Handle, NEW hc \in Handle,
             SetWindowColorBuffer(t, hw, hc) PROVE Real'
  BY <1>9, AttachReal
<1> QED
  BY <1>1, <1>2, <1>3, <1>4, <1>5, <1>6, <1>7, <1>8, <1>9 DEF Next, Named

\* Whatever EGL refuses, a thread has current what its record says, or nothing.
THEOREM FailureContained ==
  ASSUME CrossThread = FALSE PROVE Spec => []CurrentIsReal
<1>1. Init => RealInv
  <2> SUFFICES ASSUME Init PROVE RealInv
    OBVIOUS
  <2>1. egl = [t \in Thread |-> NoBinding]
    BY Zenon DEF Init
  <2>2. Real
    BY <2>1 DEF Real, CurrentIsReal
  <2> QED
    BY InitType, <2>2 DEF RealInv
<1>2. RealInv /\ [Next]_vars => RealInv'
  BY RealStep
<1>3. RealInv => CurrentIsReal
  BY DEF RealInv, Real
<1> QED
  BY <1>1, <1>2, <1>3, PTL DEF Spec

----------------------------------------------------------------------------
(* Surfaces and attached buffers.                                           *)

FitInv == TypeOK /\ \A w \in Win : Fits(win[w])

\* Windows that are deleted have neither surface nor buffer.
LEMMA SurvivingFits ==
  ASSUME NEW wn \in [Win -> WinRec], NEW ws, NEW ti, \A w \in Win : Fits(wn[w])
  PROVE  \A w \in Win : Fits(Surviving(wn, ws, ti)[w])
<1>1. Fits(NoWindow)
  BY DEF Fits, NoWindow, NoSurface
<1> QED
  BY <1>1, Zenon DEF Surviving

\* Binding changes neither sizes nor surfaces.
LEMMA MakeCurrentFits ==
  ASSUME FitInv, NEW t \in Thread, NEW b \in Binding,
         NEW bd \in Win \cup {None}, NEW br \in Win \cup {None}, MakeCurrent(t, b, bd, br)
  PROVE  \A w \in Win : Fits(win'[w])
<1>1. PICK ok \in BOOLEAN :
        win' = Surviving(BindBoth(win, bd, br, b.ctx, ok), windows, tinfo')
  BY DEF MakeCurrent
<1> DEFINE wn == BindBoth(win, bd, br, b.ctx, ok)
<1>2. b.ctx \in Ctx \cup {None} /\ win \in [Win -> WinRec]
  BY DEF FitInv, TypeOK, WinRec, Binding
<1>3. wn \in [Win -> WinRec]
  BY <1>2, BindBothType
<1>4. SameSurfaces(wn, win)
  BY <1>2, BindSurface
<1>5. win' = Surviving(wn, windows, tinfo')
  BY <1>1, Zenon
<1> HIDE DEF wn
<1>6. \A w \in Win : Fits(wn[w])
  BY <1>4 DEF FitInv, SameSurfaces, Fits
<1> QED
  BY <1>3, <1>5, <1>6, SurvivingFits

\* Every step keeps the sizes in step, also a resize in another thread's window.
LEMMA FitStep == ASSUME FitInv, [Next]_vars PROVE FitInv'
<1>0. TypeOK'
  BY TypeStep DEF FitInv
<1> SUFFICES \A w \in Win : Fits(win'[w])
  <2>1. (\A w \in Win : Fits(win'[w])) => (\A w \in Win : Fits(win[w]))'
    BY DEF Fits
  <2> QED
    BY <1>0, <2>1 DEF FitInv
<1> USE DEF vars, mapVars, bindVars, postVars
<1>1. ASSUME UNCHANGED win PROVE \A w \in Win : Fits(win'[w])
  BY <1>1, Zenon DEF FitInv
<1>2. ASSUME NEW h \in Handle,
             \/ \E b \in Buf : CreateColorBuffer(h, b)
             \/ OpenColorBuffer(h) \/ CloseColorBuffer(h) \/ Post(h)
             \/ \E c \in Ctx, s \in Handle \cup {0} : CreateRenderContext(h, c, s)
             \/ DestroyRenderContext(h)
      PROVE UNCHANGED win
  BY <1>2 DEF CreateColorBuffer, OpenColorBuffer, CloseColorBuffer, Post,
              CreateRenderContext, DestroyRenderContext
<1>3. ASSUME NEW h \in Handle, NEW w \in Win, NEW size \in WinSizes,
             CreateWindowSurface(h, w, size) PROVE \A v \in Win : Fits(win'[v])
  <2> DEFINE new == [NoWindow EXCEPT !.size = size, !.pbuf = size, !.surf = size]
  <2>1. Fits(new)
    BY DEF Fits, NoWindow, NoSurface
  <2>2. win' = [win EXCEPT ![w] = new] /\ win \in [Win -> WinRec]
    BY <1>3 DEF CreateWindowSurface, FitInv, TypeOK, WinRec
  <2> HIDE DEF new
  <2>3. win'[w] = new /\ \A v \in Win \ {w} : win'[v] = win[v]
    BY <2>2
  <2> QED
    BY <2>1, <2>3, Zenon DEF FitInv
<1>4. ASSUME NEW h \in Handle, DestroyWindowSurface(h) PROVE \A w \in Win : Fits(win'[w])
  <2>1. win \in [Win -> WinRec] /\ \A w \in Win : Fits(win[w])
    BY DEF FitInv, TypeOK, WinRec
  <2>2. win' = Surviving(win, windows', tinfo)
    BY <1>4 DEF DestroyWindowSurface
  <2> QED
    BY <2>1, <2>2, SurvivingFits
<1>5. ASSUME NEW t \in Thread, NEW hc \in Handle, NEW hd \in Handle, NEW hr \in Handle,
             BindContext(t, hc, hd, hr) PROVE \A w \in Win : Fits(win'[w])
  <2> DEFINE b == [ctx |-> contexts[hc], draw |-> windows[hd], read |-> windows[hr]]
  <2>1. b \in Binding /\ b.draw \in Win /\ b.read \in Win
    BY <1>5 DEF BindContext, Binding, FitInv, TypeOK
  <2>2. MakeCurrent(t, b, b.draw, b.read)
    BY <1>5 DEF BindContext
  <2> HIDE DEF b
  <2> QED
    BY <2>1, <2>2, MakeCurrentFits
<1>6. ASSUME NEW t \in Thread, Unbind(t) PROVE \A w \in Win : Fits(win'[w])
  <2>1. NoBinding \in Binding /\ tinfo[t].draw \in Win \cup {None}
        /\ tinfo[t].read \in Win \cup {None}
    BY DEF Binding, NoBinding, FitInv, TypeOK
  <2>2. MakeCurrent(t, NoBinding, tinfo[t].draw, tinfo[t].read)
    BY <1>6 DEF Unbind
  <2> QED
    BY <2>1, <2>2, MakeCurrentFits
<1>7. ASSUME RepostRead \/ RepostPost \/ SetupSubWindow \/ RemoveSubWindow \/ UNCHANGED vars
      PROVE UNCHANGED win
  BY <1>7 DEF RepostRead, RepostPost, SetupSubWindow, RemoveSubWindow
<1>8. CASE Reinitialize
  <2>1. \A w \in Win : win'[w] = NoWindow
    BY <1>8 DEF Reinitialize
  <2>2. Fits(NoWindow)
    BY DEF Fits, NoWindow, NoSurface
  <2> QED
    BY <2>1, <2>2, Zenon
<1>9. ASSUME NEW t \in Thread, NEW hw \in Handle, NEW hc \in Handle,
             SetWindowColorBuffer(t, hw, hc) PROVE \A w \in Win : Fits(win'[w])
  <2> DEFINE w == windows[hw]
             b == colorbuffers[hc].cb
  <2>1. w \in Win /\ b \in Buf /\ win \in [Win -> WinRec]
    <3>1. /\ windows \in [Handle -> Win \cup {None}] /\ colorbuffers \in [Handle -> Entry]
          /\ win \in [Win -> WinRec]
      BY Zenon DEF FitInv, TypeOK, WinRec
    <3>2. w # None /\ b # None
      BY <1>9, Zenon DEF SetWindowColorBuffer
    <3>3. \A e \in Entry : e.cb \in Buf \cup {None}
      BY DEF Entry, NoEntry
    <3> QED
      BY <3>1, <3>2, <3>3, Zenon
  <2>2. PICK ok \in BOOLEAN : win' = [win EXCEPT ![w] = Attach(win[w], b, ok)]
    BY <1>9, Zenon DEF SetWindowColorBuffer
  <2> HIDE DEF w, b
  <2>3. win'[w] = Attach(win[w], b, ok) /\ \A v \in Win \ {w} : win'[v] = win[v]
    BY <2>1, <2>2
  <2>4. win[w] \in WinRec /\ Fits(win[w])
    BY <2>1 DEF FitInv
  <2>5. Fits(Attach(win[w], b, ok))
    BY <2>1, <2>4, AttachFits
  <2> QED
    BY <2>3, <2>5, Zenon DEF FitInv
<1> QED
  BY <1>1, <1>2, <1>3, <1>4, <1>5, <1>6, <1>7, <1>8, <1>9, Zenon DEF Next, Named

\* A pbuffer with an area has the size of the attached buffer, whatever failed before.
THEOREM SurfacesFit == Spec => []SurfaceFitsBuffer
<1>1. Init => FitInv
  <2> SUFFICES ASSUME Init PROVE FitInv
    OBVIOUS
  <2>1. \A w \in Win : win[w] = NoWindow
    BY DEF Init
  <2>2. Fits(NoWindow)
    BY DEF Fits, NoWindow, NoSurface
  <2> QED
    BY InitType, <2>1, <2>2, Zenon DEF FitInv
<1>2. FitInv /\ [Next]_vars => FitInv'
  BY FitStep
<1>3. FitInv => SurfaceFitsBuffer
  BY DEF FitInv, Fits, SurfaceFitsBuffer
<1> QED
  BY <1>1, <1>2, <1>3, PTL DEF Spec

----------------------------------------------------------------------------
(* References and posting.                                                  *)

\* What the counting and the posting rest on: handles the counter has not reached
\* are unused, no buffer has two handles, and unless a repost was overtaken the last
\* posted handle names what was posted last, or nothing.
Counted ==
  /\ RefcountIsClients /\ ShowsLastPosted
  /\ \A h \in Handle : h > nextHandle => colorbuffers[h] = NoEntry
  /\ lastPosted <= nextHandle
  /\ \A h, k \in Handle :
       h # k /\ colorbuffers[h].cb # None => colorbuffers[h].cb # colorbuffers[k].cb
  /\ ~behind /\ lastPosted # 0 => colorbuffers[lastPosted].cb \in {posted, None}

PostInv == TypeOK /\ Counted

\* Nothing that is counted or posted changes; the handle counter may go on.
LEMMA CountedKept ==
  ASSUME Counted, nextHandle \in Nat, nextHandle' \in Nat, lastPosted \in Nat, Handle \subseteq Nat,
         nextHandle' >= nextHandle, UNCHANGED <<colorbuffers, refs, lastPosted, posted, behind, shown>>
  PROVE  Counted'
<1>1. lastPosted' <= nextHandle'
  BY DEF Counted
<1>2. \A h \in Handle : h > nextHandle' => colorbuffers'[h] = NoEntry
  BY DEF Counted
<1>3. RefcountIsClients' /\ ShowsLastPosted'
  BY DEF Counted, RefcountIsClients, ShowsLastPosted
<1> QED
  BY <1>1, <1>2, <1>3, Zenon DEF Counted

\* The operations on color buffers keep the count, as long as the handle counter
\* does not wrap around.
LEMMA BufferCountStep ==
  ASSUME Wraps = FALSE, PostInv, NEW h \in Handle,
         \/ \E b \in Buf : CreateColorBuffer(h, b)
         \/ OpenColorBuffer(h) \/ CloseColorBuffer(h) \/ Post(h)
  PROVE  Counted'
<1>t. /\ colorbuffers \in [Handle -> Entry] /\ refs \in [Handle -> Nat]
      /\ nextHandle \in 0 .. W - 1 /\ lastPosted \in 0 .. W - 1
  BY TypeParts DEF PostInv, MapType, PostType
<1>h. /\ Handle \subseteq Nat \ {0} /\ nextHandle \in Nat /\ lastPosted \in Nat
      /\ lastPosted # 0 => lastPosted \in Handle
  BY <1>t, FrameBufferAssumption DEF Handle
<1>c. /\ \A k \in Handle : colorbuffers[k].refcount = refs[k]
      /\ shown # "other"
      /\ \A k \in Handle : k > nextHandle => colorbuffers[k] = NoEntry
      /\ lastPosted <= nextHandle
      /\ ~behind /\ lastPosted # 0 => colorbuffers[lastPosted].cb \in {posted, None}
  BY DEF PostInv, Counted, RefcountIsClients, ShowsLastPosted
<1>u. \A i, k \in Handle :
        i # k /\ colorbuffers[i].cb # None => colorbuffers[i].cb # colorbuffers[k].cb
  BY DEF PostInv, Counted
<1>e. NoEntry.cb = None /\ NoEntry.refcount = 0
  BY DEF NoEntry
<1>r. \A k \in Handle : k > nextHandle => colorbuffers[k].cb = None /\ refs[k] = 0
  BY <1>c, <1>e
<1>1. ASSUME NEW b \in Buf, CreateColorBuffer(h, b) PROVE Counted'
  <2>1. /\ h > nextHandle /\ nextHandle' = h /\ refs' = [refs EXCEPT ![h] = @ + 1]
        /\ colorbuffers' = [colorbuffers EXCEPT ![h] = [cb |-> b, refcount |-> 1]]
        /\ lastPosted' = lastPosted /\ behind' = behind /\ shown' = shown
    <3>1. /\ Wraps \/ h > nextHandle
          /\ nextHandle' = h /\ refs' = [refs EXCEPT ![h] = @ + 1]
          /\ colorbuffers' = [colorbuffers EXCEPT ![h] = [cb |-> b, refcount |-> 1]]
          /\ lastPosted' = lastPosted /\ behind' = behind /\ shown' = shown
      BY <1>1, Zenon DEF CreateColorBuffer, GenHandle
    <3> QED
      BY <3>1
  <2>2. colorbuffers[h] = NoEntry /\ colorbuffers[h].cb = None /\ refs[h] = 0
    BY <1>c, <1>r, <2>1
  <2>3. posted' \in {posted, None} /\ (posted' = None => posted = None)
    <3>1. posted' = IF colorbuffers[h].cb = posted THEN None ELSE posted
      BY <1>1, Zenon DEF CreateColorBuffer
    <3> QED
      BY <2>2, <3>1, Zenon
  <2>4. \A k \in Handle : colorbuffers[k].cb # b
    <3>1. b \notin LiveBuf
      BY <1>1, Zenon DEF CreateColorBuffer
    <3>2. b # None
      BY FrameBufferAssumption
    <3> QED
      BY <3>1, <3>2, Zenon DEF LiveBuf
  <2>5. /\ colorbuffers'[h].cb = b /\ colorbuffers'[h].refcount = 1 /\ refs'[h] = 1
        /\ \A k \in Handle \ {h} : colorbuffers'[k] = colorbuffers[k] /\ refs'[k] = refs[k]
    BY <1>t, <2>1, <2>2
  <2>6. lastPosted # h /\ lastPosted' <= nextHandle'
    BY <1>h, <1>c, <2>1
  <2>7. RefcountIsClients' /\ ShowsLastPosted'
    BY <1>c, <2>1, <2>5 DEF RefcountIsClients, ShowsLastPosted
  <2>8. \A k \in Handle : k > nextHandle' => colorbuffers'[k] = NoEntry
    <3>1. ASSUME NEW k \in Handle, k > h PROVE k # h /\ k > nextHandle
      BY <1>h, <2>1, <3>1
    <3> QED
      BY <1>c, <2>1, <2>5, <3>1, Zenon
  <2>9. \A i, k \in Handle :
          i # k /\ colorbuffers'[i].cb # None => colorbuffers'[i].cb # colorbuffers'[k].cb
    <3>1. \A k \in Handle \ {h} : colorbuffers'[k].cb = colorbuffers[k].cb
      BY <2>5, Zenon
    <3>2. colorbuffers'[h].cb = b
      BY <2>5
    <3> QED
      BY <1>u, <2>4, <3>1, <3>2
  <2>10. ~behind' /\ lastPosted' # 0 => colorbuffers'[lastPosted'].cb \in {posted', None}
    BY <1>h, <1>c, <2>1, <2>3, <2>5, <2>6
  <2> QED
    BY <2>6, <2>7, <2>8, <2>9, <2>10, Zenon DEF Counted
<1>2. CASE OpenColorBuffer(h)
  <2>1. /\ colorbuffers[h].cb # None
        /\ refs' = [refs EXCEPT ![h] = @ + 1]
        /\ colorbuffers' = [colorbuffers EXCEPT ![h].refcount = @ + 1]
        /\ nextHandle' = nextHandle /\ lastPosted' = lastPosted /\ posted' = posted
        /\ behind' = behind /\ shown' = shown
    BY <1>2, Zenon DEF OpenColorBuffer, postVars
  <2>2. colorbuffers[h] \in [cb : Buf, refcount : Nat \ {0}]
    BY <1>t, <2>1 DEF Entry, NoEntry
  <2>3. /\ colorbuffers'[h].cb = colorbuffers[h].cb
        /\ colorbuffers'[h].refcount = colorbuffers[h].refcount + 1 /\ refs'[h] = refs[h] + 1
        /\ \A k \in Handle \ {h} : colorbuffers'[k] = colorbuffers[k] /\ refs'[k] = refs[k]
    BY <1>t, <2>1, <2>2
  <2>4. \A k \in Handle : colorbuffers'[k].cb = colorbuffers[k].cb
    BY <2>3
  <2>5. RefcountIsClients' /\ ShowsLastPosted'
    BY <1>c, <2>1, <2>3 DEF RefcountIsClients, ShowsLastPosted
  <2>6. \A k \in Handle : k > nextHandle' => colorbuffers'[k] = NoEntry
    <3>1. ~ (h > nextHandle)
      BY <1>c, <1>r, <2>1
    <3> QED
      BY <1>c, <2>1, <2>3, <3>1
  <2>7. ~behind' /\ lastPosted' # 0 => colorbuffers'[lastPosted'].cb \in {posted', None}
    BY <1>h, <1>c, <2>1, <2>4
  <2>8. lastPosted' <= nextHandle'
    BY <1>c, <2>1
  <2>9. \A i, k \in Handle :
          i # k /\ colorbuffers'[i].cb # None => colorbuffers'[i].cb # colorbuffers'[k].cb
    BY <1>u, <2>4, Zenon
  <2> QED
    BY <2>5, <2>6, <2>7, <2>8, <2>9, Zenon DEF Counted
<1>3. CASE CloseColorBuffer(h)
  <2> DEFINE c == colorbuffers[h]
  <2>1. /\ refs[h] > 0 /\ refs' = [refs EXCEPT ![h] = @ - 1]
        /\ colorbuffers' = [colorbuffers EXCEPT
             ![h] = IF (c.cb # None /\ c.refcount = 1) \/ c.cb = None THEN NoEntry
                    ELSE [cb |-> c.cb, refcount |-> c.refcount - 1]]
        /\ posted' = IF (c.cb # None /\ c.refcount = 1) /\ c.cb = posted THEN None ELSE posted
        /\ nextHandle' = nextHandle /\ lastPosted' = lastPosted /\ behind' = behind /\ shown' = shown
    BY <1>3, Zenon DEF CloseColorBuffer
  <2>2. c.refcount = refs[h] /\ c.refcount \in Nat \ {0} /\ c.cb # None
    <3>1. c \in Entry /\ c.refcount = refs[h]
      BY <1>t, <1>c
    <3> HIDE DEF c
    <3>2. c # NoEntry
      BY <1>e, <2>1, <3>1
    <3>3. c \in [cb : Buf, refcount : Nat \ {0}]
      BY <3>1, <3>2, Zenon DEF Entry
    <3> QED
      BY <3>1, <3>3, FrameBufferAssumption
  <2>3. h <= nextHandle
    <3>1. ~ (h > nextHandle)
      BY <1>r, <2>2, Zenon
    <3> QED
      BY <1>h, <3>1
  <2>4. \A k \in Handle \ {h} : colorbuffers'[k] = colorbuffers[k] /\ refs'[k] = refs[k]
    BY <1>t, <2>1
  <2>5. refs'[h] = refs[h] - 1
    BY <1>t, <2>1
  <2>6. \/ /\ c.refcount = 1 /\ colorbuffers'[h] = NoEntry
           /\ posted' = IF c.cb = posted THEN None ELSE posted
        \/ /\ colorbuffers'[h].cb = c.cb /\ colorbuffers'[h].refcount = c.refcount - 1
           /\ posted' = posted
    BY <1>t, <2>1, <2>2
  <2> HIDE DEF c
  <2>7. /\ colorbuffers'[h].cb \in {c.cb, None}
        /\ colorbuffers'[h].refcount = c.refcount - 1
    <3>1. colorbuffers'[h].cb \in {c.cb, None}
      BY <1>e, <2>6, Zenon
    <3>2. \/ c.refcount = 1 /\ colorbuffers'[h].refcount = 0
          \/ colorbuffers'[h].refcount = c.refcount - 1
      BY <1>e, <2>6, Zenon
    <3>3. 1 - 1 = 0
      OBVIOUS
    <3> QED
      BY <3>1, <3>2, <3>3, Zenon
  <2>8. RefcountIsClients' /\ ShowsLastPosted'
    <3>1. colorbuffers'[h].refcount = refs'[h]
      BY <2>2, <2>5, <2>7
    <3> QED
      BY <1>c, <2>1, <2>4, <3>1, Zenon DEF RefcountIsClients, ShowsLastPosted
  <2>9. \A k \in Handle : k > nextHandle' => colorbuffers'[k] = NoEntry
    <3>1. ASSUME NEW k \in Handle, k > nextHandle PROVE k # h
      BY <1>h, <2>3, <3>1
    <3> QED
      BY <1>c, <2>1, <2>4, <3>1, Zenon
  <2>10. \A i, k \in Handle :
           i # k /\ colorbuffers'[i].cb # None => colorbuffers'[i].cb # colorbuffers'[k].cb
    <3>1. \A k \in Handle \ {h} : colorbuffers'[k].cb = colorbuffers[k].cb
      BY <2>4, Zenon
    <3>2. colorbuffers'[h].cb \in {colorbuffers[h].cb, None}
      BY <2>7 DEF c
    <3>3. ASSUME NEW i \in Handle, NEW k \in Handle, i # k, colorbuffers'[i].cb # None
          PROVE  colorbuffers'[i].cb # colorbuffers'[k].cb
      <4>1. colorbuffers'[i].cb = colorbuffers[i].cb /\ colorbuffers[i].cb # colorbuffers[k].cb
        BY <1>u, <3>1, <3>2, <3>3, Zenon
      <4>2. colorbuffers'[k].cb \in {colorbuffers[k].cb, None}
        BY <3>1, <3>2, Zenon
      <4> QED
        BY <3>3, <4>1, <4>2, Zenon
    <3> QED
      BY <3>3, Zenon
  <2>11. ~behind' /\ lastPosted' # 0 => colorbuffers'[lastPosted'].cb \in {posted', None}
    <3>1. ASSUME ~behind, lastPosted # 0, lastPosted # h
          PROVE  colorbuffers'[lastPosted].cb \in {posted', None}
      <4>1. colorbuffers'[lastPosted] = colorbuffers[lastPosted]
        BY <1>h, <2>4, <3>1
      <4>2. colorbuffers[lastPosted].cb # None => colorbuffers[lastPosted].cb # c.cb
        BY <1>h, <1>u, <3>1 DEF c
      <4> QED
        BY <1>c, <2>6, <3>1, <4>1, <4>2
    <3>2. ASSUME ~behind, lastPosted # 0, lastPosted = h
          PROVE  colorbuffers'[lastPosted].cb \in {posted', None}
      <4>1. c.cb \in {posted, None}
        BY <1>c, <3>2 DEF c
      <4> QED
        BY <1>e, <2>2, <2>6, <3>2, <4>1, Zenon
    <3> QED
      BY <2>1, <3>1, <3>2
  <2>12. lastPosted' <= nextHandle'
    BY <1>c, <2>1
  <2> QED
    BY <2>8, <2>9, <2>10, <2>11, <2>12, Zenon DEF Counted
<1>4. CASE Post(h)
  <2>1. /\ colorbuffers[h].cb # None /\ lastPosted' = h /\ posted' = colorbuffers[h].cb
        /\ Paint(h, subWin) /\ behind' = FALSE
        /\ nextHandle' = nextHandle /\ colorbuffers' = colorbuffers /\ refs' = refs
    BY <1>4, Zenon DEF Post, mapVars
  <2>2. lastPosted' <= nextHandle'
    <3>1. ~ (h > nextHandle)
      BY <1>c, <1>r, <2>1
    <3> QED
      BY <1>h, <2>1, <3>1
  <2>3. shown' # "other"
    BY <1>c, <2>1 DEF Paint
  <2> QED
    BY <1>c, <1>u, <2>1, <2>2, <2>3 DEF Counted, RefcountIsClients, ShowsLastPosted
<1> QED
  BY <1>1, <1>2, <1>3, <1>4

\* Every step keeps the count, as long as the handle counter does not wrap around.
LEMMA PostStep ==
  ASSUME Wraps = FALSE, PostInv, [Next]_vars
  PROVE  PostInv'
<1>0. TypeOK' /\ Counted /\ MapType /\ BindingType /\ PostType
  BY TypeStep, TypeParts DEF PostInv
<1>h. /\ Handle \subseteq Nat /\ nextHandle \in Nat /\ lastPosted \in Nat
      /\ lastPosted # 0 => lastPosted \in Handle
  BY <1>0, FrameBufferAssumption DEF Handle, MapType, PostType
<1>k. ASSUME nextHandle' = nextHandle, UNCHANGED <<colorbuffers, refs, lastPosted, posted, behind, shown>>
      PROVE  Counted'
  BY <1>0, <1>h, <1>k, CountedKept
<1>1. ASSUME NEW h \in Handle,
             \/ \E b \in Buf : CreateColorBuffer(h, b)
             \/ OpenColorBuffer(h) \/ CloseColorBuffer(h) \/ Post(h)
      PROVE  Counted'
  BY <1>1, BufferCountStep
<1>2. ASSUME NEW h \in Handle,
             \/ \E c \in Ctx, s \in Handle \cup {0} : CreateRenderContext(h, c, s)
             \/ \E w \in Win, size \in WinSizes : CreateWindowSurface(h, w, size)
             \/ DestroyRenderContext(h) \/ DestroyWindowSurface(h)
      PROVE  Counted'
  <2>1. /\ UNCHANGED <<colorbuffers, refs, lastPosted, posted, behind, shown>>
        /\ nextHandle' = nextHandle \/ (nextHandle' = h /\ (Wraps \/ h > nextHandle))
    BY <1>2, ZenonT(60) DEF CreateRenderContext, CreateWindowSurface, DestroyRenderContext,
       DestroyWindowSurface, GenHandle, postVars
  <2>2. nextHandle' \in Nat /\ nextHandle' >= nextHandle
    BY <1>h, <2>1
  <2> QED
    BY <1>0, <1>h, <2>1, <2>2, CountedKept
<1>3. ASSUME NEW t \in Thread,
             \/ \E hw, hc \in Handle : SetWindowColorBuffer(t, hw, hc)
             \/ \E hc, hd, hr \in Handle : BindContext(t, hc, hd, hr)
             \/ Unbind(t)
      PROVE  Counted'
  <2>1. UNCHANGED mapVars /\ UNCHANGED postVars
    BY <1>0, <1>3, ThreadTypeStep
  <2> QED
    BY <1>k, <2>1 DEF mapVars, postVars
<1>4. ASSUME RepostPost PROVE Counted'
  <2>1. /\ nextHandle' = nextHandle /\ colorbuffers' = colorbuffers /\ refs' = refs
        /\ posted' = posted /\ reposting # 0 /\ Paint(reposting, subWin)
        /\ IF colorbuffers[reposting].cb # None
           THEN lastPosted' = reposting /\ behind' = (behind \/ reposting # lastPosted)
           ELSE lastPosted' = lastPosted /\ behind' = behind
    BY <1>4, Zenon DEF RepostPost, mapVars
  <2>2. CASE colorbuffers[reposting].cb = None
    <3>1. shown' = shown /\ lastPosted' = lastPosted /\ behind' = behind
      BY <2>1, <2>2, Zenon DEF Paint
    <3> QED
      BY <1>k, <2>1, <3>1
  <2>3. CASE colorbuffers[reposting].cb # None
    <3>1. lastPosted' = reposting /\ behind' = (behind \/ reposting # lastPosted)
      BY <2>1, <2>3, Zenon
    <3>2. ASSUME ~behind'
          PROVE  colorbuffers[reposting].cb = posted'
      <4>1. ~behind /\ reposting = lastPosted
        BY <3>1, <3>2, Zenon
      <4> QED
        BY <1>0, <2>1, <2>3, <4>1, Zenon DEF Counted
    <3>3. shown' # "other"
      <4>1. shown # "other"
        BY <1>0 DEF Counted, ShowsLastPosted
      <4> QED
        BY <3>2, <4>1, <2>1 DEF Paint
    <3>4. lastPosted' <= nextHandle'
      <4>1. reposting \in Handle
        BY <1>0, <2>1, FrameBufferAssumption DEF PostType, Handle
      <4>2. ~ (reposting > nextHandle)
        BY <1>0, <2>3, <4>1 DEF Counted, NoEntry
      <4> QED
        BY <1>h, <2>1, <3>1, <4>1, <4>2
    <3>5. ~behind' /\ lastPosted' # 0 => colorbuffers'[lastPosted'].cb \in {posted', None}
      BY <2>1, <3>1, <3>2, Zenon
    <3> QED
      BY <1>0, <2>1, <3>3, <3>4, <3>5, Zenon DEF Counted, RefcountIsClients, ShowsLastPosted
  <2> QED
    BY <2>2, <2>3
<1>s. ASSUME SetupSubWindow PROVE Counted'
  <2>1. /\ nextHandle' = nextHandle /\ colorbuffers' = colorbuffers /\ refs' = refs
        /\ lastPosted' = lastPosted /\ posted' = posted /\ behind' = behind
        /\ Paint(lastPosted, TRUE)
    BY <1>s, Zenon DEF SetupSubWindow, mapVars
  <2>2. /\ shown # "other"
        /\ ~behind /\ lastPosted # 0 => colorbuffers[lastPosted].cb \in {posted, None}
    BY <1>0, Zenon DEF Counted, ShowsLastPosted
  <2>3. shown' # "other"
    BY <2>1, <2>2 DEF Paint
  <2> QED
    BY <1>0, <2>1, <2>3, Zenon DEF Counted, RefcountIsClients, ShowsLastPosted
<1>5. ASSUME RepostRead \/ RemoveSubWindow PROVE Counted'
  <2>1. nextHandle' = nextHandle /\ UNCHANGED <<colorbuffers, refs, lastPosted, posted, behind, shown>>
    BY <1>5, Zenon DEF RepostRead, RemoveSubWindow, mapVars
  <2> QED
    BY <1>k, <2>1
<1>6. ASSUME Reinitialize PROVE Counted'
  <2>1. /\ colorbuffers' = [h \in Handle |-> NoEntry] /\ refs' = [h \in Handle |-> 0]
        /\ lastPosted' = 0 /\ shown' = "nothing" /\ nextHandle' = nextHandle
    BY <1>6, Zenon DEF Reinitialize
  <2>2. \A h \in Handle : colorbuffers'[h] = NoEntry /\ refs'[h] = 0
    BY <2>1
  <2>3. lastPosted' <= nextHandle'
    BY <1>h, <2>1
  <2>4. NoEntry.cb = None /\ NoEntry.refcount = 0
    BY DEF NoEntry
  <2>5. RefcountIsClients' /\ ShowsLastPosted'
    BY <2>1, <2>2, <2>4 DEF RefcountIsClients, ShowsLastPosted
  <2> QED
    BY <2>1, <2>2, <2>3, <2>4, <2>5 DEF Counted
<1>7. ASSUME UNCHANGED vars PROVE Counted'
  <2>1. nextHandle' = nextHandle /\ UNCHANGED <<colorbuffers, refs, lastPosted, posted, behind, shown>>
    BY <1>7 DEF vars, mapVars, postVars
  <2> QED
    BY <1>k, <2>1
<1>8. Counted'
  <2>1. CASE Next
    BY <1>1, <1>2, <1>3, <1>4, <1>s, <1>5, <1>6, <2>1 DEF Next, Named
  <2> QED
    BY <1>7, <2>1
<1> QED
  BY <1>0, <1>8 DEF PostInv

\* What the color buffer map and post() maintain until the handle counter wraps around.
THEOREM PostInvariance == ASSUME Wraps = FALSE PROVE Spec => []PostInv
<1>1. Init => PostInv
  <2> SUFFICES ASSUME Init PROVE PostInv
    OBVIOUS
  <2>1. /\ colorbuffers = [h \in Handle |-> NoEntry] /\ refs = [h \in Handle |-> 0]
        /\ nextHandle = 0 /\ lastPosted = 0 /\ shown = "nothing"
    BY Zenon DEF Init
  <2>2. NoEntry.cb = None /\ NoEntry.refcount = 0
    BY DEF NoEntry
  <2>3. Counted
    BY <2>1, <2>2 DEF Counted, RefcountIsClients, ShowsLastPosted
  <2> QED
    BY <2>3, InitType DEF PostInv
<1>2. PostInv /\ [Next]_vars => PostInv'
  BY PostStep
<1> QED
  BY <1>1, <1>2, PTL DEF Spec

\* Until then, refcount counts the clients' references.
THEOREM ReferencesCounted == ASSUME Wraps = FALSE PROVE Spec => []RefcountIsClients
<1>1. Spec => []PostInv
  BY PostInvariance
<1>2. PostInv => RefcountIsClients
  BY DEF PostInv, Counted
<1> QED
  BY <1>1, <1>2, PTL

\* Until then, only an overtaken repost paints the subwindow with a buffer other than the
\* one posted last, and only until the next post.
THEOREM PostedIsShown == ASSUME Wraps = FALSE PROVE Spec => []ShowsLastPosted
<1>1. Spec => []PostInv
  BY PostInvariance
<1>2. PostInv => ShowsLastPosted
  BY DEF PostInv, Counted
<1> QED
  BY <1>1, <1>2, PTL
=============================================================================
