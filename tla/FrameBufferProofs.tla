-------------------------- MODULE FrameBufferProofs --------------------------
(***************************************************************************)
(* Proofs about the frame buffer, for any number of threads, contexts,      *)
(* windows, color buffers and handles: types, and unambiguous handles.      *)
(***************************************************************************)
EXTENDS FrameBuffer, TLAPS

WinRec ==
  [cb : Buf \cup {None}, rctx : Ctx \cup {None}, dctx : Ctx \cup {None},
   size : Size, pbuf : Size, surf : Size \cup {NoSurface}, fbo : Size]

\* A new window is a window record.
LEMMA NewType ==
  ASSUME NEW r \in WinRec, NEW n \in Size
  PROVE  [r EXCEPT !.size = n, !.pbuf = n, !.surf = n] \in WinRec
BY DEF WinRec

\* A window with another buffer keeps the contexts it is bound to.
LEMMA AttachType ==
  ASSUME NEW r \in WinRec, NEW b \in Buf, NEW ok \in BOOLEAN
  PROVE  /\ Attach(r, b, ok) \in WinRec
         /\ Attach(r, b, ok).dctx = r.dctx
         /\ Attach(r, b, ok).rctx = r.rctx
<1>1. SizeOf(b) \in Size
  BY DEF SizeOf, Size
<1>2. ASSUME NEW n \in Size
      PROVE  /\ [r EXCEPT !.cb = b, !.size = n] \in WinRec
             /\ [r EXCEPT !.cb = b, !.size = n].dctx = r.dctx
             /\ [r EXCEPT !.cb = b, !.size = n].rctx = r.rctx
  BY DEF WinRec
<1>3. ASSUME NEW n \in Size
      PROVE  /\ [r EXCEPT !.cb = b, !.size = n, !.surf = n, !.pbuf = n] \in WinRec
             /\ [r EXCEPT !.cb = b, !.size = n, !.surf = n, !.pbuf = n].dctx = r.dctx
             /\ [r EXCEPT !.cb = b, !.size = n, !.surf = n, !.pbuf = n].rctx = r.rctx
  BY DEF WinRec
<1>4. ASSUME NEW n \in Size, NEW z \in Size \cup {NoSurface}
      PROVE  /\ [r EXCEPT !.cb = b, !.size = n, !.surf = z] \in WinRec
             /\ [r EXCEPT !.cb = b, !.size = n, !.surf = z].dctx = r.dctx
             /\ [r EXCEPT !.cb = b, !.size = n, !.surf = z].rctx = r.rctx
  BY DEF WinRec
<1>5. CASE ~NeedsResize(r, b)
  BY <1>1, <1>2, <1>5 DEF Attach
<1>6. CASE NeedsResize(r, b) /\ ok
  BY <1>1, <1>3, <1>6 DEF Attach
<1>7. CASE NeedsResize(r, b) /\ ~ok
  <2>1. NoSurface \in Size \cup {NoSurface}
    OBVIOUS
  <2> QED
    BY <1>1, <1>4, <1>7, <2>1 DEF Attach
<1> QED
  BY <1>5, <1>6, <1>7

\* NULL everywhere is a window record too.
LEMMA NoWindowType == NoWindow \in WinRec
BY Z3 DEF NoWindow, WinRec, Size, NoSurface

\* What remains of a window map after destruction is a window map.
LEMMA SurvivingType ==
  ASSUME NEW wn \in [Win -> WinRec], NEW ws, NEW ti
  PROVE  /\ Surviving(wn, ws, ti) \in [Win -> WinRec]
         /\ \A w \in LiveWin(ws, ti) \cap Win : Surviving(wn, ws, ti)[w] = wn[w]
BY NoWindowType DEF Surviving

\* The record a window gets when it is bound.
LEMMA BindType ==
  ASSUME NEW wn \in [Win -> WinRec], NEW w \in Win, NEW c \in Ctx \cup {None},
         NEW as, NEW ok \in BOOLEAN
  PROVE  /\ Bind(wn, w, c, as, ok) \in [Win -> WinRec]
         /\ \A v \in Win \ {w} : Bind(wn, w, c, as, ok)[v] = wn[v]
         /\ Bind(wn, w, c, as, ok)[w].dctx = IF "draw" \in as THEN c ELSE wn[w].dctx
         /\ Bind(wn, w, c, as, ok)[w].rctx = IF "read" \in as THEN c ELSE wn[w].rctx
<1> DEFINE f == BindFbo(wn[w], c, ok)
           d == IF "draw" \in as THEN c ELSE wn[w].dctx
           r == IF "read" \in as THEN c ELSE wn[w].rctx
           rec == [wn[w] EXCEPT !.dctx = d, !.rctx = r, !.fbo = f]
<1>1. f \in Size /\ d \in Ctx \cup {None} /\ r \in Ctx \cup {None}
  <2>1. SizeOf(wn[w].cb) \in Size /\ wn[w].fbo \in Size
    BY DEF SizeOf, WinRec, Size
  <2>2. f \in Size
    BY <2>1, Zenon DEF BindFbo
  <2> QED
    BY <2>2 DEF WinRec
<1>2. Bind(wn, w, c, as, ok) = [wn EXCEPT ![w] = rec]
  BY DEF Bind
<1> HIDE DEF f, d, r
<1>3. rec \in WinRec /\ rec.dctx = d /\ rec.rctx = r
  BY <1>1 DEF WinRec
<1> HIDE DEF rec
<1> QED
  BY <1>2, <1>3 DEF d, r

\* Binding changes the records of the two windows only, and tells them the context.
LEMMA BindBothType ==
  ASSUME NEW wn \in [Win -> WinRec], NEW bd \in Win \cup {None}, NEW br \in Win \cup {None},
         NEW c \in Ctx \cup {None}, NEW ok \in BOOLEAN
  PROVE  /\ BindBoth(wn, bd, br, c, ok) \in [Win -> WinRec]
         /\ \A v \in Win \ {bd, br} : BindBoth(wn, bd, br, c, ok)[v] = wn[v]
         /\ (bd # None /\ br # None) =>
              /\ BindBoth(wn, bd, br, c, ok)[bd].dctx = c
              /\ BindBoth(wn, bd, br, c, ok)[br].rctx = c
<1>1. CASE bd = None \/ br = None
  BY <1>1 DEF BindBoth
<1>2. CASE bd \in Win /\ br \in Win /\ bd = br /\ bd # None /\ br # None
  BY <1>2, BindType DEF BindBoth
<1>3. CASE bd \in Win /\ br \in Win /\ bd # br /\ bd # None /\ br # None
  <2> DEFINE one == Bind(wn, bd, c, {"draw"}, ok)
  <2>1. /\ one \in [Win -> WinRec]
        /\ \A v \in Win \ {bd} : one[v] = wn[v]
        /\ one[bd].dctx = c
    <3>1. bd \in Win
      BY <1>3
    <3>2. one \in [Win -> WinRec]
      BY <3>1, BindType, Zenon
    <3>3. \A v \in Win \ {bd} : one[v] = wn[v]
      BY <3>1 DEF Bind
    <3>4. one[bd].dctx = IF "draw" \in {"draw"} THEN c ELSE wn[bd].dctx
      BY <3>1, BindType
    <3> QED
      BY <3>2, <3>3, <3>4, Zenon
  <2> HIDE DEF one
  <2> DEFINE two == Bind(one, br, c, {"read"}, ok)
  <2>2. /\ two \in [Win -> WinRec]
        /\ \A v \in Win \ {br} : two[v] = one[v]
        /\ two[br].rctx = c
    BY <1>3, <2>1, BindType
  <2>3. BindBoth(wn, bd, br, c, ok) = two
    BY <1>3 DEF BindBoth, one
  <2> QED
    BY <1>3, <2>1, <2>2, <2>3
<1> QED
  BY <1>1, <1>2, <1>3

\* Every window has in f the buffer, the size and the surface it has in g.
SameSurfaces(f, g) ==
  \A v \in Win : /\ f[v].cb = g[v].cb /\ f[v].size = g[v].size
                 /\ f[v].pbuf = g[v].pbuf /\ f[v].surf = g[v].surf

\* Binding makes no surface and destroys none.
LEMMA BindSurface ==
  ASSUME NEW wn \in [Win -> WinRec], NEW bd \in Win \cup {None}, NEW br \in Win \cup {None},
         NEW c \in Ctx \cup {None}, NEW ok \in BOOLEAN
  PROVE  SameSurfaces(BindBoth(wn, bd, br, c, ok), wn)
<1>1. ASSUME NEW f \in [Win -> WinRec], NEW w \in Win, NEW as
      PROVE  SameSurfaces(Bind(f, w, c, as, ok), f)
  <2> DEFINE rec == [f[w] EXCEPT !.dctx = IF "draw" \in as THEN c ELSE f[w].dctx,
                                 !.rctx = IF "read" \in as THEN c ELSE f[w].rctx,
                                 !.fbo = BindFbo(f[w], c, ok)]
  <2>1. /\ rec.cb = f[w].cb /\ rec.size = f[w].size
        /\ rec.pbuf = f[w].pbuf /\ rec.surf = f[w].surf
    <3>1. f[w] \in WinRec
      BY <1>1
    <3>2. ASSUME NEW x \in WinRec, NEW d, NEW e, NEW o
          PROVE  LET y == [x EXCEPT !.dctx = d, !.rctx = e, !.fbo = o]
                 IN  y.cb = x.cb /\ y.size = x.size /\ y.pbuf = x.pbuf /\ y.surf = x.surf
      BY DEF WinRec
    <3> QED
      BY <3>1, <3>2
  <2>2. Bind(f, w, c, as, ok) = [f EXCEPT ![w] = rec]
    BY DEF Bind
  <2> HIDE DEF rec
  <2> QED
    BY <1>1, <2>1, <2>2 DEF SameSurfaces
<1>2. CASE bd = None \/ br = None
  BY <1>2 DEF BindBoth, SameSurfaces
<1>3. CASE bd \in Win /\ br \in Win /\ bd # None /\ br # None
  <2> DEFINE one == Bind(wn, bd, c, {"draw"}, ok)
  <2>1. one \in [Win -> WinRec]
    BY <1>3, BindType
  <2>2. SameSurfaces(one, wn) /\ SameSurfaces(Bind(wn, bd, c, {"draw", "read"}, ok), wn)
    BY <1>1, <1>3
  <2> HIDE DEF one
  <2>3. SameSurfaces(Bind(one, br, c, {"read"}, ok), one)
    BY <1>1, <1>3, <2>1
  <2>4. SameSurfaces(Bind(one, br, c, {"read"}, ok), wn)
    BY <2>2, <2>3 DEF SameSurfaces
  <2> QED
    BY <1>3, <2>2, <2>4 DEF BindBoth, one
<1> QED
  BY <1>2, <1>3

\* A window loses its surface only when it cannot be resized.
LEMMA AttachSurface ==
  ASSUME NEW r \in WinRec, NEW b \in Buf, NEW ok \in BOOLEAN,
         ok \/ ~NeedsResize(r, b), r.surf # NoSurface
  PROVE  Attach(r, b, ok).surf # NoSurface
<1>1. SizeOf(b) # NoSurface
  BY DEF SizeOf, NoSurface
<1>2. ASSUME NEW n PROVE [r EXCEPT !.cb = b, !.size = n].surf = r.surf
  BY DEF WinRec
<1>3. ASSUME NEW n PROVE [r EXCEPT !.cb = b, !.size = n, !.surf = n, !.pbuf = n].surf = n
  BY DEF WinRec
<1>4. CASE ~NeedsResize(r, b)
  BY <1>2, <1>4 DEF Attach
<1>5. CASE NeedsResize(r, b) /\ ok
  BY <1>1, <1>3, <1>5 DEF Attach
<1> QED
  BY <1>4, <1>5

\* What keeps a surface in step with the attached buffer: m_width and m_height are the
\* buffer's, and a surface with an area is as large as they say.
Fits(r) ==
  /\ r.surf # NoSurface => r.surf = r.pbuf /\ (r.pbuf # 0 => r.surf = r.size)
  /\ r.cb # None => r.size = SizeOf(r.cb)

\* Attaching keeps that, whether or not the resize succeeds.
LEMMA AttachFits ==
  ASSUME NEW r \in WinRec, NEW b \in Buf, NEW ok \in BOOLEAN, Fits(r)
  PROVE  Fits(Attach(r, b, ok))
<1> DEFINE n == SizeOf(b)
<1> HIDE DEF n
<1>1. ASSUME NEW x, x = [r EXCEPT !.cb = b, !.size = n]
      PROVE  x.cb = b /\ x.size = n /\ x.surf = r.surf /\ x.pbuf = r.pbuf
  BY <1>1 DEF WinRec
<1>2. ASSUME NEW x, x = [r EXCEPT !.cb = b, !.size = n, !.surf = n, !.pbuf = n]
      PROVE  x.cb = b /\ x.size = n /\ x.surf = n /\ x.pbuf = n
  BY <1>2 DEF WinRec
<1>3. ASSUME NEW x, x = [r EXCEPT !.cb = b, !.size = n, !.surf = NoSurface]
      PROVE  x.cb = b /\ x.size = n /\ x.surf = NoSurface
  BY <1>3 DEF WinRec
<1>4. CASE ~NeedsResize(r, b)
  <2>1. r.surf # NoSurface => r.surf = r.pbuf /\ (r.pbuf # 0 => r.surf = n)
    BY <1>4 DEF Fits, NeedsResize, n
  <2>2. Attach(r, b, ok) = [r EXCEPT !.cb = b, !.size = n]
    BY <1>4 DEF Attach, n
  <2> QED
    BY <1>1, <2>1, <2>2 DEF Fits, n
<1>5. CASE NeedsResize(r, b) /\ ok
  <2>1. Attach(r, b, ok) = [r EXCEPT !.cb = b, !.size = n, !.surf = n, !.pbuf = n]
    BY <1>5 DEF Attach, n
  <2> QED
    BY <1>2, <2>1 DEF Fits, n
<1>6. CASE NeedsResize(r, b) /\ ~ok
  <2>1. Attach(r, b, ok) = [r EXCEPT !.cb = b, !.size = n, !.surf = NoSurface]
    BY <1>6 DEF Attach, n
  <2> QED
    BY <1>3, <2>1 DEF Fits, n
<1> QED
  BY <1>4, <1>5, <1>6

----------------------------------------------------------------------------
(* Types, in three parts: the maps, the bindings and the posting.           *)

MapType ==
  /\ nextHandle \in 0 .. W - 1
  /\ contexts \in [Handle -> Ctx \cup {None}]
  /\ windows \in [Handle -> Win \cup {None}]
  /\ colorbuffers \in [Handle -> Entry]
  /\ refs \in [Handle -> Nat]

BindingType ==
  /\ win \in [Win -> WinRec]
  /\ tinfo \in [Thread -> Binding]
  /\ dec \in [Thread -> [gl1 : Ctx \cup {None}, gl2 : Ctx \cup {None}]]
  /\ egl \in [Thread -> Binding]
  /\ orphan \in SUBSET Thread

PostType ==
  /\ lastPosted \in 0 .. W - 1 /\ reposting \in 0 .. W - 1
  /\ subWin \in BOOLEAN /\ behind \in BOOLEAN
  /\ posted \in Buf \cup {None}
  /\ shown \in {"nothing", "posted", "older", "other"}

\* The parts make up the type invariant.
LEMMA TypeParts ==
  /\ TypeOK <=> MapType /\ BindingType /\ PostType
  /\ TypeOK' <=> MapType' /\ BindingType' /\ PostType'
<1>1. TypeOK <=> MapType /\ BindingType /\ PostType
  BY Zenon DEF TypeOK, MapType, BindingType, PostType, WinRec
<1>2. TypeOK' <=> MapType' /\ BindingType' /\ PostType'
  BY Zenon DEF TypeOK, MapType, BindingType, PostType, WinRec
<1> QED
  BY <1>1, <1>2

\* A part stays well typed while its variables stay as they are.
LEMMA TypeKept ==
  /\ MapType /\ UNCHANGED mapVars => MapType'
  /\ BindingType /\ UNCHANGED bindVars => BindingType'
  /\ PostType /\ UNCHANGED postVars => PostType'
<1>1. MapType /\ UNCHANGED mapVars => MapType'
  BY Zenon DEF MapType, mapVars
<1>2. BindingType /\ UNCHANGED bindVars => BindingType'
  BY Zenon DEF BindingType, bindVars
<1>3. PostType /\ UNCHANGED postVars => PostType'
  BY Zenon DEF PostType, postVars
<1> QED
  BY <1>1, <1>2, <1>3

\* A handle names a color buffer or nothing, and NULL everywhere is an entry.
LEMMA EntryType ==
  /\ NoEntry \in Entry
  /\ \A e \in Entry : e.cb \in Buf \cup {None} /\ e.refcount \in Nat
<1>1. NoEntry \in Entry
  BY DEF Entry
<1> QED
  BY <1>1 DEF Entry, NoEntry

\* Handles are values of HandleType.
LEMMA HandleType == Handle \subseteq 0 .. W - 1 /\ 0 \in 0 .. W - 1
BY FrameBufferAssumption DEF Handle

\* Nothing is current: a binding too.
LEMMA NoBindingType == NoBinding \in Binding
BY DEF NoBinding, Binding

\* What post() paints is typed.
LEMMA PaintType ==
  ASSUME NEW h, NEW sub, Paint(h, sub), shown \in {"nothing", "posted", "older", "other"}
  PROVE  shown' \in {"nothing", "posted", "older", "other"}
BY Zenon DEF Paint

\* The operations on color buffers keep the types.
LEMMA BufferTypeStep ==
  ASSUME MapType, PostType, NEW h \in Handle,
         \/ \E b \in Buf : CreateColorBuffer(h, b)
         \/ OpenColorBuffer(h) \/ CloseColorBuffer(h) \/ Post(h)
  PROVE  MapType' /\ PostType' /\ UNCHANGED bindVars
<1>t. /\ nextHandle \in 0 .. W - 1 /\ contexts \in [Handle -> Ctx \cup {None}]
      /\ windows \in [Handle -> Win \cup {None}] /\ colorbuffers \in [Handle -> Entry]
      /\ refs \in [Handle -> Nat]
  BY DEF MapType
<1>p. /\ lastPosted \in 0 .. W - 1 /\ reposting \in 0 .. W - 1
      /\ subWin \in BOOLEAN /\ behind \in BOOLEAN /\ posted \in Buf \cup {None}
      /\ shown \in {"nothing", "posted", "older", "other"}
  BY DEF PostType
<1>h. h \in 0 .. W - 1
  BY HandleType
<1>1. ASSUME NEW b \in Buf, CreateColorBuffer(h, b)
      PROVE  MapType' /\ PostType' /\ UNCHANGED bindVars
  <2>1. /\ nextHandle' = h
        /\ colorbuffers' = [colorbuffers EXCEPT ![h] = [cb |-> b, refcount |-> 1]]
        /\ refs' = [refs EXCEPT ![h] = @ + 1]
        /\ posted' = posted \/ posted' = None
        /\ UNCHANGED <<contexts, windows, bindVars, lastPosted, subWin, reposting, behind, shown>>
    BY <1>1, Zenon DEF CreateColorBuffer, GenHandle
  <2>2. [cb |-> b, refcount |-> 1] \in Entry
    BY DEF Entry
  <2>3. colorbuffers' \in [Handle -> Entry] /\ refs' \in [Handle -> Nat]
    BY <1>t, <2>1, <2>2
  <2>4. MapType'
    BY <1>t, <1>h, <2>1, <2>3, Zenon DEF MapType
  <2>5. PostType'
    BY <1>p, <2>1, Zenon DEF PostType
  <2> QED
    BY <2>1, <2>4, <2>5
<1>2. CASE OpenColorBuffer(h)
  <2>1. /\ colorbuffers[h].cb # None
        /\ colorbuffers' = [colorbuffers EXCEPT ![h].refcount = @ + 1]
        /\ refs' = [refs EXCEPT ![h] = @ + 1]
        /\ UNCHANGED <<nextHandle, contexts, windows, bindVars, postVars>>
    BY <1>2, Zenon DEF OpenColorBuffer
  <2>2. [colorbuffers[h] EXCEPT !.refcount = @ + 1] \in Entry
    BY <1>t, <2>1 DEF Entry, NoEntry
  <2>3. colorbuffers' \in [Handle -> Entry] /\ refs' \in [Handle -> Nat]
    BY <1>t, <2>1, <2>2
  <2>4. MapType'
    BY <1>t, <2>1, <2>3, Zenon DEF MapType
  <2> QED
    BY <2>1, <2>4, TypeKept
<1>3. CASE CloseColorBuffer(h)
  <2> DEFINE c == colorbuffers[h]
             e == IF (c.cb # None /\ c.refcount = 1) \/ c.cb = None THEN NoEntry
                  ELSE [cb |-> c.cb, refcount |-> c.refcount - 1]
  <2>1. /\ colorbuffers' = [colorbuffers EXCEPT ![h] = e]
        /\ refs[h] > 0 /\ refs' = [refs EXCEPT ![h] = @ - 1]
        /\ posted' = posted \/ posted' = None
        /\ UNCHANGED <<nextHandle, contexts, windows, bindVars, lastPosted, subWin, reposting, behind, shown>>
    BY <1>3, Zenon DEF CloseColorBuffer
  <2>2. e \in Entry
    <3>1. c \in Entry
      BY <1>t
    <3> HIDE DEF c
    <3>2. CASE c.cb = None
      BY <3>2, EntryType
    <3>3. CASE c.cb # None
      BY <3>1, <3>3 DEF NoEntry, Entry
    <3> QED
      BY <3>2, <3>3
  <2> HIDE DEF e
  <2>3. colorbuffers' \in [Handle -> Entry] /\ refs' \in [Handle -> Nat]
    BY <1>t, <2>1, <2>2
  <2>4. MapType'
    BY <1>t, <2>1, <2>3, Zenon DEF MapType
  <2>5. PostType'
    BY <1>p, <2>1, Zenon DEF PostType
  <2> QED
    BY <2>1, <2>4, <2>5
<1>4. CASE Post(h)
  <2>1. /\ lastPosted' = h /\ posted' = colorbuffers[h].cb /\ subWin' = subWin
        /\ reposting' = reposting /\ behind' = FALSE
        /\ Paint(h, subWin) /\ UNCHANGED mapVars /\ UNCHANGED bindVars
    BY <1>4, Zenon DEF Post
  <2>2. shown' \in {"nothing", "posted", "older", "other"}
    BY <1>p, <2>1, PaintType
  <2>3. posted' \in Buf \cup {None}
    BY <1>t, <2>1, EntryType
  <2>4. PostType'
    BY <1>p, <1>h, <2>1, <2>2, <2>3, Zenon DEF PostType
  <2> QED
    BY <2>1, <2>4, TypeKept
<1> QED
  BY <1>1, <1>2, <1>3, <1>4

\* The operations on contexts and windows keep the types.
LEMMA ObjectTypeStep ==
  ASSUME MapType, BindingType, NEW h \in Handle,
         \/ \E c \in Ctx, s \in Handle \cup {0} : CreateRenderContext(h, c, s)
         \/ \E w \in Win, size \in WinSizes : CreateWindowSurface(h, w, size)
         \/ DestroyRenderContext(h) \/ DestroyWindowSurface(h)
  PROVE  MapType' /\ BindingType' /\ UNCHANGED postVars
<1>t. /\ nextHandle \in 0 .. W - 1 /\ contexts \in [Handle -> Ctx \cup {None}]
      /\ windows \in [Handle -> Win \cup {None}] /\ colorbuffers \in [Handle -> Entry]
      /\ refs \in [Handle -> Nat]
  BY DEF MapType
<1>h. h \in 0 .. W - 1
  BY HandleType
<1>1. ASSUME NEW c \in Ctx, NEW s \in Handle \cup {0}, CreateRenderContext(h, c, s)
      PROVE  MapType' /\ BindingType' /\ UNCHANGED postVars
  <2>1. /\ nextHandle' = h /\ contexts' = [contexts EXCEPT ![h] = c]
        /\ UNCHANGED <<windows, colorbuffers, refs, bindVars, postVars>>
    BY <1>1, Zenon DEF CreateRenderContext, GenHandle
  <2>2. contexts' \in [Handle -> Ctx \cup {None}]
    BY <1>t, <2>1
  <2>3. MapType'
    BY <1>t, <1>h, <2>1, <2>2, Zenon DEF MapType
  <2> QED
    BY <2>1, <2>3, TypeKept
<1>2. CASE DestroyRenderContext(h)
  <2>1. /\ contexts' = [contexts EXCEPT ![h] = None]
        /\ UNCHANGED <<nextHandle, windows, colorbuffers, refs, bindVars, postVars>>
    BY <1>2, Zenon DEF DestroyRenderContext
  <2>2. contexts' \in [Handle -> Ctx \cup {None}]
    BY <1>t, <2>1
  <2>3. MapType'
    BY <1>t, <2>1, <2>2, Zenon DEF MapType
  <2> QED
    BY <2>1, <2>3, TypeKept
<1>3. ASSUME NEW w \in Win, NEW size \in WinSizes, CreateWindowSurface(h, w, size)
      PROVE  MapType' /\ BindingType' /\ UNCHANGED postVars
  <2> DEFINE r == [NoWindow EXCEPT !.size = size, !.pbuf = size, !.surf = size]
  <2>1. /\ nextHandle' = h /\ windows' = [windows EXCEPT ![h] = w]
        /\ win' = [win EXCEPT ![w] = r]
        /\ UNCHANGED <<contexts, colorbuffers, refs, tinfo, dec, egl, orphan, postVars>>
    BY <1>3, Zenon DEF CreateWindowSurface, GenHandle
  <2>2. r \in WinRec
    <3>1. size \in Size
      BY FrameBufferAssumption DEF Size
    <3> QED
      BY <3>1, NoWindowType, NewType, Zenon
  <2> HIDE DEF r
  <2>3. win' \in [Win -> WinRec]
    BY <2>1, <2>2 DEF BindingType
  <2>4. windows' \in [Handle -> Win \cup {None}]
    BY <1>t, <2>1
  <2>5. MapType'
    BY <1>t, <1>h, <2>1, <2>4, Zenon DEF MapType
  <2>6. BindingType'
    BY <2>1, <2>3, Zenon DEF BindingType
  <2> QED
    BY <2>1, <2>5, <2>6
<1>4. CASE DestroyWindowSurface(h)
  <2>1. /\ windows' = [windows EXCEPT ![h] = None]
        /\ win' = Surviving(win, windows', tinfo)
        /\ UNCHANGED <<nextHandle, contexts, colorbuffers, refs, tinfo, dec, egl, orphan, postVars>>
    BY <1>4, Zenon DEF DestroyWindowSurface
  <2>2. win \in [Win -> WinRec]
    BY DEF BindingType
  <2>3. win' \in [Win -> WinRec]
    BY <2>1, <2>2, SurvivingType
  <2>4. windows' \in [Handle -> Win \cup {None}]
    BY <1>t, <2>1
  <2>5. MapType'
    BY <1>t, <2>1, <2>4, Zenon DEF MapType
  <2>6. BindingType'
    BY <2>1, <2>3, Zenon DEF BindingType
  <2> QED
    BY <2>1, <2>5, <2>6
<1> QED
  BY <1>1, <1>2, <1>3, <1>4

\* The operations of a render thread on its bindings keep the types.
LEMMA ThreadTypeStep ==
  ASSUME MapType, BindingType, NEW t \in Thread,
         \/ \E hw, hc \in Handle : SetWindowColorBuffer(t, hw, hc)
         \/ \E hc, hd, hr \in Handle : BindContext(t, hc, hd, hr)
         \/ Unbind(t)
  PROVE  BindingType' /\ UNCHANGED mapVars /\ UNCHANGED postVars
<1>t. /\ win \in [Win -> WinRec] /\ tinfo \in [Thread -> Binding]
      /\ dec \in [Thread -> [gl1 : Ctx \cup {None}, gl2 : Ctx \cup {None}]]
      /\ egl \in [Thread -> Binding] /\ orphan \in SUBSET Thread
  BY DEF BindingType
<1>m. /\ contexts \in [Handle -> Ctx \cup {None}] /\ windows \in [Handle -> Win \cup {None}]
      /\ colorbuffers \in [Handle -> Entry]
  BY DEF MapType
<1>1. ASSUME NEW hw \in Handle, NEW hc \in Handle, SetWindowColorBuffer(t, hw, hc)
      PROVE  BindingType' /\ UNCHANGED mapVars /\ UNCHANGED postVars
  <2> DEFINE w == windows[hw]
             b == colorbuffers[hc].cb
             others == {u \in Thread \ {t} : HasCurrent(u, w) /\ win[w].surf # NoSurface}
  <2>1. PICK ok \in BOOLEAN :
          /\ w # None /\ b # None
          /\ win' = [win EXCEPT ![w] = Attach(win[w], b, ok)]
          /\ egl' = egl \/ egl' = [egl EXCEPT ![t] = NoBinding]
          /\ orphan' = orphan \/ orphan' = orphan \cup others
          /\ UNCHANGED <<mapVars, tinfo, dec, postVars>>
    BY <1>1, ZenonT(60) DEF SetWindowColorBuffer
  <2>2. w \in Win /\ b \in Buf
    BY <1>m, <2>1, EntryType
  <2>3. others \subseteq Thread
    OBVIOUS
  <2> HIDE DEF w, b, others
  <2>4. Attach(win[w], b, ok) \in WinRec
    BY <1>t, <2>2, AttachType
  <2>5. win' \in [Win -> WinRec]
    BY <1>t, <2>1, <2>4
  <2>6. egl' \in [Thread -> Binding]
    BY <1>t, <2>1, NoBindingType
  <2>7. orphan' \in SUBSET Thread
    BY <1>t, <2>1, <2>3
  <2>8. BindingType'
    BY <1>t, <2>1, <2>5, <2>6, <2>7, Zenon DEF BindingType
  <2> QED
    BY <2>1, <2>8
<1>2. ASSUME NEW b \in Binding, NEW bd \in Win \cup {None}, NEW br \in Win \cup {None},
             MakeCurrent(t, b, bd, br)
      PROVE  BindingType' /\ UNCHANGED mapVars /\ UNCHANGED postVars
  <2>1. PICK ok \in BOOLEAN :
          /\ win' = Surviving(BindBoth(win, bd, br, b.ctx, ok), windows, tinfo')
          /\ egl' = [egl EXCEPT ![t] = b] /\ tinfo' = [tinfo EXCEPT ![t] = b]
          /\ orphan' = orphan \ {t}
          /\ dec' = [dec EXCEPT ![t] = SetContextData(dec[t], b.ctx)]
          /\ UNCHANGED mapVars /\ UNCHANGED postVars
    <3>1. PICK ok \in {TRUE, ~EglFails} :
            win' = Surviving(BindBoth(win, bd, br, b.ctx, ok), windows, tinfo')
      BY <1>2, Zenon DEF MakeCurrent
    <3>2. ok \in BOOLEAN
      BY <3>1, Zenon
    <3> QED
      BY <1>2, <3>1, <3>2, Zenon DEF MakeCurrent
  <2>2. b.ctx \in Ctx \cup {None}
    BY DEF Binding
  <2>3. BindBoth(win, bd, br, b.ctx, ok) \in [Win -> WinRec]
    BY <1>t, <2>2, BindBothType
  <2>4. win' \in [Win -> WinRec]
    BY <2>1, <2>3, SurvivingType
  <2>5. SetContextData(dec[t], b.ctx) \in [gl1 : Ctx \cup {None}, gl2 : Ctx \cup {None}]
    BY <1>t, <2>2 DEF SetContextData
  <2>6. dec' \in [Thread -> [gl1 : Ctx \cup {None}, gl2 : Ctx \cup {None}]]
    BY <1>t, <2>1, <2>5
  <2>7. egl' \in [Thread -> Binding] /\ tinfo' \in [Thread -> Binding] /\ orphan' \in SUBSET Thread
    BY <1>t, <2>1
  <2>8. BindingType'
    BY <2>4, <2>6, <2>7, Zenon DEF BindingType
  <2> QED
    BY <2>1, <2>8
<1>3. ASSUME NEW hc \in Handle, NEW hd \in Handle, NEW hr \in Handle, BindContext(t, hc, hd, hr)
      PROVE  BindingType' /\ UNCHANGED mapVars /\ UNCHANGED postVars
  <2> DEFINE b == [ctx |-> contexts[hc], draw |-> windows[hd], read |-> windows[hr]]
  <2>1. MakeCurrent(t, b, b.draw, b.read)
    BY <1>3, Zenon DEF BindContext
  <2>2. b \in Binding /\ b.draw \in Win \cup {None} /\ b.read \in Win \cup {None}
    BY <1>m DEF Binding
  <2> HIDE DEF b
  <2> QED
    BY <1>2, <2>1, <2>2
<1>4. CASE Unbind(t)
  <2>1. tinfo[t].draw \in Win \cup {None} /\ tinfo[t].read \in Win \cup {None}
    BY <1>t DEF Binding
  <2> QED
    BY <1>2, <1>4, <2>1, NoBindingType DEF Unbind
<1> QED
  BY <1>1, <1>3, <1>4

\* The operations on the display keep the types.
LEMMA DisplayTypeStep ==
  ASSUME MapType, BindingType, PostType,
         RepostRead \/ RepostPost \/ SetupSubWindow \/ RemoveSubWindow \/ Reinitialize
  PROVE  MapType' /\ BindingType' /\ PostType'
<1>p. /\ lastPosted \in 0 .. W - 1 /\ reposting \in 0 .. W - 1
      /\ subWin \in BOOLEAN /\ behind \in BOOLEAN /\ posted \in Buf \cup {None}
      /\ shown \in {"nothing", "posted", "older", "other"}
  BY DEF PostType
<1>1. ASSUME RepostRead \/ RepostPost \/ SetupSubWindow \/ RemoveSubWindow
      PROVE  MapType' /\ BindingType' /\ PostType'
  <2>1. /\ UNCHANGED mapVars /\ UNCHANGED bindVars /\ posted' = posted
        /\ lastPosted' = lastPosted \/ lastPosted' = reposting
        /\ reposting' = reposting \/ reposting' = lastPosted \/ reposting' = 0
        /\ subWin' = subWin \/ subWin' = TRUE \/ subWin' = FALSE
        /\ behind' = behind \/ behind' = (behind \/ reposting # lastPosted)
        /\ shown' = shown \/ Paint(lastPosted, TRUE) \/ Paint(reposting, subWin)
    BY <1>1, ZenonT(60) DEF RepostRead, RepostPost, SetupSubWindow, RemoveSubWindow
  <2>2. shown' \in {"nothing", "posted", "older", "other"}
    BY <1>p, <2>1, PaintType, Zenon
  <2>3. subWin' \in BOOLEAN /\ behind' \in BOOLEAN
    BY <1>p, <2>1, Zenon
  <2>4. lastPosted' \in 0 .. W - 1 /\ reposting' \in 0 .. W - 1
    BY <1>p, <2>1, HandleType, Zenon
  <2>5. PostType'
    BY <1>p, <2>1, <2>2, <2>3, <2>4, Zenon DEF PostType
  <2> QED
    BY <2>1, <2>5, TypeKept
<1>2. CASE Reinitialize
  <2>1. /\ contexts' = [h \in Handle |-> None] /\ windows' = [h \in Handle |-> None]
        /\ colorbuffers' = [h \in Handle |-> NoEntry] /\ refs' = [h \in Handle |-> 0]
        /\ win' = [w \in Win |-> NoWindow]
        /\ UNCHANGED <<nextHandle, tinfo, dec, egl, orphan>>
    BY <1>2, Zenon DEF Reinitialize
  <2>2. /\ contexts' \in [Handle -> Ctx \cup {None}] /\ windows' \in [Handle -> Win \cup {None}]
        /\ refs' \in [Handle -> Nat]
    BY <2>1
  <2>3. colorbuffers' \in [Handle -> Entry]
    BY <2>1, EntryType
  <2>4. win' \in [Win -> WinRec]
    BY <2>1, NoWindowType
  <2>5. MapType'
    BY <2>1, <2>2, <2>3, Zenon DEF MapType
  <2>6. BindingType'
    BY <2>1, <2>4, Zenon DEF BindingType
  <2>7. /\ lastPosted' = 0 /\ subWin' = FALSE /\ posted' = None /\ shown' = "nothing"
        /\ reposting' = reposting /\ behind' = FALSE
    BY <1>2, Zenon DEF Reinitialize
  <2>8. PostType'
    BY <1>p, <2>7, HandleType, Zenon DEF PostType
  <2> QED
    BY <2>5, <2>6, <2>8
<1> QED
  BY <1>1, <1>2

\* Every step keeps the types.
LEMMA TypeStep == ASSUME TypeOK, [Next]_vars PROVE TypeOK'
<1>1. MapType /\ BindingType /\ PostType
  BY TypeParts
<1>2. CASE Next
  <2>1. ASSUME NEW h \in Handle,
               \/ \E b \in Buf : CreateColorBuffer(h, b)
               \/ OpenColorBuffer(h) \/ CloseColorBuffer(h) \/ Post(h)
        PROVE  MapType' /\ BindingType' /\ PostType'
    BY <1>1, <2>1, BufferTypeStep, TypeKept
  <2>2. ASSUME NEW h \in Handle,
               \/ \E c \in Ctx, s \in Handle \cup {0} : CreateRenderContext(h, c, s)
               \/ \E w \in Win, size \in WinSizes : CreateWindowSurface(h, w, size)
               \/ DestroyRenderContext(h) \/ DestroyWindowSurface(h)
        PROVE  MapType' /\ BindingType' /\ PostType'
    BY <1>1, <2>2, ObjectTypeStep, TypeKept
  <2>3. ASSUME NEW t \in Thread,
               \/ \E hw, hc \in Handle : SetWindowColorBuffer(t, hw, hc)
               \/ \E hc, hd, hr \in Handle : BindContext(t, hc, hd, hr)
               \/ Unbind(t)
        PROVE  MapType' /\ BindingType' /\ PostType'
    BY <1>1, <2>3, ThreadTypeStep, TypeKept
  <2>4. MapType' /\ BindingType' /\ PostType'
    BY <1>1, <1>2, <2>1, <2>2, <2>3, DisplayTypeStep DEF Next, Named
  <2> QED
    BY <2>4, TypeParts
<1>3. CASE UNCHANGED vars
  BY <1>1, <1>3, TypeParts, TypeKept DEF vars
<1> QED
  BY <1>2, <1>3

----------------------------------------------------------------------------
(* Handles.                                                                 *)

\* Only genHandle adds a name, and only where there is none.
LEMMA HandlesStep ==
  ASSUME TypeOK, HandlesDistinct, [Next]_vars
  PROVE  /\ HandlesDistinct'
         /\ \A h \in Handle :
              /\ contexts[h] # None => contexts'[h] \in {contexts[h], None}
              /\ windows[h] # None => windows'[h] \in {windows[h], None}
<1> DEFINE Kept == \A h \in Handle :
              /\ contexts[h] # None => contexts'[h] \in {contexts[h], None}
              /\ windows[h] # None => windows'[h] \in {windows[h], None}
<1>t. contexts \in [Handle -> Ctx \cup {None}] /\ windows \in [Handle -> Win \cup {None}]
  BY TypeParts DEF MapType
<1>n. None \notin Ctx \cup Win
  BY FrameBufferAssumption
<1>1. ASSUME NEW h \in Handle, NEW c \in Ctx, NEW s \in Handle \cup {0},
             CreateRenderContext(h, c, s) PROVE HandlesDistinct' /\ Kept
  <2>1. /\ contexts' = [contexts EXCEPT ![h] = c] /\ windows' = windows
        /\ contexts[h] = None /\ windows[h] = None
    BY <1>1, Zenon DEF CreateRenderContext, GenHandle, IsNext, Free
  <2>2. c \notin Images(contexts)
    BY <1>1, Zenon DEF CreateRenderContext, LiveCtx
  <2>3. \A k \in Handle : contexts[k] # c
    BY <1>t, <1>n, <2>2 DEF Images
  <2> QED
    BY <1>t, <2>1, <2>3 DEF HandlesDistinct
<1>2. ASSUME NEW h \in Handle, NEW w \in Win, NEW size \in WinSizes,
             CreateWindowSurface(h, w, size) PROVE HandlesDistinct' /\ Kept
  <2>1. /\ windows' = [windows EXCEPT ![h] = w] /\ contexts' = contexts
        /\ contexts[h] = None /\ windows[h] = None
    BY <1>2, Zenon DEF CreateWindowSurface, GenHandle, IsNext, Free
  <2>2. w \notin Images(windows)
    BY <1>2, Zenon DEF CreateWindowSurface, LiveWin
  <2>3. \A k \in Handle : windows[k] # w
    BY <1>t, <1>n, <2>2 DEF Images
  <2> QED
    BY <1>t, <2>1, <2>3 DEF HandlesDistinct
<1>3. ASSUME NEW h \in Handle, DestroyRenderContext(h) PROVE HandlesDistinct' /\ Kept
  <2>1. contexts' = [contexts EXCEPT ![h] = None] /\ windows' = windows
    BY <1>3, Zenon DEF DestroyRenderContext
  <2> QED
    BY <1>t, <2>1 DEF HandlesDistinct
<1>4. ASSUME NEW h \in Handle, DestroyWindowSurface(h) PROVE HandlesDistinct' /\ Kept
  <2>1. windows' = [windows EXCEPT ![h] = None] /\ contexts' = contexts
    BY <1>4, Zenon DEF DestroyWindowSurface
  <2> QED
    BY <1>t, <2>1 DEF HandlesDistinct
<1>5. CASE Reinitialize
  <2>1. contexts' = [h \in Handle |-> None] /\ windows' = [h \in Handle |-> None]
    BY <1>5, Zenon DEF Reinitialize
  <2> QED
    BY <2>1 DEF HandlesDistinct
<1>6. CASE UNCHANGED <<contexts, windows>>
  BY <1>6, Zenon DEF HandlesDistinct
<1>7. ASSUME NEW h \in Handle,
             \/ \E b \in Buf : CreateColorBuffer(h, b)
             \/ OpenColorBuffer(h) \/ CloseColorBuffer(h) \/ Post(h)
      PROVE UNCHANGED <<contexts, windows>>
  BY <1>7, ZenonT(60) DEF CreateColorBuffer, OpenColorBuffer, CloseColorBuffer, Post, mapVars
<1>8. ASSUME NEW t \in Thread,
             \/ \E hw, hc \in Handle : SetWindowColorBuffer(t, hw, hc)
             \/ \E hc, hd, hr \in Handle : BindContext(t, hc, hd, hr)
             \/ Unbind(t)
      PROVE UNCHANGED <<contexts, windows>>
  BY <1>8, ThreadTypeStep, TypeParts DEF mapVars
<1>9. ASSUME RepostRead \/ RepostPost \/ SetupSubWindow \/ RemoveSubWindow \/ UNCHANGED vars
      PROVE UNCHANGED <<contexts, windows>>
  BY <1>9, ZenonT(60) DEF RepostRead, RepostPost, SetupSubWindow, RemoveSubWindow, vars, mapVars
<1>10. CASE Next
  <2>1. ASSUME NEW h \in Handle,
               \/ \E b \in Buf : CreateColorBuffer(h, b)
               \/ OpenColorBuffer(h) \/ CloseColorBuffer(h) \/ Post(h)
        PROVE  HandlesDistinct' /\ Kept
    BY <1>6, <1>7, <2>1
  <2>2. ASSUME NEW t \in Thread,
               \/ \E hw, hc \in Handle : SetWindowColorBuffer(t, hw, hc)
               \/ \E hc, hd, hr \in Handle : BindContext(t, hc, hd, hr)
               \/ Unbind(t)
        PROVE  HandlesDistinct' /\ Kept
    BY <1>6, <1>8, <2>2
  <2>3. ASSUME RepostRead \/ RepostPost \/ SetupSubWindow \/ RemoveSubWindow
        PROVE  HandlesDistinct' /\ Kept
    BY <1>6, <1>9, <2>3
  <2> QED
    BY <1>1, <1>2, <1>3, <1>4, <1>5, <1>10, <2>1, <2>2, <2>3 DEF Next, Named
<1>11. CASE UNCHANGED vars
  BY <1>6, <1>9, <1>11
<1> QED
  BY <1>10, <1>11

\* The initial state is well typed, and no handle names anything.
LEMMA InitType == Init => TypeOK /\ HandlesDistinct
<1> SUFFICES ASSUME Init PROVE TypeOK /\ HandlesDistinct
  OBVIOUS
<1>1. BindingType
  <2>1. win \in [Win -> WinRec]
    BY NoWindowType DEF Init
  <2>2. tinfo \in [Thread -> Binding] /\ egl \in [Thread -> Binding]
    BY NoBindingType DEF Init
  <2>3. dec \in [Thread -> [gl1 : Ctx \cup {None}, gl2 : Ctx \cup {None}]]
        /\ orphan \in SUBSET Thread
    BY DEF Init
  <2> QED
    BY <2>1, <2>2, <2>3 DEF BindingType
<1>2. MapType
  <2>1. colorbuffers \in [Handle -> Entry]
    BY EntryType DEF Init
  <2>2. /\ contexts \in [Handle -> Ctx \cup {None}] /\ windows \in [Handle -> Win \cup {None}]
        /\ refs \in [Handle -> Nat]
    BY DEF Init
  <2>3. nextHandle \in 0 .. W - 1
    BY HandleType DEF Init
  <2> QED
    BY <2>1, <2>2, <2>3 DEF MapType
<1>3. PostType
  BY HandleType, Zenon DEF Init, PostType
<1>4. HandlesDistinct
  <2>1. contexts = [h \in Handle |-> None] /\ windows = [h \in Handle |-> None]
    BY Zenon DEF Init
  <2> QED
    BY <2>1 DEF HandlesDistinct
<1> QED
  BY <1>1, <1>2, <1>3, <1>4, TypeParts

\* The maps, the bindings and the posted handle keep their types, EGL failures and
\* the wrap-around of the handle counter included.
THEOREM FrameBufferTypes == Spec => []TypeOK
<1>1. TypeOK /\ [Next]_vars => TypeOK'
  BY TypeStep
<1> QED
  BY <1>1, InitType, PTL DEF Spec

\* A handle never names two things: genHandle looks at the contexts and the
\* windows before it hands one out, also after the counter wrapped around.
THEOREM HandlesAreDistinct == Spec => []HandlesDistinct
<1>1. TypeOK /\ HandlesDistinct /\ [Next]_vars => (TypeOK /\ HandlesDistinct)'
  BY TypeStep, HandlesStep
<1> QED
  BY <1>1, InitType, PTL DEF Spec

\* A handle in use keeps naming the same context or window until it is destroyed.
THEOREM HandlesKeepNames == Spec => NamesKept
<1>1. TypeOK /\ HandlesDistinct /\ [Next]_vars => (TypeOK /\ HandlesDistinct)'
  BY TypeStep, HandlesStep
<1>2. TypeOK /\ HandlesDistinct /\ [Next]_vars =>
        [\A h \in Handle :
           /\ contexts[h] # None => contexts'[h] \in {contexts[h], None}
           /\ windows[h] # None => windows'[h] \in {windows[h], None}]_vars
  BY HandlesStep
<1> QED
  BY <1>1, <1>2, InitType, PTL DEF Spec, NamesKept
=============================================================================
