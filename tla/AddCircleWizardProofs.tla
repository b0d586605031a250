------------------------ MODULE AddCircleWizardProofs ------------------------
(***************************************************************************)
(* The setup page and its client, for any number of pages, circles, shares  *)
(* and faults, in two parts.                                                *)
(*                                                                         *)
(* CertsBelongTogether, by Inv.  A circle whose files were written by one   *)
(* registration is either not listed yet, and its one handler has written   *)
(* what it passed, or it is listed, and complete.  That no second handler   *)
(* of the same registration exists is the page's doing: it registers once,  *)
(* when it leaves stage 0.                                                  *)
(*                                                                         *)
(* FailedRegistrationAddsNothing and DoneMeansShared, by WizardInv, which    *)
(* adds that a page has one request or answer under way, of the kind its    *)
(* stage waits for; who stored what is listed, or only in memory; and, for a *)
(* page that nobody else writes with, how far the client has got with what  *)
(* it asks for.                                                             *)
(***************************************************************************)
EXTENDS AddCircleWizard, FiniteSetTheorems, SequenceTheorems, WellFoundedInduction, TLAPS

\* The circles that are in the configuration, in memory or on disk.
Known == Listed(disk) \union Listed(cfg)

Registers(h) == h.req.what = "register"

\* The steps of a registration after its circle has been stored.
Stored == {"reload", "publish", "certs", "wait"}

\* All steps of all handlers.
Steps == {"start", "key", "crt", "ca", "add"} \union Stored

\* A page that has not registered anything.
Fresh(p) == page[p].screen \in {"new", "loading"} \/ OnStage(p, 0)

\* Records and functions have the fields and domains they should.
HandlerShape(h) ==
  /\ h = [req |-> h.req, at |-> h.at, snap |-> h.snap]
  /\ h.req.page \in Pages
  /\ Registers(h) => h.req.circle \in Circles

PageShape(s) ==
  /\ s = [screen |-> s.screen, stage |-> s.stage, error |-> s.error, circle |-> s.circle,
          filled |-> s.filled, shares |-> s.shares, closing |-> s.closing]
  /\ s.circle \in Circles \union {None}

ConfigShape == cfg = [c \in Circles |-> cfg[c]] /\ disk = [c \in Circles |-> disk[c]]

FilesShape ==
  /\ files \in [Circles -> [key : Pages \union Circles \union {None},
                            crt : Pages \union Circles \union {None}, ca : BOOLEAN]]
  /\ wrote \in [Circles -> SUBSET (Pages \union Circles)]
  /\ \A c \in Circles : IsFiniteSet(wrote[c])

PagesShape == page = [p \in Pages |-> page[p]] /\ \A p \in Pages : PageShape(page[p])

HandlersShape == \A h \in reqs : HandlerShape(h)

\* A page that is not past stage 0 has no registration, running or done.
FreshHasNone ==
  \A p \in Pages : Fresh(p) =>
    /\ \A c \in Circles : p \notin wrote[c]
    /\ \A h \in reqs : Registers(h) => h.req.page # p

OneRegistration ==
  \A h, g \in reqs : Registers(h) /\ Registers(g) /\ h.req.page = g.req.page => h = g

\* A registration is noted in wrote when the discovery server has signed its key.
Noted ==
  \A h \in reqs : Registers(h) =>
    IF h.at = "start" THEN \A c \in Circles : h.req.page \notin wrote[c]
                      ELSE h.req.page \in wrote[h.req.circle]

\* What the only registration of a circle has written when it gets to its next step.
WrittenSoFar(h) ==
  LET c == h.req.circle
      w == h.req.page
  IN  /\ c \notin Known
      /\ h.at \in {"crt", "ca", "add"} => files[c].key = w
      /\ h.at \in {"ca", "add"} => files[c].crt = w
      /\ h.at = "add" => files[c].ca

Writing ==
  \A h \in reqs :
    Registers(h) /\ h.at \notin Stored \union {"start"} /\ wrote[h.req.circle] = {h.req.page}
      => WrittenSoFar(h)

\* A circle that is listed has been written by somebody, and if by one, completely.
KnownIsWritten ==
  \A c \in Known :
    /\ wrote[c] # {}
    /\ \A w \in wrote[c] : wrote[c] = {w} =>
         files[c].key = w /\ files[c].crt = w /\ files[c].ca

WrittenTwice(c) == \E v, w \in wrote[c] : v # w

FatalNeedsTwo == fatal = "certs" => \E c \in Circles : WrittenTwice(c)

Inv ==
  /\ ConfigShape /\ FilesShape /\ PagesShape /\ HandlersShape
  /\ FreshHasNone /\ OneRegistration /\ Noted /\ Writing
  /\ KnownIsWritten /\ FatalNeedsTwo

-----------------------------------------------------------------------------
\* Handlers come, move on and go.

\* A handler that goes to its next step is the same request's.
LEMMA GotoMoves ==
  ASSUME HandlersShape, OneRegistration, NEW h \in reqs, NEW at, Goto(h, at)
  PROVE  /\ HandlersShape' /\ OneRegistration'
         /\ \A g \in reqs' :
              \/ g \in reqs /\ g # h
              \/ g.req = h.req /\ g.at = at
<1> DEFINE n == [h EXCEPT !.at = at]
<1>1. h = [req |-> h.req, at |-> h.at, snap |-> h.snap]
  BY DEF HandlersShape, HandlerShape
<1>2. n = [req |-> h.req, at |-> at, snap |-> h.snap]
  BY <1>1
<1>3. n.req = h.req /\ n.at = at /\ n.snap = h.snap
  BY <1>2
<1>4. reqs' = (reqs \ {h}) \union {n}
  BY DEF Goto
<1>5. HandlerShape(n)
  BY <1>2, <1>3 DEF HandlersShape, HandlerShape, Registers
<1> HIDE DEF n
<1>6. HandlersShape'
  BY <1>4, <1>5 DEF HandlersShape, HandlerShape, Registers
<1>7. OneRegistration'
  BY <1>3, <1>4 DEF OneRegistration, Registers
<1> QED BY <1>3, <1>4, <1>6, <1>7

\* A handler that answers is gone.
LEMMA FewerHandlers ==
  ASSUME HandlersShape, OneRegistration, reqs' \subseteq reqs
  PROVE  HandlersShape' /\ OneRegistration'
BY DEF HandlersShape, HandlerShape, OneRegistration, Registers

\* A request other than a registration leaves the registrations alone.
LEMMA SendAdds ==
  ASSUME HandlersShape, OneRegistration, NEW r, r.page \in Pages, r.what # "register", Send(r)
  PROVE  /\ HandlersShape' /\ OneRegistration'
         /\ \A g \in reqs' : Registers(g) => g \in reqs
<1> DEFINE n == Handle(r)
<1>1. n = [req |-> r, at |-> "start", snap |-> NoConfig]
  BY DEF Handle
<1>2. n.req = r /\ n.at = "start" /\ n.snap = NoConfig
  BY <1>1
<1>3. HandlerShape(n) /\ ~Registers(n)
  BY <1>1, <1>2 DEF HandlerShape, Registers
<1>4. reqs' \subseteq reqs \union {n}
  BY DEF Send
<1> HIDE DEF n
<1> QED BY <1>3, <1>4 DEF HandlersShape, HandlerShape, OneRegistration, Registers

-----------------------------------------------------------------------------
\* Pages.

\* What Show does to the pages.
LEMMA ShowChanges ==
  ASSUME PagesShape, NEW p \in Pages, NEW state, PageShape(state), Show(p, state)
  PROVE  /\ PagesShape'
         /\ page'[p] = state
         /\ \A q \in Pages : q # p => page'[q] = page[q]
<1>1. page' = [page EXCEPT ![p] = state]
  BY DEF Show
<1>2. page'[p] = state /\ \A q \in Pages : q # p => page'[q] = page[q]
  BY <1>1 DEF PagesShape
<1>3. page' = [q \in Pages |-> page'[q]]
  BY <1>1 DEF PagesShape
<1>4. \A q \in Pages : PageShape(page'[q])
  BY <1>2 DEF PagesShape
<1> QED BY <1>2, <1>3, <1>4 DEF PagesShape, PageShape

\* A page that shows something past stage 0, or showed stage 0 before, does not
\* become fresh.
LEMMA ShowKeepsFresh ==
  ASSUME PagesShape, NEW p \in Pages, NEW state, PageShape(state), Show(p, state),
         \/ Fresh(p)
         \/ state.screen \notin {"new", "loading", "wizard"}
         \/ state.screen \notin {"new", "loading"} /\ state.stage # 0
  PROVE  /\ PagesShape'
         /\ \A q \in Pages : Fresh(q)' => Fresh(q)
<1>1. /\ PagesShape'
      /\ page'[p] = state
      /\ \A q \in Pages : q # p => page'[q] = page[q]
  BY ShowChanges
<1>2. ASSUME NEW q \in Pages, Fresh(q)' PROVE Fresh(q)
  BY <1>1, <1>2 DEF Fresh, OnStage
<1> QED BY <1>1, <1>2

\* Blank pages.
LEMMA BlankShape ==
  ASSUME NEW screen
  PROVE  /\ PageShape(Blank(screen))
         /\ Blank(screen).screen = screen /\ Blank(screen).stage = 0
BY DEF PageShape, Blank

-----------------------------------------------------------------------------
\* Steps that write no certificates and list no circle.

LEMMA QuietSteps ==
  ASSUME Inv, UNCHANGED <<files, wrote>>, FatalNeedsTwo',
         ConfigShape', PagesShape', HandlersShape', OneRegistration',
         Known' \subseteq Known,
         \A p \in Pages : Fresh(p)' => Fresh(p),
         \A g \in reqs' : Registers(g) =>
           \/ g \in reqs
           \/ \E h \in reqs : g.req = h.req /\ h.at # "start" /\ g.at \in Stored
  PROVE  Inv'
<1>1. FilesShape'
  BY DEF Inv, FilesShape
<1>2. FreshHasNone'
  <2> SUFFICES ASSUME NEW p \in Pages, Fresh(p)'
               PROVE  /\ \A c \in Circles : p \notin wrote[c]
                      /\ \A g \in reqs' : Registers(g) => g.req.page # p
    BY DEF FreshHasNone, Registers
  <2>1. Fresh(p)
    OBVIOUS
  <2> QED BY <2>1 DEF Inv, FreshHasNone, Registers
<1>3. Noted'
  BY DEF Inv, Noted, Registers, Stored
<1>4. Writing'
  <2> SUFFICES ASSUME NEW g \in reqs', Registers(g), g.at \notin Stored \union {"start"},
                      wrote[g.req.circle] = {g.req.page}
               PROVE  WrittenSoFar(g)'
    BY DEF Writing, Registers, Stored, Inv, FilesShape, HandlersShape, HandlerShape
  <2>1. g \in reqs
    OBVIOUS
  <2>2. WrittenSoFar(g)
    BY <2>1 DEF Inv, Writing
  <2> QED BY <2>2 DEF WrittenSoFar
<1>5. KnownIsWritten'
  BY DEF Inv, KnownIsWritten
<1> QED BY <1>1, <1>2, <1>3, <1>4, <1>5 DEF Inv

\* Handlers that move on or answer, without touching certificates or listing a
\* circle.
LEMMA QuietHandlers ==
  ASSUME Inv, UNCHANGED <<files, wrote, page>>, FatalNeedsTwo', ConfigShape', Known' \subseteq Known,
         \/ reqs' \subseteq reqs
         \/ \E h \in reqs, at \in Steps :
              /\ Goto(h, at)
              /\ Registers(h) => h.at # "start" /\ at \in Stored
  PROVE  Inv'
<1>1. PagesShape' /\ \A p \in Pages : Fresh(p)' => Fresh(p)
  BY DEF Inv, PagesShape, PageShape, Fresh, OnStage
<1>2. CASE reqs' \subseteq reqs
  <2>1. HandlersShape' /\ OneRegistration'
    BY <1>2, FewerHandlers DEF Inv
  <2> QED BY <1>1, <1>2, <2>1, QuietSteps
<1>3. CASE \E h \in reqs, at \in Steps :
              /\ Goto(h, at)
              /\ Registers(h) => h.at # "start" /\ at \in Stored
  <2> PICK h \in reqs, at \in Steps :
              /\ Goto(h, at)
              /\ Registers(h) => h.at # "start" /\ at \in Stored
    BY <1>3
  <2>1. /\ HandlersShape' /\ OneRegistration'
        /\ \A g \in reqs' :
             \/ g \in reqs /\ g # h
             \/ g.req = h.req /\ g.at = at
    BY GotoMoves DEF Inv
  <2>2. ASSUME NEW g \in reqs', Registers(g)
        PROVE  \/ g \in reqs
               \/ \E f \in reqs : g.req = f.req /\ f.at # "start" /\ g.at \in Stored
    BY <2>1, <2>2 DEF Registers
  <2> QED BY <1>1, <2>1, <2>2, QuietSteps
<1> QED BY <1>2, <1>3

-----------------------------------------------------------------------------
\* Steps that write certificates.

\* Whoever writes the files of a circle that was registered once is its only
\* handler, and the circle is not listed yet.
LEMMA FileSteps ==
  ASSUME Inv, UNCHANGED <<wrote, page>>, FilesShape', FatalNeedsTwo', ConfigShape', Known' \subseteq Known,
         NEW h \in reqs, Registers(h), h.at \notin Stored \union {"start"},
         \A c \in Circles : c # h.req.circle => files'[c] = files[c],
         \/ reqs' \subseteq reqs \ {h}
         \/ \E at \in Steps :
              /\ Goto(h, at) /\ at # "start"
              /\ WrittenSoFar(h) =>
                   LET c == h.req.circle
                       w == h.req.page
                   IN  /\ at \in {"crt", "ca", "add"} => files'[c].key = w
                       /\ at \in {"ca", "add"} => files'[c].crt = w
                       /\ at = "add" => files'[c].ca
  PROVE  Inv'
<1> DEFINE d == h.req.circle
           v == h.req.page
<1>1. d \in Circles /\ v \in Pages /\ v \in wrote[d]
  BY DEF Inv, HandlersShape, HandlerShape, Noted
<1>2. wrote[d] = {v} => WrittenSoFar(h)
  BY DEF Inv, Writing
<1>3. PagesShape' /\ \A p \in Pages : Fresh(p)' => Fresh(p)
  BY DEF Inv, PagesShape, PageShape, Fresh, OnStage
<1>4. KnownIsWritten'
  <2> SUFFICES ASSUME NEW c \in Known', NEW w \in wrote[c], wrote[c] = {w}
               PROVE  files'[c].key = w /\ files'[c].crt = w /\ files'[c].ca
    BY DEF Inv, KnownIsWritten
  <2>1. c \in Known /\ c \in Circles
    BY DEF Known, Listed
  <2>2. c # d
    BY <1>1, <1>2, <2>1 DEF WrittenSoFar
  <2> QED BY <2>1, <2>2 DEF Inv, KnownIsWritten
<1>5. /\ HandlersShape' /\ OneRegistration'
      /\ \A g \in reqs' :
           \/ g \in reqs /\ g # h
           \/ /\ g.req = h.req /\ g.at # "start"
              /\ wrote[d] = {v} =>
                   /\ g.at \in {"crt", "ca", "add"} => files'[d].key = v
                   /\ g.at \in {"ca", "add"} => files'[d].crt = v
                   /\ g.at = "add" => files'[d].ca
  <2>1. CASE reqs' \subseteq reqs \ {h}
    BY <2>1, FewerHandlers DEF Inv
  <2>2. CASE ~(reqs' \subseteq reqs \ {h})
    <3> PICK at \in Steps :
              /\ Goto(h, at) /\ at # "start"
              /\ WrittenSoFar(h) =>
                   /\ at \in {"crt", "ca", "add"} => files'[d].key = v
                   /\ at \in {"ca", "add"} => files'[d].crt = v
                   /\ at = "add" => files'[d].ca
      BY <2>2
    <3>1. /\ HandlersShape' /\ OneRegistration'
          /\ \A g \in reqs' :
               \/ g \in reqs /\ g # h
               \/ g.req = h.req /\ g.at = at
      BY GotoMoves DEF Inv
    <3> QED BY <3>1, <1>2
  <2> QED BY <2>1, <2>2
<1>6. FreshHasNone'
  <2> SUFFICES ASSUME NEW p \in Pages, Fresh(p)
               PROVE  /\ \A c \in Circles : p \notin wrote[c]
                      /\ \A g \in reqs' : Registers(g) => g.req.page # p
    BY <1>3 DEF FreshHasNone, Registers
  <2> QED BY <1>5 DEF Inv, FreshHasNone, Registers
<1>7. Noted'
  BY <1>1, <1>5 DEF Inv, Noted, Registers
<1>8. Writing'
  <2> SUFFICES ASSUME NEW g \in reqs', Registers(g), g.at \notin Stored \union {"start"},
                      wrote[g.req.circle] = {g.req.page}
               PROVE  WrittenSoFar(g)'
    BY DEF Writing, Registers, Stored, Inv, FilesShape
  <2>1. CASE g \in reqs /\ g # h
    <3>1. g.req.circle \in Circles /\ WrittenSoFar(g)
      BY <2>1 DEF Inv, Writing, HandlersShape, HandlerShape
    <3>2. g.req.circle # d
      BY <1>1, <2>1 DEF Inv, OneRegistration
    <3> QED BY <3>1, <3>2 DEF WrittenSoFar
  <2>2. CASE g.req = h.req
    <3>1. wrote[d] = {v}
      BY <2>2
    <3>2. d \notin Known'
      BY <1>2, <3>1 DEF WrittenSoFar
    <3>3. \/ g \in reqs /\ g # h
          \/ /\ g.at \in {"crt", "ca", "add"} => files'[d].key = v
             /\ g.at \in {"ca", "add"} => files'[d].crt = v
             /\ g.at = "add" => files'[d].ca
      BY <1>5, <3>1
    <3>4. ~(g \in reqs /\ g # h)
      BY <2>2 DEF Inv, OneRegistration, Registers
    <3> QED BY <2>2, <3>2, <3>3, <3>4 DEF WrittenSoFar
  <2> QED BY <1>5, <2>1, <2>2
<1> QED BY <1>3, <1>4, <1>5, <1>6, <1>7, <1>8 DEF Inv

-----------------------------------------------------------------------------
\* The handlers, one by one.

\* What did not change keeps its part of the invariant.
LEMMA Unchanged ==
  ASSUME Inv
  PROVE  /\ UNCHANGED <<fatal, wrote>> => FatalNeedsTwo'
         /\ UNCHANGED <<cfg, disk>> => ConfigShape' /\ Known' = Known
BY DEF Inv, FatalNeedsTwo, WrittenTwice, ConfigShape, Known, Listed

\* The signed registration is the first of its page.
LEMMA RegisterRpcKeepsInv ==
  ASSUME Inv, NEW h \in reqs, RegisterRpc(h), UNCHANGED page
  PROVE  Inv'
<1> DEFINE d == h.req.circle
           v == h.req.page
<1>1. Registers(h) /\ h.at = "start" /\ UNCHANGED <<fatal, cfg, disk, files>>
  BY DEF RegisterRpc, At, Registers
<1>2. d \in Circles /\ v \in Pages /\ \A c \in Circles : v \notin wrote[c]
  BY <1>1 DEF Inv, HandlersShape, HandlerShape, Noted
<1>3. CASE Fail(h, "rpc") /\ UNCHANGED wrote
  <2>1. reqs' \subseteq reqs
    BY <1>3 DEF Fail, Answer
  <2> QED BY <1>1, <1>3, <2>1, Unchanged, QuietHandlers
<1>4. CASE Goto(h, "key") /\ wrote' = [wrote EXCEPT ![d] = @ \union {v}]
  <2>1. /\ HandlersShape' /\ OneRegistration'
        /\ \A g \in reqs' :
             \/ g \in reqs /\ g # h
             \/ g.req = h.req /\ g.at = "key"
    BY <1>4, GotoMoves DEF Inv
  <2>2. /\ wrote'[d] = wrote[d] \union {v}
        /\ \A c \in Circles : c # d => wrote'[c] = wrote[c]
        /\ \A c \in Circles : wrote[c] \subseteq wrote'[c] /\ wrote'[c] \subseteq wrote[c] \union {v}
    BY <1>2, <1>4 DEF Inv, FilesShape
  <2>3. FilesShape'
    <3>1. wrote' \in [Circles -> SUBSET (Pages \union Circles)]
      BY <1>2, <1>4 DEF Inv, FilesShape
    <3>2. \A c \in Circles : IsFiniteSet(wrote'[c])
      <4>1. IsFiniteSet(wrote[d] \union {v})
        BY <1>2, FS_AddElement DEF Inv, FilesShape
      <4> QED BY <2>2, <4>1 DEF Inv, FilesShape
    <3> QED BY <1>1, <3>1, <3>2 DEF Inv, FilesShape
  <2>4. PagesShape' /\ \A p \in Pages : Fresh(p)' => Fresh(p)
    BY DEF Inv, PagesShape, PageShape, Fresh, OnStage
  <2>5. FreshHasNone'
    <3> SUFFICES ASSUME NEW p \in Pages, Fresh(p)
                 PROVE  /\ \A c \in Circles : p \notin wrote'[c]
                        /\ \A g \in reqs' : Registers(g) => g.req.page # p
      BY <2>4 DEF FreshHasNone, Registers
    <3>1. p # v /\ \A c \in Circles : p \notin wrote[c]
      BY <1>1 DEF Inv, FreshHasNone
    <3>2. \A g \in reqs' : Registers(g) => g.req.page # p
      BY <2>1, <3>1 DEF Inv, FreshHasNone, Registers
    <3> QED BY <2>2, <3>1, <3>2
  <2>6. Noted'
    <3> SUFFICES ASSUME NEW g \in reqs', Registers(g)
                 PROVE  IF g.at = "start" THEN \A c \in Circles : g.req.page \notin wrote'[c]
                                          ELSE g.req.page \in wrote'[g.req.circle]
      BY DEF Noted, Registers
    <3>1. CASE g \in reqs /\ g # h
      <4>1. g.req.page # v
        BY <1>1, <3>1 DEF Inv, OneRegistration
      <4>2. g.req.circle \in Circles
        BY <3>1 DEF Inv, HandlersShape, HandlerShape
      <4> QED BY <2>2, <3>1, <4>1, <4>2 DEF Inv, Noted
    <3>2. CASE g.req = h.req /\ g.at = "key"
      BY <2>2, <3>2
    <3> QED BY <2>1, <3>1, <3>2
  <2>7. Known' = Known
    BY <1>1, Unchanged
  <2>8. \A c \in Known : wrote[c] # {} /\ c \in Circles
    BY DEF Inv, KnownIsWritten, Known, Listed
  <2>9. Writing'
    <3> SUFFICES ASSUME NEW g \in reqs', Registers(g), g.at \notin Stored \union {"start"},
                        wrote'[g.req.circle] = {g.req.page}
                 PROVE  WrittenSoFar(g)'
      BY DEF Writing, Registers, Stored
    <3>1. CASE g \in reqs /\ g # h
      <4>1. g.req.page # v
        BY <1>1, <3>1 DEF Inv, OneRegistration
      <4>2. g.req.circle \in Circles
        BY <3>1 DEF Inv, HandlersShape, HandlerShape
      <4>3. wrote[g.req.circle] = {g.req.page}
        BY <2>2, <4>1, <4>2
      <4>4. WrittenSoFar(g)
        BY <3>1, <4>3 DEF Inv, Writing
      <4> QED BY <1>1, <2>7, <4>4 DEF WrittenSoFar
    <3>2. CASE g.req = h.req /\ g.at = "key"
      <4>1. wrote[d] = {}
        BY <1>2, <2>2, <3>2
      <4>2. d \notin Known
        BY <2>8, <4>1
      <4> QED BY <2>7, <3>2, <4>2 DEF WrittenSoFar
    <3> QED BY <2>1, <3>1, <3>2
  <2>10. KnownIsWritten'
    <3> SUFFICES ASSUME NEW c \in Known
                 PROVE  /\ wrote'[c] # {}
                        /\ \A w \in wrote'[c] : wrote'[c] = {w} =>
                             files[c].key = w /\ files[c].crt = w /\ files[c].ca
      BY <1>1, <2>7 DEF KnownIsWritten
    <3>1. wrote'[c] # {}
      BY <2>2, <2>8
    <3>2. ASSUME NEW w \in wrote'[c], wrote'[c] = {w} PROVE wrote[c] = {w}
      BY <1>2, <2>2, <2>8, <3>2
    <3> QED BY <3>1, <3>2 DEF Inv, KnownIsWritten
  <2>11. FatalNeedsTwo'
    BY <1>1, <2>2 DEF Inv, FatalNeedsTwo, WrittenTwice
  <2>12. ConfigShape'
    BY <1>1, Unchanged
  <2> QED BY <2>1, <2>3, <2>4, <2>5, <2>6, <2>9, <2>10, <2>11, <2>12 DEF Inv
<1> QED BY <1>3, <1>4 DEF RegisterRpc

LEMMA WriteKeyKeepsInv ==
  ASSUME Inv, NEW h \in reqs, WriteKey(h), UNCHANGED page
  PROVE  Inv'
<1> DEFINE c == h.req.circle
<1>1. Registers(h) /\ h.at = "key" /\ UNCHANGED <<fatal, cfg, disk, wrote>>
  BY DEF WriteKey, At, Registers
<1>2. c \in Circles /\ h.req.page \in Pages
  BY <1>1 DEF Inv, HandlersShape, HandlerShape
<1>3. CASE files' = [files EXCEPT ![c].key = h.req.page] /\ Goto(h, "crt")
  <2>1. FilesShape'
    BY <1>1, <1>2, <1>3 DEF Inv, FilesShape
  <2>2. files'[c].key = h.req.page /\ \A d \in Circles : d # c => files'[d] = files[d]
    BY <1>2, <1>3 DEF Inv, FilesShape
  <2>3. FatalNeedsTwo' /\ ConfigShape' /\ Known' \subseteq Known
    BY <1>1, Unchanged
  <2>4. \E at \in Steps :
         /\ Goto(h, at) /\ at # "start"
         /\ WrittenSoFar(h) =>
              /\ at \in {"crt", "ca", "add"} => files'[c].key = h.req.page
              /\ at \in {"ca", "add"} => files'[c].crt = h.req.page
              /\ at = "add" => files'[c].ca
    <3> "crt" \in Steps
      BY DEF Steps
    <3> WITNESS "crt" \in Steps
    <3> QED BY <1>3, <2>1, <2>2
  <2>5. h.at \notin Stored \union {"start"}
    BY <1>1 DEF Stored
  <2> QED BY <1>1, <2>1, <2>2, <2>3, <2>4, <2>5, FileSteps
<1>4. ASSUME NEW left \in {files[c].key, None}, Fail(h, "write"),
             files' = [files EXCEPT ![c].key = left]
      PROVE  Inv'
  <2>1. FilesShape'
    BY <1>1, <1>2, <1>4 DEF Inv, FilesShape
  <2>2. \A d \in Circles : d # c => files'[d] = files[d]
    BY <1>2, <1>4 DEF Inv, FilesShape
  <2>3. reqs' \subseteq reqs \ {h}
    BY <1>4 DEF Fail, Answer
  <2> QED BY <1>1, <2>1, <2>2, <2>3, Unchanged, FileSteps DEF Stored
<1> QED BY <1>3, <1>4 DEF WriteKey

LEMMA WriteCrtKeepsInv ==
  ASSUME Inv, NEW h \in reqs, WriteCrt(h), UNCHANGED page
  PROVE  Inv'
<1> DEFINE c == h.req.circle
<1>1. Registers(h) /\ h.at = "crt" /\ UNCHANGED <<fatal, cfg, disk, wrote>>
  BY DEF WriteCrt, At, Registers
<1>2. c \in Circles /\ h.req.page \in Pages
  BY <1>1 DEF Inv, HandlersShape, HandlerShape
<1>3. CASE files' = [files EXCEPT ![c].crt = h.req.page] /\ Goto(h, "ca")
  <2>1. FilesShape'
    BY <1>1, <1>2, <1>3 DEF Inv, FilesShape
  <2>2. /\ files'[c].crt = h.req.page /\ files'[c].key = files[c].key
        /\ \A d \in Circles : d # c => files'[d] = files[d]
    BY <1>2, <1>3 DEF Inv, FilesShape
  <2>3. WrittenSoFar(h) => files'[c].key = h.req.page
    BY <1>1, <2>2 DEF WrittenSoFar
  <2>4. FatalNeedsTwo' /\ ConfigShape' /\ Known' \subseteq Known
    BY <1>1, Unchanged
  <2>5. \E at \in Steps :
         /\ Goto(h, at) /\ at # "start"
         /\ WrittenSoFar(h) =>
              /\ at \in {"crt", "ca", "add"} => files'[c].key = h.req.page
              /\ at \in {"ca", "add"} => files'[c].crt = h.req.page
              /\ at = "add" => files'[c].ca
    <3> "ca" \in Steps
      BY DEF Steps
    <3> WITNESS "ca" \in Steps
    <3> QED BY <1>3, <2>1, <2>2, <2>3
  <2>6. h.at \notin Stored \union {"start"}
    BY <1>1 DEF Stored
  <2> QED BY <1>1, <2>1, <2>2, <2>4, <2>5, <2>6, FileSteps
<1>4. ASSUME NEW left \in {files[c].crt, None, h.req.page}, Fail(h, "write"),
             files' = [files EXCEPT ![c].key = None, ![c].crt = left]
      PROVE  Inv'
  <2>1. FilesShape'
    BY <1>1, <1>2, <1>4 DEF Inv, FilesShape
  <2>2. \A d \in Circles : d # c => files'[d] = files[d]
    BY <1>2, <1>4 DEF Inv, FilesShape
  <2>3. reqs' \subseteq reqs \ {h}
    BY <1>4 DEF Fail, Answer
  <2> QED BY <1>1, <2>1, <2>2, <2>3, Unchanged, FileSteps DEF Stored
<1> QED BY <1>3, <1>4 DEF WriteCrt

LEMMA WriteCaKeepsInv ==
  ASSUME Inv, NEW h \in reqs, WriteCa(h), UNCHANGED page
  PROVE  Inv'
<1> DEFINE c == h.req.circle
<1>1. Registers(h) /\ h.at = "ca" /\ UNCHANGED <<fatal, cfg, disk, wrote>>
  BY DEF WriteCa, At, Registers
<1>2. c \in Circles /\ h.req.page \in Pages
  BY <1>1 DEF Inv, HandlersShape, HandlerShape
<1>3. CASE files' = [files EXCEPT ![c].ca = TRUE] /\ Goto(h, "add")
  <2>1. FilesShape'
    BY <1>1, <1>2, <1>3 DEF Inv, FilesShape
  <2>2. /\ files'[c].ca /\ files'[c].crt = files[c].crt /\ files'[c].key = files[c].key
        /\ \A d \in Circles : d # c => files'[d] = files[d]
    BY <1>2, <1>3 DEF Inv, FilesShape
  <2>3. WrittenSoFar(h) => files'[c].key = h.req.page /\ files'[c].crt = h.req.page
    BY <1>1, <2>2 DEF WrittenSoFar
  <2>4. FatalNeedsTwo' /\ ConfigShape' /\ Known' \subseteq Known
    BY <1>1, Unchanged
  <2>5. \E at \in Steps :
         /\ Goto(h, at) /\ at # "start"
         /\ WrittenSoFar(h) =>
              /\ at \in {"crt", "ca", "add"} => files'[c].key = h.req.page
              /\ at \in {"ca", "add"} => files'[c].crt = h.req.page
              /\ at = "add" => files'[c].ca
    <3> "add" \in Steps
      BY DEF Steps
    <3> WITNESS "add" \in Steps
    <3> QED BY <1>3, <2>1, <2>2, <2>3
  <2>6. h.at \notin Stored \union {"start"}
    BY <1>1 DEF Stored
  <2> QED BY <1>1, <2>1, <2>2, <2>4, <2>5, <2>6, FileSteps
<1>4. ASSUME NEW left \in BOOLEAN, Fail(h, "write"),
             files' = [files EXCEPT ![c] = [key |-> None, crt |-> None, ca |-> left]]
      PROVE  Inv'
  <2>1. FilesShape'
    BY <1>1, <1>2, <1>4 DEF Inv, FilesShape
  <2>2. \A d \in Circles : d # c => files'[d] = files[d]
    BY <1>2, <1>4 DEF Inv, FilesShape
  <2>3. reqs' \subseteq reqs \ {h}
    BY <1>4 DEF Fail, Answer
  <2> QED BY <1>1, <2>1, <2>2, <2>3, Unchanged, FileSteps DEF Stored
<1> QED BY <1>3, <1>4 DEF WriteCa

\* What can be read of a file that was cut off lists no more than was to be written.
LEMMA CutOffLists ==
  ASSUME NEW config, NEW left \in CutOff(config)
  PROVE  left = [c \in Circles |-> left[c]] /\ Listed(left) \subseteq Listed(config)
<1>1. PICK whole \in SUBSET Listed(config), last \in Listed(config) \union {None}, kept \in SUBSET Names :
        left = [c \in Circles |-> IF c \in whole THEN config[c]
                     ELSE IF c # last THEN None
                     ELSE [n \in Names |-> IF n \in kept THEN config[c][n] ELSE None]]
  BY DEF CutOff
<1>2. left = [c \in Circles |-> left[c]]
  BY <1>1
<1>3. ASSUME NEW c \in Listed(left)
      PROVE  c \in Listed(config)
  <2>1. c \in Circles /\ left[c] # None
    BY DEF Listed
  <2>2. c \in whole \/ c = last
    BY <1>1, <2>1
  <2>3. c # None
    BY <2>1, NoneIsNothing
  <2> QED BY <2>2, <2>3
<1> QED BY <1>2, <1>3

\* A circle comes to the configuration, and takes no other away.
LEMMA WithCircleIs ==
  ASSUME ConfigShape, NEW d \in Circles
  PROVE  /\ WithCircle(d) = [c \in Circles |-> WithCircle(d)[c]]
         /\ WithCircle(d)[d] = NoShares
         /\ \A c \in Circles : c # d => WithCircle(d)[c] = cfg[c]
         /\ Listed(WithCircle(d)) \subseteq Listed(cfg) \union {d}
<1> DEFINE new == WithCircle(d)
<1>1. /\ new = [c \in Circles |-> new[c]] /\ new[d] = NoShares
      /\ \A c \in Circles : c # d => new[c] = cfg[c]
  BY DEF ConfigShape, WithCircle
<1> HIDE DEF new
<1>2. Listed(new) \subseteq Listed(cfg) \union {d}
  BY <1>1 DEF Listed
<1> QED BY <1>1, <1>2 DEF new

\* A circle comes into the configuration, in memory or on disk, when its files are
\* complete, and the step of the handler that does it is over.
LEMMA CircleStored ==
  ASSUME Inv, NEW h \in reqs, Registers(h), h.at = "add",
         UNCHANGED <<page, files, wrote>>, FatalNeedsTwo',
         ConfigShape', Known' \subseteq Known \union {h.req.circle},
         HandlersShape', OneRegistration',
         \A g \in reqs' :
           \/ g \in reqs /\ g # h
           \/ g.req = h.req /\ g.at = "reload"
  PROVE  Inv'
<1> DEFINE d == h.req.circle
           v == h.req.page
<1>1. d \in Circles /\ v \in Pages /\ v \in wrote[d]
  BY DEF Inv, HandlersShape, HandlerShape, Noted
<1>2. PagesShape' /\ \A p \in Pages : Fresh(p)' => Fresh(p)
  BY DEF Inv, PagesShape, PageShape, Fresh, OnStage
<1>3. FilesShape'
  BY DEF Inv, FilesShape
<1>4. FreshHasNone'
  <2> SUFFICES ASSUME NEW p \in Pages, Fresh(p)
               PROVE  /\ \A c \in Circles : p \notin wrote[c]
                      /\ \A g \in reqs' : Registers(g) => g.req.page # p
    BY <1>2 DEF FreshHasNone, Registers
  <2> QED BY DEF Inv, FreshHasNone, Registers
<1>5. Noted'
  BY <1>1 DEF Inv, Noted, Registers
<1>6. Writing'
  <2> SUFFICES ASSUME NEW g \in reqs', Registers(g), g.at \notin Stored \union {"start"},
                      wrote[g.req.circle] = {g.req.page}
               PROVE  WrittenSoFar(g)'
    BY DEF Writing, Registers, Stored
  <2>1. g \in reqs /\ g # h
    BY DEF Stored
  <2>2. WrittenSoFar(g)
    BY <2>1 DEF Inv, Writing
  <2>3. g.req.circle # d
    BY <1>1, <2>1 DEF Inv, OneRegistration
  <2> QED BY <2>2, <2>3 DEF WrittenSoFar
<1>7. KnownIsWritten'
  <2> SUFFICES ASSUME NEW c \in Known'
               PROVE  /\ wrote[c] # {}
                      /\ \A w \in wrote[c] : wrote[c] = {w} =>
                           files[c].key = w /\ files[c].crt = w /\ files[c].ca
    BY DEF KnownIsWritten
  <2>1. CASE c = d
    <3>1. wrote[d] = {v} => WrittenSoFar(h)
      BY DEF Inv, Writing, Stored
    <3> QED BY <1>1, <2>1, <3>1 DEF WrittenSoFar
  <2>2. CASE c \in Known
    BY <2>2 DEF Inv, KnownIsWritten
  <2> QED BY <2>1, <2>2
<1> QED BY <1>2, <1>3, <1>4, <1>5, <1>6, <1>7 DEF Inv

LEMMA AddCircleKeepsInv ==
  ASSUME Inv, NEW h \in reqs, AddCircleAndStore(h), UNCHANGED page
  PROVE  Inv'
<1> DEFINE d == h.req.circle
           new == WithCircle(d)
           old == IF cfg[d] = None THEN cfg ELSE new
<1>1. Registers(h) /\ h.at = "add" /\ UNCHANGED <<fatal, files, wrote>>
  BY DEF AddCircleAndStore, At, Registers
<1>2. d \in Circles
  BY <1>1 DEF Inv, HandlersShape, HandlerShape
<1>3. /\ new = [c \in Circles |-> new[c]] /\ Listed(new) \subseteq Listed(cfg) \union {d}
      /\ \A c \in Circles : c # d => new[c] = cfg[c]
  BY <1>2, WithCircleIs DEF Inv
<1>4. FatalNeedsTwo'
  BY <1>1, Unchanged
<1>5. CASE NoDefaultMountpoint(h)
  <2>1. UNCHANGED <<cfg, disk>> /\ reqs' \subseteq reqs
    BY <1>5 DEF NoDefaultMountpoint, Fail, Answer
  <2> QED BY <1>1, <1>4, <2>1, Unchanged, QuietHandlers
<1>6. CASE writeNewConfig(h, new, old, "reload")
  <2> HIDE DEF new
  <2>1. cfg' \in {new, old} /\ (disk' = disk \/ disk' = new \/ disk' \in CutOff(new))
    BY <1>6 DEF writeNewConfig, WrittenInPart
  <2>2. cfg' = [c \in Circles |-> cfg'[c]] /\ Listed(cfg') \subseteq Listed(cfg) \union {d}
    BY <1>3, <2>1 DEF Inv, ConfigShape
  <2>3. disk' = [c \in Circles |-> disk'[c]] /\ Listed(disk') \subseteq Known \union {d}
    <3>1. CASE disk' = disk
      BY <3>1 DEF Inv, ConfigShape, Known
    <3>2. CASE disk' = new
      BY <1>3, <3>2 DEF Known
    <3>3. CASE disk' \in CutOff(new)
      BY <1>3, <3>3, CutOffLists DEF Known
    <3> QED BY <2>1, <3>1, <3>2, <3>3
  <2>4. ConfigShape' /\ Known' \subseteq Known \union {d}
    BY <2>2, <2>3 DEF ConfigShape, Known, Listed
  <2>5. CASE Goto(h, "reload")
    <3>1. /\ HandlersShape' /\ OneRegistration'
          /\ \A g \in reqs' :
               \/ g \in reqs /\ g # h
               \/ g.req = h.req /\ g.at = "reload"
      BY <2>5, GotoMoves DEF Inv
    <3> QED BY <1>1, <1>4, <2>4, <3>1, CircleStored
  <2>6. CASE Fail(h, "config")
    <3>1. reqs' = reqs \ {h}
      BY <2>6 DEF Fail, Answer
    <3>2. HandlersShape' /\ OneRegistration'
      BY <3>1, FewerHandlers DEF Inv
    <3> QED BY <1>1, <1>4, <2>4, <3>1, <3>2, CircleStored
  <2> QED BY <1>6, <2>5, <2>6 DEF writeNewConfig
<1> QED BY <1>5, <1>6 DEF AddCircleAndStore

\* A share comes to a circle that is listed.
LEMMA WithShareLists ==
  ASSUME ConfigShape, NEW r, cfg[r.circle] # None
  PROVE  /\ WithShare(r) = [c \in Circles |-> WithShare(r)[c]]
         /\ Listed(WithShare(r)) \subseteq Listed(cfg)
<1> DEFINE new == WithShare(r)
<1>1. new = [c \in Circles |-> new[c]] /\ \A c \in Circles : c # r.circle => new[c] = cfg[c]
  BY DEF ConfigShape, WithShare
<1> HIDE DEF new
<1>2. Listed(new) \subseteq Listed(cfg)
  BY <1>1 DEF Listed
<1> QED BY <1>1, <1>2 DEF new

LEMMA AddShareKeepsInv ==
  ASSUME Inv, NEW h \in reqs, AddShareAndStore(h), UNCHANGED page
  PROVE  Inv'
<1> DEFINE d == h.req.circle
           new == WithShare(h.req)
<1>1. ~Registers(h) /\ UNCHANGED <<fatal, files, wrote>>
  BY DEF AddShareAndStore, At, Registers
<1>2. FatalNeedsTwo'
  BY <1>1, Unchanged
<1>3. CASE NoDefaultMountpoint(h) \/ (Fail(h, "unknown circle") /\ UNCHANGED <<cfg, disk>>)
  <2>1. UNCHANGED <<cfg, disk>> /\ reqs' \subseteq reqs
    BY <1>3 DEF NoDefaultMountpoint, Fail, Answer
  <2> QED BY <1>1, <1>2, <2>1, Unchanged, QuietHandlers
<1>4. CASE cfg[d] # None /\ writeNewConfig(h, new, new, "reload")
  <2>1. new = [c \in Circles |-> new[c]] /\ Listed(new) \subseteq Listed(cfg)
    BY <1>4, WithShareLists DEF Inv
  <2> HIDE DEF new
  <2>2. cfg' = new /\ (disk' = new \/ disk' = disk \/ disk' \in CutOff(new))
    BY <1>4 DEF writeNewConfig, WrittenInPart
  <2>3. ConfigShape' /\ Known' \subseteq Known
    <3>1. disk' = [c \in Circles |-> disk'[c]] /\ Listed(disk') \subseteq Known
      <4>1. CASE disk' = disk
        BY <4>1 DEF Inv, ConfigShape, Known
      <4>2. CASE disk' = new
        BY <2>1, <4>2 DEF Known
      <4>3. CASE disk' \in CutOff(new)
        BY <2>1, <4>3, CutOffLists DEF Known
      <4> QED BY <2>2, <4>1, <4>2, <4>3
    <3> QED BY <2>1, <2>2, <3>1 DEF ConfigShape, Known, Listed
  <2>4. \/ reqs' \subseteq reqs
        \/ \E g \in reqs, at \in Steps :
              /\ Goto(g, at)
              /\ Registers(g) => g.at # "start" /\ at \in Stored
    BY <1>1, <1>4 DEF writeNewConfig, Fail, Answer, Steps, Stored
  <2> QED BY <1>1, <1>2, <2>3, <2>4, QuietHandlers
<1> QED BY <1>3, <1>4 DEF AddShareAndStore

LEMMA ReloadReadKeepsInv ==
  ASSUME Inv, NEW h \in reqs, ReloadRead(h), UNCHANGED page
  PROVE  Inv'
<1> DEFINE n == [req |-> h.req, at |-> "publish", snap |-> cfg]
<1>1. /\ h.at = "reload" /\ reqs' = (reqs \ {h}) \union {n}
      /\ UNCHANGED <<fatal, cfg, disk, files, wrote>>
  BY DEF ReloadRead
<1>4. n.req = h.req /\ n.at = "publish" /\ n.snap = cfg
  OBVIOUS
<1>5. HandlerShape(n)
  BY <1>4 DEF Inv, HandlersShape, HandlerShape, Registers
<1> HIDE DEF n
<1>6. HandlersShape'
  BY <1>1, <1>5 DEF Inv, HandlersShape, HandlerShape, Registers
<1>7. OneRegistration'
  BY <1>1, <1>4 DEF Inv, OneRegistration, Registers
<1>8. PagesShape' /\ \A p \in Pages : Fresh(p)' => Fresh(p)
  BY DEF Inv, PagesShape, PageShape, Fresh, OnStage
<1>9. \A g \in reqs' : \/ g \in reqs
                       \/ \E f \in reqs : g.req = f.req /\ f.at # "start" /\ g.at \in Stored
  BY <1>1, <1>4 DEF Stored
<1> QED BY <1>1, <1>6, <1>7, <1>8, <1>9, Unchanged, QuietSteps

\* What the end of the process leaves of the configuration.
LEMMA NoConfigIsEmpty == NoConfig = [c \in Circles |-> NoConfig[c]] /\ Listed(NoConfig) = {}
BY DEF NoConfig, Listed

LEMMA DeadListsLess ==
  ASSUME Inv, cfg' = NoConfig, UNCHANGED disk
  PROVE  ConfigShape' /\ Known' \subseteq Known
<1>1. disk' = [c \in Circles |-> disk'[c]] /\ Listed(disk') \subseteq Listed(disk)
  BY DEF Inv, ConfigShape
<1> QED BY <1>1, NoConfigIsEmpty DEF ConfigShape, Known, Listed

LEMMA ReloadPublishKeepsInv ==
  ASSUME Inv, NEW h \in reqs, ReloadPublish(h), UNCHANGED page
  PROVE  Inv'
<1>1. h.at = "publish" /\ UNCHANGED <<disk, files, wrote>>
  BY DEF ReloadPublish
<1>2. CASE UNCHANGED <<fatal, cfg>> /\ (Goto(h, "certs") \/ Done(h) \/ Fail(h, "invalid share"))
  <2>1. \/ reqs' \subseteq reqs
        \/ \E g \in reqs, at \in Steps :
              /\ Goto(g, at)
              /\ Registers(g) => g.at # "start" /\ at \in Stored
    BY <1>1, <1>2 DEF Done, Fail, Answer, Steps, Stored
  <2> QED BY <1>1, <1>2, <2>1, Unchanged, QuietHandlers
<1>3. CASE Die("shares")
  <2>1. cfg' = NoConfig /\ reqs' \subseteq reqs /\ fatal' # "certs"
    BY <1>3 DEF Die
  <2>2. FatalNeedsTwo'
    BY <2>1 DEF FatalNeedsTwo
  <2> QED BY <1>1, <2>1, <2>2, DeadListsLess, QuietHandlers
<1> QED BY <1>2, <1>3 DEF ReloadPublish

\* Only certificates of two registrations end the client.
LEMMA ReloadCertsKeepsInv ==
  ASSUME Inv, NEW h \in reqs, ReloadCerts(h), UNCHANGED page
  PROVE  Inv'
<1>1. h.at = "certs" /\ UNCHANGED <<disk, files, wrote>>
  BY DEF ReloadCerts, At
<1>2. CASE Goto(h, "wait") /\ UNCHANGED <<fatal, cfg>>
  <2>1. \E g \in reqs, at \in Steps :
              /\ Goto(g, at)
              /\ Registers(g) => g.at # "start" /\ at \in Stored
    BY <1>1, <1>2 DEF Steps, Stored
  <2> QED BY <1>1, <1>2, <2>1, Unchanged, QuietHandlers
<1>3. CASE ~LoadAllCerts(cfg) /\ Die("certs")
  <2>1. cfg' = NoConfig /\ reqs' \subseteq reqs
    BY <1>3 DEF Die
  <2>2. PICK c \in Listed(cfg) : ~LoadCerts(c)
    BY <1>3 DEF LoadAllCerts
  <2>3. c \in Circles /\ c \in Known
    BY DEF Listed, Known
  <2>4. PICK w \in wrote[c] : TRUE
    BY <2>3 DEF Inv, KnownIsWritten
  <2>5. w # None
    BY <2>3, <2>4, NoneIsNothing DEF Inv, FilesShape
  <2>6. wrote[c] # {w}
    BY <2>2, <2>3, <2>5 DEF Inv, KnownIsWritten, LoadCerts
  <2>7. WrittenTwice(c)
    BY <2>4, <2>6 DEF WrittenTwice
  <2>8. FatalNeedsTwo'
    BY <1>1, <2>3, <2>7 DEF FatalNeedsTwo, WrittenTwice
  <2> QED BY <1>1, <2>1, <2>8, DeadListsLess, QuietHandlers
<1> QED BY <1>2, <1>3 DEF ReloadCerts

LEMMA LookersKeepInv ==
  ASSUME Inv, NEW h \in reqs, UNCHANGED page,
         WaitForCircle(h) \/ SharesInCircle(h) \/ OpenExplorer(h) \/ RenderPage(h)
  PROVE  Inv'
<1>1. UNCHANGED <<fatal, cfg, disk, files, wrote>>
  BY DEF WaitForCircle, SharesInCircle, OpenExplorer, RenderPage
<1>2. reqs' \subseteq reqs
  BY DEF WaitForCircle, SharesInCircle, OpenExplorer, RenderPage, Done, Fail, Answer
<1> QED BY <1>1, <1>2, Unchanged, QuietHandlers

LEMMA StartKeepsInv ==
  ASSUME Inv, Start, UNCHANGED page
  PROVE  Inv'
<1>1. cfg' = disk /\ UNCHANGED <<fatal, disk, files, reqs, wrote>>
  BY DEF Start
<1>2. ConfigShape' /\ Known' \subseteq Known
  BY <1>1 DEF Inv, ConfigShape, Known, Listed
<1> QED BY <1>1, <1>2, Unchanged, QuietHandlers

LEMMA CrashKeepsInv ==
  ASSUME Inv, Crash, UNCHANGED page
  PROVE  Inv'
<1>1. cfg' = NoConfig /\ reqs' = {} /\ fatal' = fatal /\ wrote' = wrote
  BY DEF Crash, Die
<1>2. FatalNeedsTwo'
  BY <1>1, Unchanged
<1>3. CASE UNCHANGED <<files, disk>>
  BY <1>1, <1>2, <1>3, DeadListsLess, QuietHandlers
<1>4. ASSUME UNCHANGED files, NEW h \in reqs, At(h, "register", "add"),
             disk' \in CutOff(WithCircle(h.req.circle))
      PROVE  Inv'
  <2>1. Registers(h) /\ h.at = "add"
    BY <1>4 DEF At, Registers
  <2>2. h.req.circle \in Circles
    BY <2>1 DEF Inv, HandlersShape, HandlerShape
  <2>3. Listed(WithCircle(h.req.circle)) \subseteq Listed(cfg) \union {h.req.circle}
    BY <2>2, WithCircleIs DEF Inv
  <2>4. /\ disk' = [c \in Circles |-> disk'[c]]
        /\ Listed(disk') \subseteq Listed(WithCircle(h.req.circle))
    BY <1>4, CutOffLists
  <2>5. ConfigShape' /\ Known' \subseteq Known \union {h.req.circle}
    BY <1>1, <2>3, <2>4, NoConfigIsEmpty DEF ConfigShape, Known, Listed
  <2>6. HandlersShape' /\ OneRegistration'
    BY <1>1, FewerHandlers DEF Inv
  <2> QED BY <1>1, <1>2, <1>4, <2>1, <2>5, <2>6, CircleStored
<1>5. ASSUME UNCHANGED files, NEW h \in reqs, cfg[h.req.circle] # None,
             disk' \in CutOff(WithShare(h.req))
      PROVE  Inv'
  <2>1. Listed(WithShare(h.req)) \subseteq Listed(cfg)
    BY <1>5, WithShareLists DEF Inv
  <2>2. disk' = [c \in Circles |-> disk'[c]] /\ Listed(disk') \subseteq Listed(WithShare(h.req))
    BY <1>5, CutOffLists
  <2>3. ConfigShape' /\ Known' \subseteq Known
    BY <1>1, <2>1, <2>2, NoConfigIsEmpty DEF ConfigShape, Known, Listed
  <2> QED BY <1>1, <1>2, <1>5, <2>3, QuietHandlers
<1>6. ASSUME UNCHANGED disk, NEW h \in reqs,
             \/ At(h, "register", "key") /\ files' = [files EXCEPT ![h.req.circle].key = None]
             \/ At(h, "register", "crt") /\ files' = [files EXCEPT ![h.req.circle].crt = None]
             \/ At(h, "register", "ca") /\ files' = [files EXCEPT ![h.req.circle].ca = FALSE]
      PROVE  Inv'
  <2>1. Registers(h) /\ h.at \notin Stored \union {"start"}
    BY <1>6 DEF At, Registers, Stored
  <2>2. h.req.circle \in Circles
    BY <2>1 DEF Inv, HandlersShape, HandlerShape
  <2>3. FilesShape' /\ \A c \in Circles : c # h.req.circle => files'[c] = files[c]
    <3> DEFINE d == h.req.circle
    <3>1. files[d] \in [key : Pages \union Circles \union {None},
                        crt : Pages \union Circles \union {None}, ca : BOOLEAN]
      BY <2>2 DEF Inv, FilesShape
    <3>2. CASE files' = [files EXCEPT ![d].key = None]
      BY <1>1, <2>2, <3>1, <3>2 DEF Inv, FilesShape
    <3>3. CASE files' = [files EXCEPT ![d].crt = None]
      BY <1>1, <2>2, <3>1, <3>3 DEF Inv, FilesShape
    <3>4. CASE files' = [files EXCEPT ![d].ca = FALSE]
      BY <1>1, <2>2, <3>1, <3>4 DEF Inv, FilesShape
    <3> QED BY <1>6, <3>2, <3>3, <3>4
  <2>4. reqs' \subseteq reqs \ {h}
    BY <1>1
  <2>5. ConfigShape' /\ Known' \subseteq Known
    BY <1>1, <1>6, DeadListsLess
  <2> QED BY <1>1, <1>2, <2>1, <2>3, <2>4, <2>5, FileSteps
<1> QED BY <1>3, <1>4, <1>5, <1>6 DEF Crash, WrittenInPart

-----------------------------------------------------------------------------
\* The pages.

\* A page that asks for something else than a registration, and shows something.
LEMMA PageSteps ==
  ASSUME Inv, NEW p \in Pages, NEW r, NEW state,
         UNCHANGED <<fatal, cfg, disk, files, wrote>>,
         UNCHANGED reqs \/ (r.page \in Pages /\ r.what # "register" /\ Send(r)),
         \/ UNCHANGED page
         \/ /\ PageShape(state) /\ Show(p, state)
            /\ \/ Fresh(p)
               \/ state.screen \notin {"new", "loading", "wizard"}
               \/ state.screen \notin {"new", "loading"} /\ state.stage # 0
  PROVE  Inv'
<1>1. HandlersShape' /\ OneRegistration' /\ \A g \in reqs' : Registers(g) => g \in reqs
  <2>1. CASE UNCHANGED reqs
    BY <2>1, FewerHandlers DEF Inv
  <2>2. CASE r.page \in Pages /\ r.what # "register" /\ Send(r)
    BY <2>2, SendAdds DEF Inv
  <2> QED BY <2>1, <2>2
<1>2. PagesShape' /\ \A q \in Pages : Fresh(q)' => Fresh(q)
  <2>1. CASE UNCHANGED page
    BY <2>1 DEF Inv, PagesShape, PageShape, Fresh, OnStage
  <2>2. CASE ~UNCHANGED page
    BY <2>2, ShowKeepsFresh DEF Inv
  <2> QED BY <2>1, <2>2
<1> QED BY <1>1, <1>2, Unchanged, QuietSteps

\* A page's record keeps its fields when one of them changes.
LEMMA FieldsStay ==
  ASSUME NEW s, PageShape(s), NEW e
  PROVE  /\ PageShape([s EXCEPT !.stage = e])
         /\ [s EXCEPT !.stage = e].screen = s.screen /\ [s EXCEPT !.stage = e].stage = e
         /\ PageShape([s EXCEPT !.error = e])
         /\ [s EXCEPT !.error = e].screen = s.screen /\ [s EXCEPT !.error = e].stage = s.stage
         /\ e \in Circles \union {None} => PageShape([s EXCEPT !.circle = e])
         /\ [s EXCEPT !.circle = e].screen = s.screen /\ [s EXCEPT !.circle = e].stage = s.stage
         /\ PageShape([s EXCEPT !.filled = e])
         /\ [s EXCEPT !.filled = e].screen = s.screen /\ [s EXCEPT !.filled = e].stage = s.stage
         /\ PageShape([s EXCEPT !.shares = e])
         /\ [s EXCEPT !.shares = e].screen = s.screen /\ [s EXCEPT !.shares = e].stage = s.stage
         /\ PageShape([s EXCEPT !.closing = e])
         /\ [s EXCEPT !.closing = e].screen = s.screen /\ [s EXCEPT !.closing = e].stage = s.stage
<1>1. /\ PageShape([s EXCEPT !.stage = e])
      /\ [s EXCEPT !.stage = e].screen = s.screen /\ [s EXCEPT !.stage = e].stage = e
  BY DEF PageShape
<1>2. /\ PageShape([s EXCEPT !.error = e])
      /\ [s EXCEPT !.error = e].screen = s.screen /\ [s EXCEPT !.error = e].stage = s.stage
  BY DEF PageShape
<1>3. /\ e \in Circles \union {None} => PageShape([s EXCEPT !.circle = e])
      /\ [s EXCEPT !.circle = e].screen = s.screen /\ [s EXCEPT !.circle = e].stage = s.stage
  BY DEF PageShape
<1>4. /\ PageShape([s EXCEPT !.filled = e])
      /\ [s EXCEPT !.filled = e].screen = s.screen /\ [s EXCEPT !.filled = e].stage = s.stage
  BY DEF PageShape
<1>5. /\ PageShape([s EXCEPT !.shares = e])
      /\ [s EXCEPT !.shares = e].screen = s.screen /\ [s EXCEPT !.shares = e].stage = s.stage
  BY DEF PageShape
<1>6. /\ PageShape([s EXCEPT !.closing = e])
      /\ [s EXCEPT !.closing = e].screen = s.screen /\ [s EXCEPT !.closing = e].stage = s.stage
  BY DEF PageShape
<1> QED BY <1>1, <1>2, <1>3, <1>4, <1>5, <1>6

\* The registration of a page that has none.
LEMMA AddCircleRegistersOnce ==
  ASSUME Inv, NEW p \in Pages, addCircle(p)
  PROVE  Inv'
<1> DEFINE r == register(p, page[p].circle)
           n == Handle(r)
           next == [page[p] EXCEPT !.stage = 1]
<1>1. UNCHANGED <<fatal, cfg, disk, files, wrote>>
  BY DEF addCircle
<1>2. page[p].screen = "wizard" /\ Fresh(p) /\ page[p].circle \in Circles /\ PageShape(page[p])
  BY DEF addCircle, ConnectButton, OnStage, Fresh, canAddCircle, Inv, PagesShape, PageShape
<1>3. /\ \A c \in Circles : p \notin wrote[c]
      /\ \A h \in reqs : Registers(h) => h.req.page # p
  BY <1>2 DEF Inv, FreshHasNone
<1>4. /\ PagesShape' /\ page'[p] = next
      /\ \A q \in Pages : q # p => page'[q] = page[q]
  <2>1. PageShape(next)
    BY <1>2, FieldsStay
  <2>2. PagesShape /\ Show(p, next)
    BY DEF addCircle, Inv
  <2> HIDE DEF next
  <2> QED BY <2>1, <2>2, ShowChanges
<1>5. next.screen = "wizard" /\ next.stage = 1
  BY <1>2, FieldsStay
<1> HIDE DEF next
<1>6. ~Fresh(p)' /\ \A q \in Pages : q # p => (Fresh(q)' => Fresh(q))
  BY <1>4, <1>5 DEF Fresh, OnStage
<1>7. r.page = p /\ r.what = "register" /\ r.circle = page[p].circle
  BY DEF register, Ask
<1> HIDE DEF r
<1>8. n = [req |-> r, at |-> "start", snap |-> NoConfig]
  BY DEF Handle
<1>9. n.req = r /\ n.at = "start" /\ HandlerShape(n)
  BY <1>2, <1>7, <1>8 DEF HandlerShape, Registers
<1>10. reqs' \subseteq reqs \union {n}
  BY DEF addCircle, Send, r
<1> HIDE DEF n
<1>11. HandlersShape'
  BY <1>9, <1>10 DEF Inv, HandlersShape, HandlerShape, Registers
<1>12. OneRegistration'
  BY <1>3, <1>7, <1>9, <1>10 DEF Inv, OneRegistration, Registers
<1>13. FreshHasNone'
  <2> SUFFICES ASSUME NEW q \in Pages, Fresh(q)'
               PROVE  /\ \A c \in Circles : q \notin wrote[c]
                      /\ \A g \in reqs' : Registers(g) => g.req.page # q
    BY <1>1 DEF FreshHasNone, Registers
  <2>1. q # p /\ Fresh(q)
    BY <1>6
  <2> QED BY <1>7, <1>9, <1>10, <2>1 DEF Inv, FreshHasNone, Registers
<1>14. Noted'
  BY <1>1, <1>3, <1>7, <1>9, <1>10 DEF Inv, Noted, Registers
<1>15. Writing'
  <2> SUFFICES ASSUME NEW g \in reqs', Registers(g), g.at \notin Stored \union {"start"},
                      wrote[g.req.circle] = {g.req.page}
               PROVE  WrittenSoFar(g)'
    BY <1>1 DEF Writing, Registers, Stored
  <2>1. g \in reqs
    BY <1>9, <1>10
  <2>2. WrittenSoFar(g)
    BY <2>1 DEF Inv, Writing
  <2> QED BY <1>1, <2>2 DEF WrittenSoFar, Known, Listed
<1>16. FilesShape' /\ KnownIsWritten'
  BY <1>1 DEF Inv, FilesShape, KnownIsWritten, Known, Listed
<1> QED BY <1>1, <1>4, <1>11, <1>12, <1>13, <1>14, <1>15, <1>16, Unchanged DEF Inv

\* The page opens, closes and waits in vain.
LEMMA ScreensKeepInv ==
  ASSUME Inv, NEW p \in Pages, Open(p) \/ Close(p) \/ FetchRejects(p)
  PROVE  Inv'
<1>1. CASE Open(p)
  <2>1. Fresh(p) /\ PageShape(Blank("loading")) /\ Show(p, Blank("loading"))
    BY <1>1, BlankShape DEF Open, Fresh
  <2>2. /\ UNCHANGED <<fatal, cfg, disk, files, wrote>>
        /\ Send(getVersion(p)) /\ getVersion(p).page \in Pages /\ getVersion(p).what # "register"
    BY <1>1 DEF Open, getVersion, Ask
  <2> QED BY <2>1, <2>2, PageSteps
<1>2. CASE Close(p)
  <2>1. PageShape(Blank("closed")) /\ Show(p, Blank("closed")) /\ Blank("closed").screen = "closed"
    BY <1>2, BlankShape DEF Close
  <2>2. UNCHANGED <<fatal, cfg, disk, files, wrote>> /\ UNCHANGED reqs
    BY <1>2 DEF Close, apiVars
  <2> QED BY <2>1, <2>2, PageSteps
<1>3. CASE FetchRejects(p)
  <2> DEFINE b == [Blank("failed") EXCEPT !.error = "unreachable"]
             e == [page[p] EXCEPT !.error = "unreachable"]
  <2>1. UNCHANGED <<fatal, cfg, disk, files, wrote>> /\ UNCHANGED reqs
    BY <1>3 DEF FetchRejects, apiVars
  <2>2. Waiting(p) /\ Show(p, IF page[p].screen = "loading" THEN b ELSE e)
    BY <1>3 DEF FetchRejects
  <2>3. CASE page[p].screen = "loading"
    <3>1. PageShape(Blank("failed")) /\ Blank("failed").screen = "failed"
      BY BlankShape
    <3>2. PageShape(b) /\ b.screen = "failed"
      BY <3>1, FieldsStay
    <3>3. Show(p, b)
      BY <2>2, <2>3
    <3> QED BY <2>1, <3>2, <3>3, PageSteps
  <2>4. CASE page[p].screen # "loading"
    <3>1. page[p].screen = "wizard" /\ page[p].stage # 0
      <4>1. Waiting(p)
        BY <2>2
      <4> HIDE DEF b, e
      <4>2. OnStage(p, 1) \/ OnStage(p, 3)
        BY <2>4, <4>1 DEF Waiting
      <4> QED BY <4>2 DEF OnStage
    <3>2. PageShape(page[p])
      BY DEF Inv, PagesShape
    <3>3. PageShape(e) /\ e.screen = "wizard" /\ e.stage # 0
      BY <3>1, <3>2, FieldsStay
    <3>4. Show(p, e)
      BY <2>2, <2>4
    <3> QED BY <2>1, <3>3, <3>4, PageSteps
  <2> QED BY <2>3, <2>4
<1> QED BY <1>1, <1>2, <1>3

\* The user types and clicks.
LEMMA UserKeepsInv ==
  ASSUME Inv, NEW p \in Pages,
         Type(p) \/ addNewShare(p) \/ EditShare(p) \/ closeWindow(p) \/ CloseFails(p)
  PROVE  Inv'
<1> DEFINE s == page[p]
<1>1. UNCHANGED <<fatal, cfg, disk, files, wrote>> /\ UNCHANGED reqs
  BY DEF Type, addNewShare, EditShare, closeWindow, CloseFails, apiVars
<1>2. PageShape(s)
  BY DEF Inv, PagesShape
<1>3. CASE Type(p)
  <2>1. s.screen = "wizard" /\ s.stage = 0 /\ Fresh(p)
    BY <1>3 DEF Type, OnStage, Fresh
  <2>2. CASE \E c \in Circles \union {None} : Show(p, [s EXCEPT !.circle = c])
    <3> PICK c \in Circles \union {None} : Show(p, [s EXCEPT !.circle = c])
      BY <2>2
    <3>1. PageShape([s EXCEPT !.circle = c])
      BY <1>2, FieldsStay
    <3> QED BY <1>1, <2>1, <3>1, PageSteps
  <2>3. CASE \E f \in BOOLEAN : Show(p, [s EXCEPT !.filled = f])
    <3> PICK f \in BOOLEAN : Show(p, [s EXCEPT !.filled = f])
      BY <2>3
    <3>1. PageShape([s EXCEPT !.filled = f])
      BY <1>2, FieldsStay
    <3> QED BY <1>1, <2>1, <3>1, PageSteps
  <2> QED BY <1>3, <2>2, <2>3 DEF Type
<1>4. ASSUME NEW state, Show(p, state), PageShape(state),
             s.screen = "wizard", s.stage # 0, state.screen = s.screen, state.stage = s.stage
      PROVE  Inv'
  BY <1>1, <1>4, PageSteps
<1>5. CASE addNewShare(p)
  <2>1. s.screen = "wizard" /\ s.stage # 0
    BY <1>5 DEF addNewShare, AddButton, OnStage
  <2> DEFINE rows == Append(s.shares, Row(None, None, TRUE))
             n == [s EXCEPT !.shares = rows]
  <2>2. Show(p, n)
    BY <1>5 DEF addNewShare
  <2>3. PageShape(n) /\ n.screen = s.screen /\ n.stage = s.stage
    BY <1>2, FieldsStay
  <2> QED BY <1>4, <2>1, <2>2, <2>3
<1>6. CASE EditShare(p)
  <2>1. s.screen = "wizard" /\ s.stage # 0
    BY <1>6 DEF EditShare, OnStage
  <2>2. \E rows : Show(p, [s EXCEPT !.shares = rows])
    <3>1. PICK i \in DOMAIN s.shares :
             \/ \E l \in Locals \union {None} : Show(p, [s EXCEPT !.shares[i].localPath = l])
             \/ \E n \in Names \union {None} : Show(p, [s EXCEPT !.shares[i].share = n])
             \/ Show(p, [s EXCEPT !.shares = RemoveAt(@, i)])
      BY <1>6 DEF EditShare
    <3> QED BY <3>1
  <2> PICK rows : Show(p, [s EXCEPT !.shares = rows])
    BY <2>2
  <2> DEFINE n == [s EXCEPT !.shares = rows]
  <2>3. PageShape(n) /\ n.screen = s.screen /\ n.stage = s.stage
    BY <1>2, FieldsStay
  <2> QED BY <1>4, <2>1, <2>3
<1>7. CASE closeWindow(p) \/ CloseFails(p)
  <2>1. s.screen = "wizard" /\ s.stage # 0
    BY <1>7 DEF closeWindow, CloseButton, CloseFails, OnStage
  <2>2. PICK e : Show(p, [s EXCEPT !.closing = e])
    BY <1>7 DEF closeWindow, CloseFails
  <2> DEFINE n == [s EXCEPT !.closing = e]
  <2>3. PageShape(n) /\ n.screen = s.screen /\ n.stage = s.stage
    BY <1>2, FieldsStay
  <2> QED BY <1>4, <2>1, <2>2, <2>3
<1> QED BY <1>3, <1>5, <1>6, <1>7

\* Forms that the URL has filled in.
LEMMA PrefilledShape ==
  ASSUME NEW form \in Prefilled
  PROVE  PageShape(form) /\ form.screen = "wizard" /\ form.stage = 0
<1>1. PICK c \in Circles \union {None}, f \in BOOLEAN :
        form = Form(c, f)
  BY DEF Prefilled
<1> DEFINE b == Blank("wizard")
           n == [b EXCEPT !.circle = c]
<1>2. PageShape(b) /\ b.screen = "wizard" /\ b.stage = 0
  BY BlankShape
<1> HIDE DEF b
<1>3. PageShape(n) /\ n.screen = "wizard" /\ n.stage = 0
  BY <1>2, FieldsStay
<1>4. form = [n EXCEPT !.filled = f]
  BY <1>1 DEF b, Form
<1> HIDE DEF n
<1> QED BY <1>3, <1>4, FieldsStay

\* saveShares() registers nothing.
LEMMA NextCallIsHarmless ==
  ASSUME NEW p \in Pages, NEW i
  PROVE  NextCall(p, i).page = p /\ NextCall(p, i).what # "register"
<1> DEFINE rows == page[p].shares
           left == {j \in i + 1 .. Len(rows) : rows[j].localPath # None}
<1>1. openExplorer(p).page = p /\ openExplorer(p).what # "register"
  BY DEF openExplorer, Ask
<1>2. ASSUME NEW j
      PROVE  LET a == addShare(p, page[p].circle, rows[j].share, rows[j].localPath, j)
             IN  a.page = p /\ a.what # "register"
  BY DEF addShare, Ask
<1>3. \/ NextCall(p, i) = openExplorer(p)
      \/ \E j : NextCall(p, i) = addShare(p, page[p].circle, rows[j].share, rows[j].localPath, j)
  BY DEF NextCall
<1> QED BY <1>1, <1>2, <1>3

\* An answer arrives.
LEMMA AnswersKeepInv ==
  ASSUME Inv, NEW p \in Pages, Answered(p)
  PROVE  Inv'
<1> DEFINE s == page[p]
<1>1. PICK a \in answers : Load(p, a) \/ CircleAdded(p, a) \/ ShareSaved(p, a)
  BY DEF Answered
<1>2. UNCHANGED <<fatal, cfg, disk, files, wrote>> /\ PageShape(s)
  BY <1>1 DEF Load, CircleAdded, ShareSaved, Inv, PagesShape
<1>3. ASSUME NEW r, r.page \in Pages, r.what # "register", Send(r), UNCHANGED page
      PROVE  Inv'
  BY <1>2, <1>3, PageSteps
<1>4. ASSUME NEW state, UNCHANGED reqs, Show(p, state), PageShape(state),
             \/ Fresh(p)
             \/ state.screen \notin {"new", "loading"} /\ state.stage # 0
      PROVE  Inv'
  BY <1>2, <1>4, PageSteps
<1>5. CASE Load(p, a)
  <2>1. Fresh(p)
    BY <1>5 DEF Load, Fresh
  <2>2. CASE Send(getConfig(p)) /\ UNCHANGED page
    <3>1. getConfig(p).page = p /\ getConfig(p).what = "getConfig"
      BY DEF getConfig, Ask
    <3> QED BY <1>3, <2>2, <3>1
  <2>3. CASE (\E form \in Prefilled : Show(p, form)) /\ UNCHANGED reqs
    <3>1. PICK form \in Prefilled : Show(p, form)
      BY <2>3
    <3>2. PageShape(form)
      BY PrefilledShape
    <3> QED BY <1>4, <2>1, <2>3, <3>1, <3>2
  <2> QED BY <1>5, <2>2, <2>3 DEF Load
<1>6. ASSUME s.screen = "wizard", s.stage # 0, Caught(p, a)
      PROVE  Inv'
  <2> DEFINE e == [s EXCEPT !.error = rqToError(a)]
  <2>1. UNCHANGED reqs /\ Show(p, e)
    BY <1>6 DEF Caught
  <2>2. PageShape(e) /\ e.screen = "wizard" /\ e.stage # 0
    BY <1>2, <1>6, FieldsStay
  <2> HIDE DEF e
  <2> QED BY <1>4, <2>1, <2>2
<1>7. CASE CircleAdded(p, a)
  <2>1. s.screen = "wizard" /\ s.stage # 0
    BY <1>7 DEF CircleAdded, OnStage
  <2>2. CASE Send(sharesInCircle(p, page[p].circle)) /\ UNCHANGED page
    <3>1. /\ sharesInCircle(p, page[p].circle).page = p
          /\ sharesInCircle(p, page[p].circle).what = "sharesInCircle"
      BY DEF sharesInCircle, Ask
    <3> QED BY <1>3, <2>2, <3>1
  <2>3. ASSUME NEW rows, Show(p, [[s EXCEPT !.shares = rows] EXCEPT !.stage = 2]), UNCHANGED reqs
        PROVE  Inv'
    <3> DEFINE n == [s EXCEPT !.shares = rows]
               m == [n EXCEPT !.stage = 2]
    <3>1. Show(p, m)
      BY <2>3
    <3>2. PageShape(n) /\ n.screen = s.screen
      BY <1>2, FieldsStay
    <3> HIDE DEF n
    <3>3. PageShape(m) /\ m.screen = s.screen /\ m.stage = 2
      BY <3>2, FieldsStay
    <3> HIDE DEF m
    <3>4. m.screen \notin {"new", "loading"} /\ m.stage # 0
      BY <2>1, <3>3
    <3> QED BY <1>4, <2>3, <3>1, <3>3, <3>4
  <2> QED BY <1>6, <1>7, <2>1, <2>2, <2>3 DEF CircleAdded
<1>8. CASE ShareSaved(p, a)
  <2>1. s.screen = "wizard" /\ s.stage # 0
    BY <1>8 DEF ShareSaved, OnStage
  <2>2. CASE Send(NextCall(p, a.to.row)) /\ UNCHANGED page
    BY <1>3, <2>2, NextCallIsHarmless
  <2>3. CASE Show(p, [page[p] EXCEPT !.stage = 4]) /\ UNCHANGED reqs
    <3> DEFINE n == [s EXCEPT !.stage = 4]
    <3>1. Show(p, n) /\ UNCHANGED reqs
      BY <2>3
    <3>2. PageShape(n) /\ n.screen = s.screen /\ n.stage = 4
      BY <1>2, FieldsStay
    <3> HIDE DEF n
    <3> QED BY <1>4, <2>1, <3>1, <3>2
  <2> QED BY <1>6, <1>8, <2>1, <2>2, <2>3 DEF ShareSaved
<1> QED BY <1>1, <1>5, <1>7, <1>8

\* The shares are saved, and the explorer opened.
LEMMA SaveKeepsInv ==
  ASSUME Inv, NEW p \in Pages, saveShares(p)
  PROVE  Inv'
<1> DEFINE n == [page[p] EXCEPT !.stage = 3]
<1>1. UNCHANGED <<fatal, cfg, disk, files, wrote>> /\ Show(p, n) /\ Send(NextCall(p, 0))
  BY DEF saveShares
<1>2. page[p].screen = "wizard" /\ PageShape(page[p])
  BY DEF saveShares, SaveButton, OnStage, Inv, PagesShape
<1>3. PageShape(n) /\ n.screen = "wizard" /\ n.stage = 3
  BY <1>2, FieldsStay
<1> HIDE DEF n
<1>4. NextCall(p, 0).page \in Pages /\ NextCall(p, 0).what # "register"
  BY NextCallIsHarmless
<1> QED BY <1>1, <1>3, <1>4, PageSteps

-----------------------------------------------------------------------------
\* The invariant, and what it says of certificates.

\* In the beginning the client's configuration is one that has its files, and no
\* page has registered anything.
LEMMA Initially ==
  ASSUME Init
  PROVE  Inv
<1>1. /\ fatal = "no" /\ cfg = NoConfig /\ reqs = {}
      /\ disk \in Configured
      /\ files = [c \in Circles |->
           IF disk[c] = None THEN [key |-> None, crt |-> None, ca |-> FALSE]
                             ELSE [key |-> c, crt |-> c, ca |-> TRUE]]
      /\ wrote = [c \in Circles |-> IF disk[c] = None THEN {} ELSE {c}]
      /\ page = [p \in Pages |-> Blank("new")]
  BY DEF Init, ApiInit
<1>2. ConfigShape
  BY <1>1, ConfiguredAssumption, NoConfigIsEmpty DEF ConfigShape, Configs
<1>3. FilesShape
  <2>1. \A c \in Circles : IsFiniteSet(wrote[c])
    <3> TAKE c \in Circles
    <3>1. wrote[c] = {} \/ wrote[c] = {c}
      BY <1>1
    <3> QED BY <3>1, FS_EmptySet, FS_Singleton
  <2> QED BY <1>1, <2>1 DEF FilesShape
<1>4. PagesShape
  BY <1>1, BlankShape DEF PagesShape
<1>5. Known = {c \in Circles : disk[c] # None}
  BY <1>1, NoConfigIsEmpty DEF Known, Listed
<1>6. KnownIsWritten
  BY <1>1, <1>5 DEF KnownIsWritten
<1>7. FreshHasNone
  BY <1>1, PagesAreNotCircles DEF FreshHasNone
<1>8. HandlersShape /\ OneRegistration /\ Noted /\ Writing /\ FatalNeedsTwo
  BY <1>1 DEF HandlersShape, OneRegistration, Noted, Writing, FatalNeedsTwo
<1> QED BY <1>2, <1>3, <1>4, <1>6, <1>7, <1>8 DEF Inv

\* Every step keeps it.
LEMMA StepsKeepInv ==
  ASSUME Inv, [Next]_vars
  PROVE  Inv'
<1>1. CASE UNCHANGED vars
  BY <1>1, Unchanged, QuietHandlers DEF vars
<1>2. CASE Api /\ UNCHANGED page
  <2>1. CASE \E h \in reqs : HandlerStep(h)
    <3> PICK h \in reqs : HandlerStep(h)
      BY <2>1
    <3> QED
      BY <1>2, RegisterRpcKeepsInv, WriteKeyKeepsInv, WriteCrtKeepsInv, WriteCaKeepsInv,
         AddCircleKeepsInv, AddShareKeepsInv, ReloadReadKeepsInv, ReloadPublishKeepsInv,
         ReloadCertsKeepsInv, LookersKeepInv
      DEF HandlerStep
  <2> QED BY <1>2, <2>1, StartKeepsInv, CrashKeepsInv DEF Api
<1>3. ASSUME NEW p \in Pages, Answered(p) \/ FetchRejects(p) \/ User(p) \/ CloseFails(p)
      PROVE  Inv'
  BY <1>3, AnswersKeepInv, ScreensKeepInv, UserKeepsInv, AddCircleRegistersOnce, SaveKeepsInv
  DEF User
<1>4. CASE \E a \in answers : Discard(a)
  BY <1>4, Unchanged, QuietHandlers DEF Discard
<1> QED BY <1>1, <1>2, <1>3, <1>4 DEF Next

\* The circles that are listed, and what is noted of them, are as the registrations
\* and the pages left them, in every state that client and pages get to.
THEOREM WizardInvHolds == Spec => []Inv
<1>1. Init => Inv
  BY Initially
<1>2. Inv /\ [Next]_vars => Inv'
  BY StepsKeepInv
<1> QED BY <1>1, <1>2, PTL DEF Spec

\* A circle that only one registration wrote has a key and certificates that belong
\* together, and log.Fatalf of a certificate needs two of one circle: for any number
\* of pages, circles, handlers and faults (register.Register, LoadAllCerts).
THEOREM CertsStayTogether == Spec => []CertsBelongTogether
<1>1. ASSUME Inv PROVE CertsBelongTogether
  <2>1. ASSUME NEW c \in Listed(disk) \union Listed(cfg), Cardinality(wrote[c]) = 1
        PROVE  LoadCerts(c)
    <3>1. c \in Circles /\ c \in Known /\ IsFiniteSet(wrote[c])
      BY <1>1 DEF Known, Listed, Inv, FilesShape
    <3>2. PICK w : wrote[c] = {w}
      BY <2>1, <3>1, FS_Singleton
    <3>3. files[c].key = w /\ files[c].crt = w /\ files[c].ca
      BY <1>1, <3>1, <3>2 DEF Inv, KnownIsWritten
    <3>4. w # None
      BY <1>1, <3>1, <3>2, NoneIsNothing DEF Inv, FilesShape
    <3> QED BY <3>3, <3>4 DEF LoadCerts
  <2>2. ASSUME fatal = "certs"
        PROVE  \E c \in Circles : Cardinality(wrote[c]) > 1
    <3>1. PICK c \in Circles : WrittenTwice(c)
      BY <1>1, <2>2 DEF Inv, FatalNeedsTwo
    <3>2. IsFiniteSet(wrote[c])
      BY <1>1 DEF Inv, FilesShape
    <3>3. wrote[c] # {} /\ ~\E x : wrote[c] = {x}
      BY <3>1 DEF WrittenTwice
    <3>4. Cardinality(wrote[c]) # 0 /\ Cardinality(wrote[c]) # 1
      BY <3>2, <3>3, FS_EmptySet, FS_Singleton
    <3>5. Cardinality(wrote[c]) \in Nat
      BY <3>2, FS_CardinalityType
    <3> QED BY <3>4, <3>5
  <2> QED BY <2>1, <2>2 DEF CertsBelongTogether
<1> QED BY <1>1, WizardInvHolds, PTL

-----------------------------------------------------------------------------
(***************************************************************************)
(* What is under way between a page and its client.                        *)
(***************************************************************************)

Shown(p) == page[p].screen # "closed"

\* The errors of a page.
NoError(p) == page[p].error = ""

Refused(p) == page[p].error \notin {"", "unreachable"}

\* A page has one request or one answer under way at a time.
OneInFlight ==
  /\ \A h, g \in reqs : h.req.page = g.req.page => h = g
  /\ \A a, b \in answers : a.to.page = b.to.page => a = b
  /\ \A h \in reqs : \A a \in answers : h.req.page # a.to.page

\* The stages that wait for a call.
Fits(p, what) ==
  \/ ~Shown(p)
  \/ page[p].screen = "loading" /\ what \in {"getVersion", "getConfig"}
  \/ OnStage(p, 1) /\ NoError(p) /\ what \in {"register", "sharesInCircle"}
  \/ OnStage(p, 3) /\ NoError(p) /\ what \in {"addShare", "openExplorer"}

\* What is under way belongs to what the page shows.
EverythingFits ==
  /\ \A h \in reqs : h.req.page \in Pages /\ Fits(h.req.page, h.req.what)
  /\ \A a \in answers : a.to.page \in Pages /\ Fits(a.to.page, a.to.what)

\* The stages that the user leaves have no error.
Untroubled == \A p \in Pages : OnStage(p, 0) \/ OnStage(p, 2) => NoError(p)

FlightInv == OneInFlight /\ EverythingFits

\* A registration that has not stored its circle yet, or has failed.
Failing(p) ==
  \/ \E h \in reqs : Registers(h) /\ h.req.page = p /\ h.at \notin Stored
  \/ \E a \in answers : a.to.page = p /\ a.to.what = "register" /\ ~a.ok
  \/ OnStage(p, 1) /\ Refused(p)

\* One that has left no circle behind: a write of config.yaml that fails may.
Unstored(p) ==
  \/ \E h \in reqs : Registers(h) /\ h.req.page = p /\ h.at \notin Stored
  \/ \E a \in answers : a.to.page = p /\ a.to.what = "register" /\ ~a.ok /\ a.why # "config"
  \/ OnStage(p, 1) /\ Refused(p) /\ page[p].error # "config"

\* A circle that is listed was there at the first start, or stored.
KnownIsStored == \A c \in Known : \E w \in wrote[c] : w \in Pages => ~Unstored(w)

\* Two pages have written, or one whose registration has not failed.
Busy ==
  \E v \in Pages : \E c \in Circles :
    /\ v \in wrote[c]
    /\ \/ ~Failing(v)
       \/ \E w \in Pages : \E d \in Circles : w # v /\ w \in wrote[d]

\* A circle that only the client's memory has was there at the first start, or more
\* went on than one registration that failed.
MemoryIsStored == \A c \in Listed(cfg) : c \in Listed(disk) \/ c \in wrote[c] \/ Busy

OwnNames == \A c \in Circles : wrote[c] \intersect Circles \subseteq {c}

ListsArrive == \A a \in answers : a.to.what = "sharesInCircle" => a.ok

FailureInv == KnownIsStored /\ MemoryIsStored /\ OwnNames /\ ListsArrive

\* A page that has got its circle.
Reached(p) ==
  \/ \E h \in reqs : h.req.page = p /\ h.req.what \in {"sharesInCircle", "addShare", "openExplorer"}
  \/ \E a \in answers :
       /\ a.to.page = p
       /\ \/ a.to.what \in {"sharesInCircle", "addShare", "openExplorer"}
          \/ a.to.what = "register" /\ a.ok
  \/ page[p].screen = "wizard" /\ page[p].stage \in {2, 3, 4}

ReachedHaveWritten == \A p \in Pages : Reached(p) => \E c \in Circles : p \in wrote[c]

\* Rows, names and paths.
RowsOf(p) ==
  /\ page[p].shares \in Seq(Rows)
  /\ \A i \in DOMAIN page[p].shares :
       ~page[p].shares[i].isNewShare => page[p].shares[i].share # None
  /\ OnStage(p, 3) => canSaveShares(p)

RowsOK == \A p \in Pages : RowsOf(p)

NamesOK ==
  /\ \A h \in reqs : h.req.what = "addShare" =>
       h.req.share \in Names /\ h.req.local \in Locals /\ h.req.row \in Nat
  /\ \A a \in answers :
       /\ a.shares \in Seq(Names) \union {None}
       /\ a.to.what = "addShare" => a.to.row \in Nat

ConfigsOK == cfg \in Configs /\ disk \in Configs

\* The page's circle is in the configuration, and the client has what the disk has.
InConfig(p) == page[p].circle \in Listed(disk) /\ cfg = disk

\* Nothing is wrong with what is on disk, and a client that runs serves it.
Sound(p) ==
  /\ page[p].circle \in Listed(disk)
  /\ \A c \in Listed(disk) : Resolves(disk, c)
  /\ up => cfg = disk /\ served[page[p].circle] = disk[page[p].circle]

\* The first k rows are on disk.
Saved(p, k) ==
  DistinctNames(p) => \A i \in RowsToShare(p) :
    i <= k => disk[page[p].circle][page[p].shares[i].share] = page[p].shares[i].localPath

AllSaved(p) == Saved(p, Len(page[p].shares))

RequestInv(p, h) ==
  /\ Registers(h) =>
       /\ h.req.circle = page[p].circle
       /\ h.at \in {"reload", "publish"} => InConfig(p)
       /\ h.at = "publish" => h.snap = disk
       /\ h.at \in {"certs", "wait"} => Sound(p)
  /\ h.req.what = "sharesInCircle" => Sound(p)
  /\ h.req.what = "addShare" =>
       /\ h.req.circle = page[p].circle
       /\ h.req.row \in RowsToShare(p)
       /\ h.req.share = page[p].shares[h.req.row].share
       /\ h.req.local = page[p].shares[h.req.row].localPath
       /\ IF h.at = "start" THEN Sound(p) /\ Saved(p, h.req.row - 1)
                            ELSE InConfig(p) /\ Saved(p, h.req.row)
       /\ h.at = "publish" => h.snap = disk
  /\ h.req.what = "openExplorer" => Sound(p) /\ AllSaved(p)

AnswerInv(p, a) ==
  /\ a.to.what = "register" /\ a.ok => Sound(p)
  /\ a.to.what = "sharesInCircle" => Sound(p)
  /\ a.to.what = "addShare" /\ a.ok =>
       Sound(p) /\ a.to.row \in RowsToShare(p) /\ Saved(p, a.to.row)
  /\ a.to.what = "openExplorer" => Sound(p) /\ AllSaved(p)

Progress(p) ==
  /\ \A h \in reqs : h.req.page = p => RequestInv(p, h)
  /\ \A a \in answers : a.to.page = p => AnswerInv(p, a)
  /\ OnStage(p, 2) => Sound(p)
  /\ OnStage(p, 4) => Sound(p) /\ AllSaved(p)

ProgressInv == \A p \in Pages : Shown(p) /\ Alone(p) => Progress(p)

SharingInv == RowsOK /\ NamesOK /\ ConfigsOK /\ ReachedHaveWritten /\ ProgressInv

WizardInv == Inv /\ FlightInv /\ Untroubled /\ FailureInv /\ SharingInv

-----------------------------------------------------------------------------
\* What the steps of a handler do to requests and answers.

\* A handler that goes to its next step.
LEMMA GotoIs ==
  ASSUME Inv, NEW h \in reqs, NEW at, Goto(h, at)
  PROVE  \E n : /\ n.req = h.req /\ n.at = at /\ n.snap = h.snap
                /\ reqs' = (reqs \ {h}) \union {n}
<1> DEFINE n == [h EXCEPT !.at = at]
<1>1. h = [req |-> h.req, at |-> h.at, snap |-> h.snap]
  BY DEF Inv, HandlersShape, HandlerShape
<1>2. n = [req |-> h.req, at |-> at, snap |-> h.snap]
  BY <1>1
<1>3. n.req = h.req /\ n.at = at /\ n.snap = h.snap
  BY <1>2
<1> QED BY <1>3 DEF Goto

\* The list of a finite set.
LEMMA SetToSeqIsList ==
  ASSUME NEW S, IsFiniteSet(S)
  PROVE  SetToSeq(S) \in Seq(S)
<1> DEFINE n == Cardinality(S)
<1>1. n \in Nat /\ ExistsBijection(1..n, S)
  BY FS_CardinalityType
<1> HIDE DEF n
<1>2. PICK f \in Bijection(1..n, S) : TRUE
  BY <1>1 DEF ExistsBijection
<1>3. f \in [1..n -> S] /\ IsInjective(f)
  BY <1>2 DEF Bijection, Injection
<1>4. (CHOOSE g \in [1..n -> S] : IsInjective(g)) \in [1..n -> S]
  BY <1>3
<1> QED BY <1>1, <1>4 DEF SetToSeq, n

\* The shares that anybody may list are names.
LEMMA ListsAreNames ==
  ASSUME NEW theirs \in SUBSET PeerShares
  PROVE  LET seen == theirs \union UNION {SharesIn(served, c) : c \in Listed(served)}
         IN  SetToSeq(seen) \in Seq(Names)
<1> DEFINE seen == theirs \union UNION {SharesIn(served, c) : c \in Listed(served)}
<1>1. seen \subseteq Names
  BY NamesAssumption DEF SharesIn
<1> HIDE DEF seen
<1>2. IsFiniteSet(seen)
  BY <1>1, FS_Subset, NamesAssumption
<1>3. SetToSeq(seen) \in Seq(seen)
  BY <1>2, SetToSeqIsList
<1>4. Seq(seen) \subseteq Seq(Names)
  BY <1>1
<1>5. SetToSeq(seen) \in Seq(Names)
  BY <1>3, <1>4
<1> QED BY <1>5 DEF seen

\* A handler moves on, or answers, or dies with all others.
Moves(h, n) ==
  /\ n.req = h.req /\ reqs' = (reqs \ {h}) \union {n} /\ answers' = answers
  /\ Registers(h) /\ h.at \in Stored => n.at \in Stored

AnswersBy(h, a) ==
  /\ a.to = h.req /\ reqs' = reqs \ {h} /\ answers' = answers \union {a}
  /\ Registers(h) => (a.ok => h.at = "wait") /\ (~a.ok => h.at \notin Stored)
  /\ h.req.what = "sharesInCircle" => a.ok
  /\ a.shares \in Seq(Names) \union {None}

LEMMA DoneAnswers ==
  ASSUME NEW h \in reqs, Done(h), Registers(h) => h.at = "wait"
  PROVE  \E a : AnswersBy(h, a) /\ a.ok
<1> DEFINE a == Ok(h.req)
<1>1. a.to = h.req /\ a.ok = TRUE /\ a.shares = None
  BY DEF Ok
<1>2. reqs' = reqs \ {h} /\ answers' = answers \union {a}
  BY DEF Done, Answer
<1> HIDE DEF a
<1> QED BY <1>1, <1>2 DEF AnswersBy

LEMMA FailAnswers ==
  ASSUME NEW h \in reqs, NEW why, Fail(h, why), Registers(h) => h.at \notin Stored,
         h.req.what # "sharesInCircle"
  PROVE  \E a : AnswersBy(h, a) /\ ~a.ok /\ a.why = why
<1> DEFINE a == [to |-> h.req, ok |-> FALSE, why |-> why, shares |-> None]
<1>1. a.to = h.req /\ a.ok = FALSE /\ a.shares = None /\ a.why = why
  OBVIOUS
<1>2. reqs' = reqs \ {h} /\ answers' = answers \union {a}
  BY DEF Fail, Answer
<1> HIDE DEF a
<1> QED BY <1>1, <1>2 DEF AnswersBy

\* Goto as a move.
LEMMA GotoMovesOn ==
  ASSUME Inv, NEW h \in reqs, NEW at, Goto(h, at), answers' = answers,
         Registers(h) /\ h.at \in Stored => at \in Stored
  PROVE  \E n : Moves(h, n) /\ n.at = at /\ n.snap = h.snap
<1>1. PICK n : /\ n.req = h.req /\ n.at = at /\ n.snap = h.snap
               /\ reqs' = (reqs \ {h}) \union {n}
  BY GotoIs
<1> QED BY <1>1 DEF Moves

\* writeNewConfig, as the two handlers that store something call it.
LEMMA StoreMoves ==
  ASSUME Inv, NEW h \in reqs, NEW new, NEW inPlace, writeNewConfig(h, new, inPlace, "reload"),
         h.at \notin Stored, h.req.what # "sharesInCircle"
  PROVE  \/ /\ cfg' = new /\ disk' = new
            /\ \E n : Moves(h, n) /\ n.at = "reload"
         \/ /\ cfg' = inPlace /\ (disk' = disk \/ disk' \in CutOff(new))
            /\ \E a : AnswersBy(h, a) /\ ~a.ok /\ a.why = "config"
<1>1. CASE cfg' = new /\ disk' = new /\ Goto(h, "reload") /\ answers' = answers
  BY <1>1, GotoMovesOn DEF Stored
<1>2. CASE cfg' = inPlace /\ (disk' = disk \/ disk' \in CutOff(new)) /\ Fail(h, "config")
  BY <1>2, FailAnswers
<1> QED BY <1>1, <1>2 DEF writeNewConfig, WrittenInPart

\* The two handlers that store something.
LEMMA CircleMoves ==
  ASSUME Inv, NEW h \in reqs, AddCircleAndStore(h)
  PROVE  LET d == h.req.circle
             new == WithCircle(d)
         IN  /\ Registers(h) /\ h.at = "add" /\ d \in Circles /\ wrote' = wrote
             /\ \/ cfg' = new /\ disk' = new /\ \E n : Moves(h, n) /\ n.at = "reload"
                \/ UNCHANGED <<cfg, disk>> /\ \E a : AnswersBy(h, a) /\ ~a.ok
                \/ /\ cfg' = cfg \/ (cfg' = new /\ cfg[d] # None)
                   /\ disk' = disk \/ disk' \in CutOff(new)
                   /\ \E a : AnswersBy(h, a) /\ ~a.ok /\ a.why = "config"
<1> DEFINE d == h.req.circle
           new == WithCircle(d)
           old == IF cfg[d] = None THEN cfg ELSE new
<1>1. h.req.what = "register" /\ h.at = "add" /\ h.at \notin Stored /\ wrote' = wrote
  BY DEF AddCircleAndStore, At, Stored
<1>2. d \in Circles
  BY <1>1 DEF Inv, HandlersShape, HandlerShape, Registers
<1>3. NoDefaultMountpoint(h) \/ writeNewConfig(h, new, old, "reload")
  BY DEF AddCircleAndStore
<1>4. cfg' = old => cfg' = cfg \/ (cfg' = new /\ cfg[d] # None)
  OBVIOUS
<1> HIDE DEF new, old, d
<1>5. CASE NoDefaultMountpoint(h)
  <2>1. UNCHANGED <<cfg, disk>> /\ Fail(h, "mountpoint")
    BY <1>5 DEF NoDefaultMountpoint
  <2> QED BY <1>1, <1>2, <2>1, FailAnswers DEF Registers, d, new
<1>6. CASE writeNewConfig(h, new, old, "reload")
  <2>1. \/ /\ cfg' = new /\ disk' = new
           /\ \E n : Moves(h, n) /\ n.at = "reload"
        \/ /\ cfg' = old /\ (disk' = disk \/ disk' \in CutOff(new))
           /\ \E a : AnswersBy(h, a) /\ ~a.ok /\ a.why = "config"
    BY <1>1, <1>6, StoreMoves
  <2> QED BY <1>1, <1>2, <1>4, <2>1 DEF Registers, d, new
<1> QED BY <1>3, <1>5, <1>6

LEMMA ShareMoves ==
  ASSUME Inv, NEW h \in reqs, AddShareAndStore(h)
  PROVE  LET new == WithShare(h.req)
         IN  /\ h.req.what = "addShare" /\ h.at = "start" /\ up /\ wrote' = wrote
             /\ \/ UNCHANGED <<cfg, disk>> /\ \E a : AnswersBy(h, a)
                \/ /\ cfg[h.req.circle] # None /\ cfg' = new
                   /\ \/ disk' = new /\ \E n : Moves(h, n)
                      \/ (disk' = disk \/ disk' \in CutOff(new)) /\ \E a : AnswersBy(h, a)
<1> DEFINE new == WithShare(h.req)
<1>1. h.req.what = "addShare" /\ h.at = "start" /\ h.at \notin Stored /\ up /\ wrote' = wrote
  BY DEF AddShareAndStore, At, Stored
<1>2. \/ NoDefaultMountpoint(h)
      \/ cfg[h.req.circle] # None /\ writeNewConfig(h, new, new, "reload")
      \/ Fail(h, "unknown circle") /\ UNCHANGED <<cfg, disk>>
  BY DEF AddShareAndStore
<1> HIDE DEF new
<1>3. CASE NoDefaultMountpoint(h) \/ (Fail(h, "unknown circle") /\ UNCHANGED <<cfg, disk>>)
  <2>1. UNCHANGED <<cfg, disk>> /\ (Fail(h, "mountpoint") \/ Fail(h, "unknown circle"))
    BY <1>3 DEF NoDefaultMountpoint
  <2>2. \E a : AnswersBy(h, a)
    BY <1>1, <2>1, FailAnswers
  <2> QED BY <1>1, <2>1, <2>2
<1>4. CASE cfg[h.req.circle] # None /\ writeNewConfig(h, new, new, "reload")
  <2>1. \/ /\ cfg' = new /\ disk' = new
           /\ \E n : Moves(h, n) /\ n.at = "reload"
        \/ /\ cfg' = new /\ (disk' = disk \/ disk' \in CutOff(new))
           /\ \E a : AnswersBy(h, a) /\ ~a.ok /\ a.why = "config"
    BY <1>1, <1>4, StoreMoves
  <2> QED BY <1>1, <1>4, <2>1 DEF new
<1> QED BY <1>2, <1>3, <1>4

\* Every step of every handler.
LEMMA HandlerMoves ==
  ASSUME Inv, NEW h \in reqs, HandlerStep(h)
  PROVE  \/ \E n : Moves(h, n)
         \/ \E a : AnswersBy(h, a)
         \/ reqs' = {} /\ answers' = answers
<1>1. CASE RegisterRpc(h)
  <2>1. h.req.what = "register" /\ h.at \notin Stored
    BY <1>1 DEF RegisterRpc, At, Stored
  <2> QED BY <1>1, <2>1, GotoMovesOn, FailAnswers DEF RegisterRpc
<1>2. CASE WriteKey(h)
  <2>1. h.req.what = "register" /\ h.at \notin Stored
    BY <1>2 DEF WriteKey, At, Stored
  <2> QED BY <1>2, <2>1, GotoMovesOn, FailAnswers DEF WriteKey
<1>3. CASE WriteCrt(h)
  <2>1. h.req.what = "register" /\ h.at \notin Stored
    BY <1>3 DEF WriteCrt, At, Stored
  <2> QED BY <1>3, <2>1, GotoMovesOn, FailAnswers DEF WriteCrt
<1>4. CASE WriteCa(h)
  <2>1. h.req.what = "register" /\ h.at \notin Stored
    BY <1>4 DEF WriteCa, At, Stored
  <2> QED BY <1>4, <2>1, GotoMovesOn, FailAnswers DEF WriteCa
<1>5. CASE AddCircleAndStore(h)
  BY <1>5, CircleMoves
<1>6. CASE AddShareAndStore(h)
  BY <1>6, ShareMoves
<1>7. CASE ReloadRead(h)
  <2> DEFINE n == [req |-> h.req, at |-> "publish", snap |-> cfg]
  <2>1. n.req = h.req /\ n.at = "publish"
    OBVIOUS
  <2>2. reqs' = (reqs \ {h}) \union {n} /\ answers' = answers /\ h.at = "reload"
    BY <1>7 DEF ReloadRead
  <2> HIDE DEF n
  <2> QED BY <2>1, <2>2 DEF Moves, Stored
<1>8. CASE ReloadPublish(h)
  <2>1. h.at = "publish"
    BY <1>8 DEF ReloadPublish
  <2>2. CASE Die("shares") /\ answers' = answers
    BY <2>2 DEF Die
  <2>3. CASE Goto(h, "certs") /\ answers' = answers
    BY <2>3, GotoMovesOn DEF Stored
  <2>4. CASE h.req.what = "addShare" /\ (Done(h) \/ Fail(h, "invalid share"))
    BY <2>4, DoneAnswers, FailAnswers DEF Registers
  <2> QED BY <1>8, <2>2, <2>3, <2>4 DEF ReloadPublish
<1>9. CASE ReloadCerts(h)
  <2>1. answers' = answers
    BY <1>9 DEF ReloadCerts
  <2>2. CASE Goto(h, "wait")
    BY <2>1, <2>2, GotoMovesOn DEF Stored
  <2>3. CASE Die("certs")
    BY <2>1, <2>3 DEF Die
  <2> QED BY <1>9, <2>2, <2>3 DEF ReloadCerts
<1>10. CASE WaitForCircle(h)
  BY <1>10, DoneAnswers DEF WaitForCircle, At
<1>11. CASE SharesInCircle(h)
  <2>1. h.req.what = "sharesInCircle" /\ ~Registers(h)
    BY <1>11 DEF SharesInCircle, At, Registers
  <2>2. PICK list : list \in Seq(Names) \union {None} /\ Answer(h, [Ok(h.req) EXCEPT !.shares = list])
    BY <1>11, ListsAreNames DEF SharesInCircle
  <2> DEFINE a == [Ok(h.req) EXCEPT !.shares = list]
  <2>3. a.to = h.req /\ a.ok = TRUE /\ a.shares = list
    BY DEF Ok
  <2>4. reqs' = reqs \ {h} /\ answers' = answers \union {a}
    BY <2>2 DEF Answer
  <2> HIDE DEF a
  <2> QED BY <2>1, <2>2, <2>3, <2>4 DEF AnswersBy
<1>12. CASE OpenExplorer(h)
  <2>1. h.req.what = "openExplorer" /\ ~Registers(h)
    BY <1>12 DEF OpenExplorer, At, Registers
  <2> QED BY <1>12, <2>1, DoneAnswers, FailAnswers DEF OpenExplorer
<1>13. CASE RenderPage(h)
  <2>1. ~Registers(h)
    BY <1>13 DEF RenderPage, Registers
  <2> QED BY <1>13, <2>1, DoneAnswers DEF RenderPage
<1> QED BY <1>1, <1>2, <1>3, <1>4, <1>5, <1>6, <1>7, <1>8, <1>9, <1>10, <1>11, <1>12, <1>13
     DEF HandlerStep
-----------------------------------------------------------------------------
\* One thing under way.

\* Fits and OnStage only look at the page.
LEMMA SamePage ==
  ASSUME NEW p \in Pages, page'[p] = page[p]
  PROVE  /\ \A what : Fits(p, what)' <=> Fits(p, what)
         /\ \A s : OnStage(p, s)' <=> OnStage(p, s)
         /\ Shown(p)' <=> Shown(p)
BY DEF Fits, OnStage, Shown, NoError

\* The client takes requests and gives answers, one for one.
LEMMA ApiKeepsFlight ==
  ASSUME Inv, FlightInv, UNCHANGED page, Api
  PROVE  FlightInv'
<1>1. \A p \in Pages : \A what : Fits(p, what) => Fits(p, what)'
  BY SamePage
<1>2. CASE reqs' \subseteq reqs /\ answers' = answers
  BY <1>1, <1>2 DEF FlightInv, OneInFlight, EverythingFits
<1>3. ASSUME NEW h \in reqs, NEW n, Moves(h, n)
      PROVE  FlightInv'
  <2>1. /\ n.req.page = h.req.page /\ n.req.what = h.req.what
        /\ reqs' = (reqs \ {h}) \union {n} /\ answers' = answers
    BY <1>3 DEF Moves
  <2>2. OneInFlight'
    BY <2>1 DEF FlightInv, OneInFlight
  <2>3. EverythingFits'
    BY <1>1, <2>1 DEF FlightInv, EverythingFits
  <2> QED BY <2>2, <2>3 DEF FlightInv
<1>4. ASSUME NEW h \in reqs, NEW a, AnswersBy(h, a)
      PROVE  FlightInv'
  <2>1. /\ a.to.page = h.req.page /\ a.to.what = h.req.what
        /\ reqs' = reqs \ {h} /\ answers' = answers \union {a}
    BY <1>4 DEF AnswersBy
  <2>2. OneInFlight'
    BY <2>1 DEF FlightInv, OneInFlight
  <2>3. EverythingFits'
    BY <1>1, <2>1 DEF FlightInv, EverythingFits
  <2> QED BY <2>2, <2>3 DEF FlightInv
<1>5. ASSUME NEW h \in reqs, HandlerStep(h)
      PROVE  FlightInv'
  BY <1>2, <1>3, <1>4, <1>5, HandlerMoves
<1>6. CASE Crash
  <2>1. reqs' = {} /\ answers' = answers
    BY <1>6 DEF Crash, Die
  <2> QED BY <1>2, <2>1
<1>7. CASE Start
  BY <1>2, <1>7 DEF Start
<1> QED BY <1>5, <1>6, <1>7 DEF Api

\* A page that nothing is under way to.
LEMMA IdleStages ==
  ASSUME FlightInv, NEW p \in Pages, Shown(p), page[p].screen # "loading",
         ~NoError(p) \/ ~(OnStage(p, 1) \/ OnStage(p, 3))
  PROVE  /\ \A h \in reqs : h.req.page # p
         /\ \A a \in answers : a.to.page # p
<1>1. \A what : ~Fits(p, what)
  BY DEF Fits
<1> QED BY <1>1 DEF FlightInv, EverythingFits

\* A page that takes its answer has nothing else under way.
LEMMA ReceiveIdles ==
  ASSUME FlightInv, NEW p \in Pages, NEW a, Receive(p, a)
  PROVE  /\ a \in answers /\ a.to.page = p /\ answers' = answers \ {a} /\ Fits(p, a.to.what)
         /\ \A h \in reqs : h.req.page # p
         /\ \A b \in answers' : b.to.page # p
BY DEF Receive, FlightInv, OneInFlight, EverythingFits

\* A page that asks for what fits.
LEMMA PageFlight ==
  ASSUME FlightInv, NEW p \in Pages, NEW n,
         \A q \in Pages : q # p => page'[q] = page[q],
         answers' \subseteq answers, reqs' \subseteq reqs \union {n},
         \A h \in reqs : h.req.page # p,
         \A a \in answers' : a.to.page # p,
         n \in reqs' \ reqs => n.req.page = p /\ Fits(p, n.req.what)'
  PROVE  FlightInv'
<1>1. \A q \in Pages : q # p => \A what : Fits(q, what) => Fits(q, what)'
  BY SamePage
<1>2. OneInFlight'
  BY DEF FlightInv, OneInFlight
<1>3. ASSUME NEW h \in reqs'
      PROVE  h.req.page \in Pages /\ Fits(h.req.page, h.req.what)'
  <2>1. CASE h \in reqs
    BY <1>1, <2>1 DEF FlightInv, EverythingFits
  <2>2. CASE h \notin reqs
    <3>1. h = n /\ n \in reqs' \ reqs
      BY <2>2
    <3> QED BY <3>1
  <2> QED BY <2>1, <2>2
<1>4. ASSUME NEW a \in answers'
      PROVE  a.to.page \in Pages /\ Fits(a.to.page, a.to.what)'
  BY <1>1 DEF FlightInv, EverythingFits
<1>5. EverythingFits'
  BY <1>3, <1>4 DEF EverythingFits
<1> QED BY <1>2, <1>5 DEF FlightInv

\* A page that is closed leaves behind what is under way.
LEMMA CloseFlight ==
  ASSUME FlightInv, NEW p \in Pages,
         \A q \in Pages : q # p => page'[q] = page[q],
         ~Shown(p)', UNCHANGED <<reqs, answers>>
  PROVE  FlightInv'
<1>1. \A q \in Pages : \A what : Fits(q, what) => Fits(q, what)'
  <2> SUFFICES ASSUME NEW q \in Pages, NEW what, Fits(q, what)
               PROVE  Fits(q, what)'
    OBVIOUS
  <2>1. CASE q = p
    BY <2>1 DEF Fits
  <2>2. CASE q # p
    BY <2>2, SamePage
  <2> QED BY <2>1, <2>2
<1> QED BY <1>1 DEF FlightInv, OneInFlight, EverythingFits

-----------------------------------------------------------------------------
\* What is listed.

\* Only a registration that stores its circle, or fails to write config.yaml, lists a
\* new one, and only pages get to write.
LEMMA ApiLists ==
  ASSUME Inv, NEW h \in reqs, HandlerStep(h)
  PROVE  /\ \/ Known' \subseteq Known
            \/ /\ Registers(h) /\ h.at = "add" /\ Known' \subseteq Known \union {h.req.circle}
               /\ \/ \E n : Moves(h, n) /\ n.at = "reload"
                  \/ \E a : AnswersBy(h, a) /\ ~a.ok /\ a.why = "config"
         /\ \/ wrote' = wrote
            \/ /\ Registers(h)
               /\ wrote' = [wrote EXCEPT ![h.req.circle] = @ \union {h.req.page}]
<1>1. CASE AddCircleAndStore(h)
  <2> DEFINE d == h.req.circle
             new == WithCircle(d)
  <2>1. /\ Registers(h) /\ h.at = "add" /\ d \in Circles /\ wrote' = wrote
        /\ \/ cfg' = new /\ disk' = new /\ \E n : Moves(h, n) /\ n.at = "reload"
           \/ UNCHANGED <<cfg, disk>> /\ \E a : AnswersBy(h, a) /\ ~a.ok
           \/ /\ cfg' = cfg \/ (cfg' = new /\ cfg[d] # None)
              /\ disk' = disk \/ disk' \in CutOff(new)
              /\ \E a : AnswersBy(h, a) /\ ~a.ok /\ a.why = "config"
    BY <1>1, CircleMoves
  <2>2. Listed(new) \subseteq Listed(cfg) \union {d}
    BY <2>1, WithCircleIs DEF Inv
  <2>3. disk' \in CutOff(new) => Listed(disk') \subseteq Listed(new)
    BY CutOffLists
  <2> HIDE DEF new
  <2>4. CASE cfg' = new /\ disk' = new /\ \E n : Moves(h, n) /\ n.at = "reload"
    BY <2>1, <2>2, <2>4 DEF Known, Listed
  <2>5. CASE UNCHANGED <<cfg, disk>>
    BY <2>1, <2>5, Unchanged
  <2>6. CASE /\ cfg' = cfg \/ (cfg' = new /\ cfg[d] # None)
             /\ disk' = disk \/ disk' \in CutOff(new)
             /\ \E a : AnswersBy(h, a) /\ ~a.ok /\ a.why = "config"
    <3>1. Listed(cfg') \subseteq Known \union {d} /\ Listed(disk') \subseteq Known \union {d}
      BY <2>2, <2>3, <2>6 DEF Known
    <3>2. Known' \subseteq Known \union {d}
      BY <3>1 DEF Known, Listed
    <3> QED BY <2>1, <2>6, <3>2
  <2> QED BY <2>1, <2>4, <2>5, <2>6
<1>2. CASE AddShareAndStore(h)
  <2> DEFINE new == WithShare(h.req)
  <2>1. /\ wrote' = wrote
        /\ \/ UNCHANGED <<cfg, disk>>
           \/ /\ cfg[h.req.circle] # None /\ cfg' = new
              /\ disk' = new \/ disk' = disk \/ disk' \in CutOff(new)
    BY <1>2, ShareMoves
  <2>2. CASE UNCHANGED <<cfg, disk>>
    BY <2>1, <2>2, Unchanged
  <2>3. CASE /\ cfg[h.req.circle] # None /\ cfg' = new
             /\ disk' = new \/ disk' = disk \/ disk' \in CutOff(new)
    <3>1. Listed(new) \subseteq Listed(cfg)
      BY <2>3, WithShareLists DEF Inv
    <3>2. disk' \in CutOff(new) => Listed(disk') \subseteq Listed(new)
      BY CutOffLists
    <3> HIDE DEF new
    <3>3. Listed(cfg') \subseteq Known /\ Listed(disk') \subseteq Known
      BY <2>3, <3>1, <3>2 DEF Known
    <3>4. Known' \subseteq Known
      BY <3>3 DEF Known, Listed
    <3> QED BY <2>1, <3>4
  <2> QED BY <2>1, <2>2, <2>3
<1>3. CASE ReloadPublish(h) \/ ReloadCerts(h)
  <2>1. UNCHANGED <<disk, wrote>> /\ (cfg' = cfg \/ cfg' = NoConfig)
    BY <1>3 DEF ReloadPublish, ReloadCerts, Die
  <2> QED BY <2>1, NoConfigIsEmpty DEF Known, Listed
<1>4. CASE RegisterRpc(h)
  BY <1>4, Unchanged DEF RegisterRpc, At, Registers
<1>5. CASE ~(RegisterRpc(h) \/ AddCircleAndStore(h) \/ AddShareAndStore(h) \/ ReloadPublish(h) \/ ReloadCerts(h))
  <2>1. UNCHANGED <<cfg, disk, wrote>>
    BY <1>5 DEF HandlerStep, WriteKey, WriteCrt, WriteCa, ReloadRead, WaitForCircle,
                SharesInCircle, OpenExplorer, RenderPage
  <2> QED BY <2>1, Unchanged
<1> QED BY <1>1, <1>2, <1>3, <1>4, <1>5

\* Nothing makes a registration that is done one that is not, but the page that
\* starts one.
LEMMA ApiUnstores ==
  ASSUME Inv, UNCHANGED page, Api, NEW p \in Pages
  PROVE  (Unstored(p)' => Unstored(p)) /\ (Failing(p)' => Failing(p))
<1>1. (OnStage(p, 1)' <=> OnStage(p, 1)) /\ (Refused(p)' <=> Refused(p))
  BY DEF OnStage, Refused
<1>2. CASE reqs' \subseteq reqs /\ answers' = answers
  BY <1>1, <1>2 DEF Unstored, Failing, Registers
<1>3. ASSUME NEW h \in reqs, NEW n, Moves(h, n)
      PROVE  (Unstored(p)' => Unstored(p)) /\ (Failing(p)' => Failing(p))
  BY <1>1, <1>3 DEF Unstored, Failing, Registers, Moves
<1>4. ASSUME NEW h \in reqs, NEW a, AnswersBy(h, a)
      PROVE  (Unstored(p)' => Unstored(p)) /\ (Failing(p)' => Failing(p))
  BY <1>1, <1>4 DEF Unstored, Failing, Registers, AnswersBy
<1>5. ASSUME NEW h \in reqs, HandlerStep(h)
      PROVE  (Unstored(p)' => Unstored(p)) /\ (Failing(p)' => Failing(p))
  BY <1>2, <1>3, <1>4, <1>5, HandlerMoves
<1>6. CASE Crash
  <2>1. reqs' = {} /\ answers' = answers
    BY <1>6 DEF Crash, Die
  <2> QED BY <1>2, <2>1
<1>7. CASE Start
  BY <1>2, <1>7 DEF Start
<1> QED BY <1>5, <1>6, <1>7 DEF Api

\* Nobody is taken from those who have written.
LEMMA WroteGrows ==
  ASSUME Inv, Api
  PROVE  \A c \in Circles : wrote[c] \subseteq wrote'[c]
<1>1. ASSUME NEW h \in reqs, HandlerStep(h)
      PROVE  \A c \in Circles : wrote[c] \subseteq wrote'[c]
  <2>1. \/ wrote' = wrote
        \/ wrote' = [wrote EXCEPT ![h.req.circle] = @ \union {h.req.page}]
    BY <1>1, ApiLists
  <2> QED BY <2>1 DEF Inv, FilesShape
<1>2. CASE Crash \/ Start
  BY <1>2 DEF Crash, Start
<1> QED BY <1>1, <1>2 DEF Api

\* What has gone on more than one failed registration stays so.
LEMMA BusyStays ==
  ASSUME Inv, Busy, \A c \in Circles : wrote[c] \subseteq wrote'[c],
         \A q \in Pages : Failing(q)' => Failing(q) \/ Fresh(q)
  PROVE  Busy'
<1>1. PICK v \in Pages : \E c \in Circles :
        /\ v \in wrote[c]
        /\ \/ ~Failing(v)
           \/ \E w \in Pages : \E d \in Circles : w # v /\ w \in wrote[d]
  BY DEF Busy
<1>2. PICK c \in Circles :
        /\ v \in wrote[c]
        /\ \/ ~Failing(v)
           \/ \E w \in Pages : \E d \in Circles : w # v /\ w \in wrote[d]
  BY <1>1
<1>3. ~Fresh(v)
  BY <1>2 DEF Inv, FreshHasNone
<1> QED BY <1>2, <1>3 DEF Busy

LEMMA MemoryStays ==
  ASSUME Inv, MemoryIsStored, UNCHANGED <<cfg, disk>>,
         \A c \in Circles : wrote[c] \subseteq wrote'[c],
         \A q \in Pages : Failing(q)' => Failing(q) \/ Fresh(q)
  PROVE  MemoryIsStored'
<1>1. Busy => Busy'
  BY BusyStays
<1> QED BY <1>1 DEF MemoryIsStored, Listed

-----------------------------------------------------------------------------
\* A step of a page.

\* What is claimed of a page stays true as long as its table and the client's
\* configuration do not change.
LEMMA SameClaims ==
  ASSUME NEW p \in Pages, page'[p].circle = page[p].circle, page'[p].shares = page[p].shares,
         UNCHANGED <<up, cfg, disk, served>>
  PROVE  /\ \A h : RequestInv(p, h)' <=> RequestInv(p, h)
         /\ \A a : AnswerInv(p, a)' <=> AnswerInv(p, a)
         /\ Sound(p)' <=> Sound(p)
         /\ AllSaved(p)' <=> AllSaved(p)
         /\ \A k : Saved(p, k)' <=> Saved(p, k)
         /\ RowsToShare(p)' = RowsToShare(p)
<1>1. RowsToShare(p)' = RowsToShare(p)
  BY DEF RowsToShare
<1>2. DistinctNames(p)' <=> DistinctNames(p)
  BY <1>1 DEF DistinctNames
<1>3. \A k : Saved(p, k)' <=> Saved(p, k)
  BY <1>1, <1>2 DEF Saved
<1>4. AllSaved(p)' <=> AllSaved(p)
  BY <1>3 DEF AllSaved
<1>5. (InConfig(p)' <=> InConfig(p)) /\ (Sound(p)' <=> Sound(p))
  BY DEF InConfig, Sound, Listed, Resolves, SharesIn
<1>6. ASSUME NEW h
      PROVE  RequestInv(p, h)' <=> RequestInv(p, h)
  BY <1>1, <1>3, <1>4, <1>5 DEF RequestInv, Registers
<1>7. ASSUME NEW a
      PROVE  AnswerInv(p, a)' <=> AnswerInv(p, a)
  BY <1>1, <1>3, <1>4, <1>5 DEF AnswerInv
<1> QED BY <1>1, <1>3, <1>4, <1>5, <1>6, <1>7

\* Page p, to which nothing is under way but what it takes, may start handler n.
Acts(p, n) ==
  /\ \A q \in Pages : q # p => page'[q] = page[q]
  /\ UNCHANGED <<up, cfg, disk, served, wrote>>
  /\ answers' \subseteq answers /\ reqs' \subseteq reqs \union {n}
  /\ \A h \in reqs : h.req.page # p
  /\ \A a \in answers' : a.to.page # p

AsksWell(p, n) ==
  n \in reqs' \ reqs =>
    /\ n.req.page = p /\ Fits(p, n.req.what)'
    /\ n.req.what \in {"sharesInCircle", "addShare", "openExplorer"} => Reached(p)
    /\ n.req.what = "addShare" =>
         n.req.share \in Names /\ n.req.local \in Locals /\ n.req.row \in Nat
    /\ Alone(p) => RequestInv(p, n)'

ShowsWell(p) ==
  /\ Unstored(p)' => Unstored(p) \/ Fresh(p)
  /\ Failing(p)' => Failing(p) \/ Fresh(p)
  /\ OnStage(p, 2)' \/ OnStage(p, 3)' \/ OnStage(p, 4)' => Reached(p)
  /\ RowsOf(p)'
  /\ OnStage(p, 0)' \/ OnStage(p, 2)' => NoError(p)'
  /\ Alone(p) =>
       /\ OnStage(p, 2)' => Sound(p)'
       /\ OnStage(p, 4)' => Sound(p)' /\ AllSaved(p)'

\* Such a step keeps what is known of what is listed ...
LEMMA ActsKeepFailure ==
  ASSUME WizardInv, NEW p \in Pages, NEW n, Acts(p, n), AsksWell(p, n), ShowsWell(p)
  PROVE  FailureInv'
<1>1. \A q \in Pages : q # p => (Unstored(q)' => Unstored(q)) /\ (Failing(q)' => Failing(q))
  BY DEF Acts, AsksWell, Unstored, Failing, Registers, OnStage, Refused
<1>2. Known' = Known /\ wrote' = wrote
  BY DEF Acts, Known, Listed
<1>3. KnownIsStored'
  <2> SUFFICES ASSUME NEW c \in Known
               PROVE  \E w \in wrote[c] : w \in Pages => ~Unstored(w)'
    BY <1>2 DEF KnownIsStored
  <2>1. PICK w \in wrote[c] : w \in Pages => ~Unstored(w)
    BY DEF WizardInv, FailureInv, KnownIsStored
  <2>2. c \in Circles
    BY DEF Known, Listed
  <2>3. ~Fresh(w) \/ w \notin Pages
    BY <2>1, <2>2 DEF WizardInv, Inv, FreshHasNone
  <2> QED BY <1>1, <2>1, <2>3 DEF ShowsWell
<1>4. OwnNames' /\ ListsArrive'
  BY <1>2 DEF WizardInv, FailureInv, OwnNames, ListsArrive, Acts
<1>5. MemoryIsStored'
  <2>1. \A q \in Pages : Failing(q)' => Failing(q) \/ Fresh(q)
    BY <1>1 DEF ShowsWell
  <2> QED BY <1>2, <2>1, MemoryStays DEF WizardInv, FailureInv, Acts
<1> QED BY <1>3, <1>4, <1>5 DEF FailureInv

\* ... and what is known of shares.
LEMMA ActsKeepSharing ==
  ASSUME WizardInv, NEW p \in Pages, NEW n, Acts(p, n), AsksWell(p, n), ShowsWell(p)
  PROVE  SharingInv'
<1>1. RowsOK'
  <2> SUFFICES ASSUME NEW q \in Pages
               PROVE  RowsOf(q)'
    BY DEF RowsOK
  <2>1. CASE q = p
    BY <2>1 DEF ShowsWell
  <2>2. CASE q # p
    <3>1. page'[q] = page[q] /\ RowsOf(q)
      BY <2>2 DEF Acts, WizardInv, SharingInv, RowsOK
    <3> QED BY <3>1 DEF RowsOf, OnStage, canSaveShares
  <2> QED BY <2>1, <2>2
<1>2. NamesOK'
  BY DEF NamesOK, WizardInv, SharingInv, Acts, AsksWell
<1>3. ConfigsOK'
  BY DEF ConfigsOK, WizardInv, SharingInv, Acts
<1>4. ReachedHaveWritten'
  <2> SUFFICES ASSUME NEW q \in Pages, Reached(q)'
               PROVE  Reached(q)
    BY DEF ReachedHaveWritten, WizardInv, SharingInv, Acts
  <2>1. CASE q = p
    BY <2>1 DEF Acts, AsksWell, ShowsWell, Reached, OnStage
  <2>2. CASE q # p
    BY <2>2 DEF Acts, AsksWell, Reached
  <2> QED BY <2>1, <2>2
<1>5. ProgressInv'
  <2> SUFFICES ASSUME NEW q \in Pages, Shown(q)', Alone(q)'
               PROVE  Progress(q)'
    BY DEF ProgressInv
  <2>1. Alone(q)
    BY DEF Alone, Acts
  <2>2. CASE q = p
    <3>1. ASSUME NEW h \in reqs', h.req.page = p
          PROVE  RequestInv(p, h)'
      BY <2>1, <2>2, <3>1 DEF Acts, AsksWell
    <3> QED BY <2>1, <2>2, <3>1 DEF Progress, Acts, ShowsWell
  <2>3. CASE q # p
    <3>1. page'[q] = page[q] /\ UNCHANGED <<up, cfg, disk, served>>
      BY <2>3 DEF Acts
    <3>2. Progress(q)
      BY <2>1, <2>3, <3>1 DEF Shown, WizardInv, SharingInv, ProgressInv
    <3>3. \A h \in reqs' : h.req.page = q => h \in reqs
      BY <2>3 DEF Acts, AsksWell
    <3> QED BY <3>1, <3>2, <3>3, SameClaims DEF Progress, Acts, OnStage
  <2> QED BY <2>2, <2>3
<1> QED BY <1>1, <1>2, <1>3, <1>4, <1>5 DEF SharingInv

\* All of it.
LEMMA ActsKeepAll ==
  ASSUME WizardInv, NEW p \in Pages, NEW n, Acts(p, n), AsksWell(p, n), ShowsWell(p)
  PROVE  FlightInv' /\ Untroubled' /\ FailureInv' /\ SharingInv'
<1>1. Untroubled'
  BY DEF WizardInv, Untroubled, Acts, ShowsWell, OnStage, NoError
<1> QED BY <1>1, PageFlight, ActsKeepFailure, ActsKeepSharing DEF Acts, AsksWell, WizardInv

-----------------------------------------------------------------------------
\* The steps of the pages, one by one.

\* A field that is set leaves the others alone.
LEMMA OtherFieldsStay ==
  ASSUME NEW s, PageShape(s), NEW e
  PROVE  /\ LET t == [s EXCEPT !.stage = e]
            IN  t.error = s.error /\ t.circle = s.circle /\ t.shares = s.shares
         /\ LET t == [s EXCEPT !.error = e]
            IN  t.error = e /\ t.circle = s.circle /\ t.shares = s.shares
         /\ LET t == [s EXCEPT !.circle = e] IN t.error = s.error /\ t.shares = s.shares
         /\ LET t == [s EXCEPT !.filled = e]
            IN  t.error = s.error /\ t.circle = s.circle /\ t.shares = s.shares
         /\ LET t == [s EXCEPT !.shares = e]
            IN  t.error = s.error /\ t.circle = s.circle /\ t.shares = e
         /\ LET t == [s EXCEPT !.closing = e]
            IN  t.error = s.error /\ t.circle = s.circle /\ t.shares = s.shares
<1>1. LET t == [s EXCEPT !.stage = e]
      IN  t.error = s.error /\ t.circle = s.circle /\ t.shares = s.shares
  BY DEF PageShape
<1>2. LET t == [s EXCEPT !.error = e]
      IN  t.error = e /\ t.circle = s.circle /\ t.shares = s.shares
  BY DEF PageShape
<1>3. LET t == [s EXCEPT !.circle = e] IN t.error = s.error /\ t.shares = s.shares
  BY DEF PageShape
<1>4. LET t == [s EXCEPT !.filled = e]
      IN  t.error = s.error /\ t.circle = s.circle /\ t.shares = s.shares
  BY DEF PageShape
<1>5. LET t == [s EXCEPT !.shares = e]
      IN  t.error = s.error /\ t.circle = s.circle /\ t.shares = e
  BY DEF PageShape
<1>6. LET t == [s EXCEPT !.closing = e]
      IN  t.error = s.error /\ t.circle = s.circle /\ t.shares = s.shares
  BY DEF PageShape
<1> QED BY <1>1, <1>2, <1>3, <1>4, <1>5, <1>6

LEMMA BlankHasNothing ==
  ASSUME NEW screen
  PROVE  Blank(screen).error = "" /\ Blank(screen).shares = <<>>
<1> DEFINE none == <<>>
<1>1. Blank(screen).error = ""
  BY DEF Blank
<1> HIDE DEF none
<1>2. Blank(screen).shares = none
  BY DEF Blank, none
<1> QED BY <1>1, <1>2 DEF none

\* What Send does.
LEMMA SendStarts ==
  ASSUME NEW r, Send(r)
  PROVE  \E n : n.req = r /\ n.at = "start" /\ reqs' \subseteq reqs \union {n}
<1> DEFINE n == Handle(r)
<1>1. n.req = r /\ n.at = "start"
  BY DEF Handle
<1>2. reqs' \subseteq reqs \union {n}
  BY DEF Send
<1> QED BY <1>1, <1>2

\* A table that does not change stays in order.
LEMMA SameRows ==
  ASSUME NEW p \in Pages, RowsOf(p), page'[p].shares = page[p].shares,
         OnStage(p, 3)' => OnStage(p, 3)
  PROVE  RowsOf(p)'
BY DEF RowsOf, canSaveShares

\* A table without rows is in order.
LEMMA NoRows ==
  ASSUME NEW p \in Pages, page'[p].shares = <<>>
  PROVE  RowsOf(p)'
BY DEF RowsOf, canSaveShares

\* The page is opened.
LEMMA OpenIsTame ==
  ASSUME WizardInv, NEW p \in Pages, Open(p)
  PROVE  \E n : Acts(p, n) /\ AsksWell(p, n) /\ ShowsWell(p)
<1>1. /\ page[p].screen = "new" /\ Show(p, Blank("loading")) /\ Send(getVersion(p))
      /\ UNCHANGED <<up, cfg, disk, served, wrote, answers>>
  BY DEF Open
<1>2. /\ page'[p] = Blank("loading")
      /\ \A q \in Pages : q # p => page'[q] = page[q]
  BY <1>1, ShowChanges, BlankShape DEF WizardInv, Inv
<1>3. /\ page'[p].screen = "loading" /\ page'[p].stage = 0
      /\ page'[p].shares = <<>> /\ page'[p].error = ""
  BY <1>2, BlankShape, BlankHasNothing
<1>4. PICK n : n.req = getVersion(p) /\ n.at = "start" /\ reqs' \subseteq reqs \union {n}
  BY <1>1, SendStarts
<1>5. n.req.page = p /\ n.req.what = "getVersion"
  BY <1>4 DEF getVersion, Ask
<1>6. (\A h \in reqs : h.req.page # p) /\ (\A a \in answers : a.to.page # p)
  BY <1>1, IdleStages DEF WizardInv, Shown, OnStage
<1>7. Acts(p, n)
  BY <1>1, <1>2, <1>4, <1>6 DEF Acts
<1>8. AsksWell(p, n)
  BY <1>3, <1>5 DEF AsksWell, Fits, RequestInv, Registers
<1>9. ShowsWell(p)
  BY <1>1, <1>3, NoRows DEF ShowsWell, Fresh, OnStage
<1> QED BY <1>7, <1>8, <1>9

\* The page loads.
LEMMA LoadIsTame ==
  ASSUME WizardInv, NEW p \in Pages, NEW a \in answers, Load(p, a)
  PROVE  \E n : Acts(p, n) /\ AsksWell(p, n) /\ ShowsWell(p)
<1>1. /\ page[p].screen = "loading" /\ Receive(p, a)
      /\ UNCHANGED <<up, cfg, disk, served, wrote>>
  BY DEF Load
<1>2. /\ answers' = answers \ {a}
      /\ \A h \in reqs : h.req.page # p
      /\ \A b \in answers' : b.to.page # p
  BY <1>1, ReceiveIdles DEF WizardInv
<1>3. Fresh(p) /\ RowsOf(p)
  BY <1>1 DEF Fresh, WizardInv, SharingInv, RowsOK
<1>4. CASE Send(getConfig(p)) /\ UNCHANGED page
  <2>1. PICK n : n.req = getConfig(p) /\ n.at = "start" /\ reqs' \subseteq reqs \union {n}
    BY <1>4, SendStarts
  <2>2. n.req.page = p /\ n.req.what = "getConfig"
    BY <2>1 DEF getConfig, Ask
  <2>3. Acts(p, n)
    BY <1>1, <1>2, <1>4, <2>1 DEF Acts
  <2>4. AsksWell(p, n)
    BY <1>1, <1>4, <2>2 DEF AsksWell, Fits, RequestInv, Registers
  <2>5. ShowsWell(p)
    BY <1>1, <1>3, <1>4, SameRows DEF ShowsWell, OnStage
  <2> QED BY <2>3, <2>4, <2>5
<1>5. ASSUME NEW form \in Prefilled, Show(p, form), UNCHANGED reqs
      PROVE  \E n : Acts(p, n) /\ AsksWell(p, n) /\ ShowsWell(p)
  <2>1. /\ page'[p] = form
        /\ \A q \in Pages : q # p => page'[q] = page[q]
    BY <1>5, ShowChanges, PrefilledShape DEF WizardInv, Inv
  <2>2. form.shares = <<>> /\ form.error = ""
    <3>1. PICK c \in Circles \union {None}, f \in BOOLEAN : form = Form(c, f)
      BY DEF Prefilled
    <3> DEFINE b == Blank("wizard")
               d == [b EXCEPT !.circle = c]
    <3>2. PageShape(b) /\ b.shares = <<>> /\ b.error = ""
      BY BlankShape, BlankHasNothing
    <3> HIDE DEF b
    <3>3. PageShape(d)
      BY <3>2, FieldsStay
    <3>4. d.shares = <<>> /\ d.error = ""
      BY <3>2, OtherFieldsStay
    <3>5. form = [d EXCEPT !.filled = f]
      BY <3>1 DEF b, Form
    <3> HIDE DEF d
    <3>6. form.shares = d.shares /\ form.error = d.error
      BY <3>3, <3>5, OtherFieldsStay
    <3> QED BY <3>4, <3>6
  <2>3. Acts(p, 0)
    BY <1>1, <1>2, <1>5, <2>1 DEF Acts
  <2>4. AsksWell(p, 0)
    BY <1>5 DEF AsksWell
  <2>5. RowsOf(p)'
    BY <2>1, <2>2, NoRows
  <2>6. page'[p].error = ""
    BY <2>1, <2>2
  <2>7. ~OnStage(p, 2)' /\ ~OnStage(p, 3)' /\ ~OnStage(p, 4)'
    BY <2>1, PrefilledShape DEF OnStage
  <2>9. ShowsWell(p)
    BY <1>3, <2>5, <2>6, <2>7 DEF ShowsWell, NoError
  <2> QED BY <2>3, <2>4, <2>9
<1> QED BY <1>4, <1>5 DEF Load

\* A fetch rejects.
LEMMA RejectIsTame ==
  ASSUME WizardInv, NEW p \in Pages, FetchRejects(p)
  PROVE  \E n : Acts(p, n) /\ AsksWell(p, n) /\ ShowsWell(p)
<1> DEFINE s == page[p]
           b == Blank("failed")
           f == [b EXCEPT !.error = "unreachable"]
           e == [s EXCEPT !.error = "unreachable"]
<1>1. /\ Waiting(p) /\ Show(p, IF s.screen = "loading" THEN f ELSE e)
      /\ \A h \in reqs : h.req.page # p
      /\ \A a \in answers : a.to.page # p
      /\ UNCHANGED <<up, cfg, disk, served, wrote, reqs, answers>>
  BY DEF FetchRejects, apiVars
<1>2. PageShape(s) /\ RowsOf(p)
  BY DEF WizardInv, Inv, PagesShape, SharingInv, RowsOK
<1>3. PageShape(f) /\ f.screen = "failed" /\ f.shares = <<>>
  <2>1. PageShape(b) /\ b.screen = "failed" /\ b.shares = <<>>
    BY BlankShape, BlankHasNothing
  <2> HIDE DEF b
  <2>2. PageShape(f) /\ f.screen = "failed"
    BY <2>1, FieldsStay
  <2>3. f.shares = <<>>
    BY <2>1, OtherFieldsStay
  <2> QED BY <2>2, <2>3
<1>4. /\ PageShape(e) /\ e.error = "unreachable" /\ e.screen = s.screen /\ e.stage = s.stage
      /\ e.circle = s.circle /\ e.shares = s.shares
  <2>1. PageShape(e) /\ e.screen = s.screen /\ e.stage = s.stage
    BY <1>2, FieldsStay
  <2>2. e.error = "unreachable" /\ e.circle = s.circle /\ e.shares = s.shares
    BY <1>2, OtherFieldsStay
  <2> QED BY <2>1, <2>2
<1> HIDE DEF f, e
<1>5. Acts(p, 0) /\ AsksWell(p, 0)
  <2>1. \A q \in Pages : q # p => page'[q] = page[q]
    BY <1>1, <1>3, <1>4, ShowChanges DEF WizardInv, Inv
  <2> QED BY <1>1, <2>1 DEF Acts, AsksWell
<1>6. CASE s.screen = "loading"
  <2>1. page'[p] = f
    BY <1>1, <1>3, <1>6, ShowChanges DEF WizardInv, Inv
  <2>2. ShowsWell(p)
    BY <1>3, <1>6, <2>1, NoRows DEF ShowsWell, Fresh, OnStage
  <2> QED BY <1>5, <2>2
<1>7. CASE s.screen # "loading"
  <2>1. page'[p] = e
    BY <1>1, <1>4, <1>7, ShowChanges DEF WizardInv, Inv
  <2>2. OnStage(p, 1) \/ OnStage(p, 3)
    BY <1>1, <1>7 DEF Waiting
  <2>3. RowsOf(p)'
    BY <1>2, <1>4, <2>1, SameRows DEF OnStage
  <2>4. ~Unstored(p)' /\ ~Failing(p)'
    BY <1>1, <1>4, <2>1 DEF Unstored, Failing, Refused
  <2>5. ~OnStage(p, 0)' /\ ~OnStage(p, 2)' /\ ~OnStage(p, 4)'
    BY <1>4, <2>1, <2>2 DEF OnStage
  <2>6. Reached(p) \/ ~OnStage(p, 3)'
    BY <1>4, <2>1 DEF OnStage, Reached
  <2>7. ShowsWell(p)
    BY <2>3, <2>4, <2>5, <2>6 DEF ShowsWell
  <2> QED BY <1>5, <2>7
<1> QED BY <1>6, <1>7

\* A page that only changes what it shows.
LEMMA ShowIsTame ==
  ASSUME WizardInv, NEW p \in Pages, NEW t, PageShape(t), Show(p, t),
         UNCHANGED <<up, cfg, disk, served, wrote, reqs>>, answers' \subseteq answers,
         \A h \in reqs : h.req.page # p,
         \A a \in answers' : a.to.page # p
  PROVE  Acts(p, 0) /\ AsksWell(p, 0) /\ page'[p] = t
BY ShowChanges DEF Acts, AsksWell, WizardInv, Inv

\* The form is filled in.
LEMMA TypeIsTame ==
  ASSUME WizardInv, NEW p \in Pages, Type(p)
  PROVE  \E n : Acts(p, n) /\ AsksWell(p, n) /\ ShowsWell(p)
<1> DEFINE s == page[p]
<1>1. OnStage(p, 0) /\ UNCHANGED <<up, cfg, disk, served, wrote, reqs, answers>>
  BY DEF Type, apiVars
<1>2. PageShape(s) /\ RowsOf(p) /\ NoError(p) /\ s.screen = "wizard" /\ s.stage = 0
  BY <1>1 DEF WizardInv, Inv, PagesShape, SharingInv, RowsOK, Untroubled, OnStage
<1>3. (\A h \in reqs : h.req.page # p) /\ (\A a \in answers : a.to.page # p)
  BY <1>2, IdleStages DEF WizardInv, Shown, OnStage
<1>4. PICK t : /\ PageShape(t) /\ Show(p, t)
               /\ t.screen = s.screen /\ t.stage = s.stage /\ t.error = s.error /\ t.shares = s.shares
  <2>1. ASSUME NEW c \in Circles \union {None}
        PROVE  LET t == [s EXCEPT !.circle = c]
               IN  /\ PageShape(t) /\ t.screen = s.screen /\ t.stage = s.stage
                   /\ t.error = s.error /\ t.shares = s.shares
    <3> DEFINE t == [s EXCEPT !.circle = c]
    <3>1. PageShape(t) /\ t.screen = s.screen /\ t.stage = s.stage
      BY <1>2, FieldsStay
    <3>2. t.error = s.error /\ t.shares = s.shares
      BY <1>2, OtherFieldsStay
    <3> QED BY <3>1, <3>2
  <2>2. ASSUME NEW f
        PROVE  LET t == [s EXCEPT !.filled = f]
               IN  /\ PageShape(t) /\ t.screen = s.screen /\ t.stage = s.stage
                   /\ t.error = s.error /\ t.shares = s.shares
    <3> DEFINE t == [s EXCEPT !.filled = f]
    <3>1. PageShape(t) /\ t.screen = s.screen /\ t.stage = s.stage
      BY <1>2, FieldsStay
    <3>2. t.error = s.error /\ t.shares = s.shares
      BY <1>2, OtherFieldsStay
    <3> QED BY <3>1, <3>2
  <2> QED BY <2>1, <2>2 DEF Type
<1>5. Acts(p, 0) /\ AsksWell(p, 0) /\ page'[p] = t
  BY <1>1, <1>3, <1>4, ShowIsTame
<1>6. ~OnStage(p, 1)' /\ ~OnStage(p, 2)' /\ ~OnStage(p, 3)' /\ ~OnStage(p, 4)'
  BY <1>2, <1>4, <1>5 DEF OnStage
<1>7. RowsOf(p)' /\ NoError(p)'
  BY <1>2, <1>4, <1>5, <1>6, SameRows DEF NoError
<1>8. ShowsWell(p)
  BY <1>1, <1>6, <1>7 DEF ShowsWell, Fresh
<1> QED BY <1>5, <1>8

\* The circle is added.
LEMMA addCircleIsTame ==
  ASSUME WizardInv, NEW p \in Pages, addCircle(p)
  PROVE  \E n : Acts(p, n) /\ AsksWell(p, n) /\ ShowsWell(p)
<1> DEFINE s == page[p]
           t == [s EXCEPT !.stage = 1]
<1>1. /\ OnStage(p, 0) /\ UNCHANGED <<up, cfg, disk, served, wrote, answers>>
      /\ Show(p, t) /\ Send(register(p, s.circle))
  BY DEF addCircle, ConnectButton
<1>2. PageShape(s) /\ RowsOf(p) /\ NoError(p) /\ s.screen = "wizard" /\ s.stage = 0
  BY <1>1 DEF WizardInv, Inv, PagesShape, SharingInv, RowsOK, Untroubled, OnStage
<1>3. (\A h \in reqs : h.req.page # p) /\ (\A a \in answers : a.to.page # p)
  BY <1>2, IdleStages DEF WizardInv, Shown, OnStage
<1>4. /\ PageShape(t) /\ t.screen = "wizard" /\ t.stage = 1
      /\ t.error = s.error /\ t.circle = s.circle /\ t.shares = s.shares
  <2>1. PageShape(t) /\ t.screen = "wizard" /\ t.stage = 1
    BY <1>2, FieldsStay
  <2>2. t.error = s.error /\ t.circle = s.circle /\ t.shares = s.shares
    BY <1>2, OtherFieldsStay
  <2> QED BY <2>1, <2>2
<1> HIDE DEF t
<1>5. page'[p] = t /\ \A q \in Pages : q # p => page'[q] = page[q]
  BY <1>1, <1>4, ShowChanges DEF WizardInv, Inv
<1>6. PICK n : n.req = register(p, s.circle) /\ n.at = "start" /\ reqs' \subseteq reqs \union {n}
  BY <1>1, SendStarts
<1>7. n.req.page = p /\ n.req.what = "register" /\ n.req.circle = s.circle
  BY <1>6 DEF register, Ask
<1>8. ~OnStage(p, 0)' /\ OnStage(p, 1)' /\ ~OnStage(p, 2)' /\ ~OnStage(p, 3)' /\ ~OnStage(p, 4)'
  BY <1>4, <1>5 DEF OnStage
<1>9. RowsOf(p)' /\ NoError(p)'
  BY <1>2, <1>4, <1>5, <1>8, SameRows DEF NoError
<1>10. Acts(p, n)
  BY <1>1, <1>3, <1>5, <1>6 DEF Acts
<1>11. AsksWell(p, n)
  BY <1>4, <1>5, <1>6, <1>7, <1>8, <1>9 DEF AsksWell, Fits, RequestInv, Registers
<1>12. ShowsWell(p)
  BY <1>1, <1>8, <1>9 DEF ShowsWell, Fresh
<1> QED BY <1>10, <1>11, <1>12

\* An error is caught.
LEMMA CaughtIsTame ==
  ASSUME WizardInv, NEW p \in Pages, NEW a, Receive(p, a), Caught(p, a),
         OnStage(p, 1) \/ OnStage(p, 3),
         UNCHANGED <<up, cfg, disk, served, wrote>>
  PROVE  \E n : Acts(p, n) /\ AsksWell(p, n) /\ ShowsWell(p)
<1> DEFINE s == page[p]
           t == [s EXCEPT !.error = rqToError(a)]
<1>1. UNCHANGED reqs /\ Show(p, t) /\ Throws(a)
  BY DEF Caught
<1>2. /\ a \in answers /\ a.to.page = p /\ answers' = answers \ {a} /\ Fits(p, a.to.what)
      /\ \A h \in reqs : h.req.page # p
      /\ \A b \in answers' : b.to.page # p
  BY ReceiveIdles DEF WizardInv
<1>3. PageShape(s) /\ RowsOf(p) /\ s.screen = "wizard"
  BY DEF WizardInv, Inv, PagesShape, SharingInv, RowsOK, OnStage
<1>4. /\ PageShape(t) /\ t.screen = s.screen /\ t.stage = s.stage
      /\ t.circle = s.circle /\ t.shares = s.shares
  <2>1. PageShape(t) /\ t.screen = s.screen /\ t.stage = s.stage
    BY <1>3, FieldsStay
  <2>2. t.circle = s.circle /\ t.shares = s.shares
    BY <1>3, OtherFieldsStay
  <2> QED BY <2>1, <2>2
<1>12. t.error = rqToError(a)
  BY <1>3, OtherFieldsStay
<1> HIDE DEF t
<1>5. Acts(p, 0) /\ AsksWell(p, 0) /\ page'[p] = t
  BY <1>1, <1>2, <1>4, ShowIsTame
<1>6. \A i : OnStage(p, i)' <=> OnStage(p, i)
  BY <1>4, <1>5 DEF OnStage
<1>7. ~OnStage(p, 0)' /\ ~OnStage(p, 2)' /\ ~OnStage(p, 4)'
  BY <1>4, <1>5 DEF OnStage
<1>8. RowsOf(p)'
  BY <1>3, <1>4, <1>5, <1>6, SameRows
<1>9. (Unstored(p)' => Unstored(p)) /\ (Failing(p)' => Failing(p))
  <2>1. CASE OnStage(p, 1)
    <3>1. a.to.what \in {"register", "sharesInCircle"}
      BY <1>2, <1>3, <2>1 DEF Fits, OnStage, Shown
    <3>2. ~a.ok
      BY <1>1 DEF Throws
    <3>3. a.to.what # "sharesInCircle"
      BY <1>2, <3>2 DEF WizardInv, FailureInv, ListsArrive
    <3>4. Failing(p)
      BY <1>2, <3>1, <3>2, <3>3 DEF Failing
    <3>5. CASE a.why = "config"
      <4>1. page'[p].error = "config"
        BY <1>12, <1>5, <3>5 DEF rqToError
      <4>2. ~Unstored(p)'
        BY <1>1, <1>2, <4>1 DEF Unstored
      <4> QED BY <3>4, <4>2
    <3>6. CASE a.why # "config"
      BY <1>2, <3>1, <3>2, <3>3, <3>4, <3>6 DEF Unstored
    <3> QED BY <3>5, <3>6
  <2>2. CASE ~OnStage(p, 1)
    <3>1. ~OnStage(p, 1)'
      BY <1>4, <1>5, <2>2 DEF OnStage
    <3> QED BY <1>1, <1>2, <3>1 DEF Unstored, Failing
  <2> QED BY <2>1, <2>2
<1>10. OnStage(p, 3)' => Reached(p)
  BY <1>3, <1>4, <1>5 DEF OnStage, Reached
<1>11. ShowsWell(p)
  BY <1>7, <1>8, <1>9, <1>10 DEF ShowsWell
<1> QED BY <1>5, <1>11

\* An answer to addCircle() arrives.
LEMMA CircleAddedIsTame ==
  ASSUME WizardInv, NEW p \in Pages, NEW a \in answers, CircleAdded(p, a)
  PROVE  \E n : Acts(p, n) /\ AsksWell(p, n) /\ ShowsWell(p)
<1> DEFINE s == page[p]
<1>1. OnStage(p, 1) /\ Receive(p, a) /\ UNCHANGED <<up, cfg, disk, served, wrote>>
  BY DEF CircleAdded
<1>2. /\ a.to.page = p /\ answers' = answers \ {a} /\ Fits(p, a.to.what)
      /\ \A h \in reqs : h.req.page # p
      /\ \A b \in answers' : b.to.page # p
  BY <1>1, ReceiveIdles DEF WizardInv
<1>3. PageShape(s) /\ RowsOf(p) /\ s.screen = "wizard" /\ s.stage = 1
  BY <1>1 DEF WizardInv, Inv, PagesShape, SharingInv, RowsOK, OnStage
<1>4. NoError(p) /\ ~Refused(p)
  BY <1>1, <1>3 DEF Receive, Waiting, NoError, Refused
<1>5. Alone(p) => AnswerInv(p, a)
  BY <1>2, <1>3 DEF WizardInv, SharingInv, ProgressInv, Progress, Shown
<1>6. CASE ~Throws(a) /\ a.to.what = "register" /\ Send(sharesInCircle(p, s.circle)) /\ UNCHANGED page
  <2>1. PICK n : /\ n.req = sharesInCircle(p, s.circle) /\ n.at = "start"
                 /\ reqs' \subseteq reqs \union {n}
    BY <1>6, SendStarts
  <2>2. n.req.page = p /\ n.req.what = "sharesInCircle"
    BY <2>1 DEF sharesInCircle, Ask
  <2>3. a.ok
    BY <1>6 DEF Throws
  <2>4. Alone(p) => Sound(p)'
    BY <1>1, <1>5, <1>6, <2>3, SameClaims DEF AnswerInv
  <2>5. Reached(p)
    BY <1>2, <1>6, <2>3 DEF Reached
  <2>6. Acts(p, n)
    BY <1>1, <1>2, <1>6, <2>1 DEF Acts
  <2>7. OnStage(p, 1)' /\ NoError(p)' /\ ~OnStage(p, 0)' /\ ~OnStage(p, 2)' /\ ~OnStage(p, 3)' /\ ~OnStage(p, 4)'
    <3>1. NoError(p)'
      BY <1>4, <1>6 DEF NoError
    <3> QED BY <1>3, <1>6, <3>1 DEF OnStage
  <2>8. AsksWell(p, n)
    BY <2>2, <2>4, <2>5, <2>7 DEF AsksWell, Fits, RequestInv, Registers
  <2>9. (Unstored(p)' => Unstored(p)) /\ (Failing(p)' => Failing(p))
    <3>1. ~Refused(p)'
      BY <1>4, <1>6 DEF Refused
    <3> QED BY <1>2, <2>1, <2>2, <3>1 DEF Unstored, Failing, Registers
  <2>10. ShowsWell(p)
    BY <1>3, <1>6, <2>7, <2>9, SameRows DEF ShowsWell
  <2> QED BY <2>6, <2>8, <2>10
<1>7. CASE /\ ~Throws(a) /\ a.to.what = "sharesInCircle" /\ UNCHANGED reqs
           /\ LET shares == [i \in DOMAIN SharesOf(a) |-> Row(SharesOf(a)[i], None, FALSE)]
              IN  Show(p, [[s EXCEPT !.shares = shares] EXCEPT !.stage = 2])
  <2> DEFINE rows == [i \in DOMAIN SharesOf(a) |-> Row(SharesOf(a)[i], None, FALSE)]
             m == [s EXCEPT !.shares = rows]
             t == [m EXCEPT !.stage = 2]
  <2>1. Show(p, t)
    BY <1>7
  <2>2. SharesOf(a) \in Seq(Names)
    <3>1. a.shares \in Seq(Names) \union {None}
      BY DEF WizardInv, SharingInv, NamesOK
    <3> QED BY <3>1 DEF SharesOf
  <2>3. /\ rows \in Seq(Rows)
        /\ \A i \in DOMAIN rows : rows[i].share # None
    <3>1. \A x \in Names : /\ Row(x, None, FALSE) \in Rows
                           /\ Row(x, None, FALSE).share = x
      BY DEF Row, Rows
    <3>2. \A i \in DOMAIN SharesOf(a) : SharesOf(a)[i] \in Names
      BY <2>2
    <3>3. None \notin Names
      BY NoneIsNothing
    <3> HIDE DEF rows
    <3>4. /\ DOMAIN rows = DOMAIN SharesOf(a)
          /\ \A i \in DOMAIN SharesOf(a) : rows[i] = Row(SharesOf(a)[i], None, FALSE)
          /\ rows = [i \in DOMAIN SharesOf(a) |-> rows[i]]
      BY DEF rows
    <3>5. \A i \in DOMAIN rows : rows[i] \in Rows /\ rows[i].share # None
      BY <3>1, <3>2, <3>3, <3>4
    <3>6. DOMAIN rows = 1..Len(SharesOf(a)) /\ Len(SharesOf(a)) \in Nat
      BY <2>2, <3>4
    <3>7. rows \in Seq(Rows)
      <4> DEFINE k == Len(SharesOf(a))
      <4>1. k \in Nat /\ rows = [i \in 1..k |-> rows[i]] /\ \A i \in 1..k : rows[i] \in Rows
        BY <3>4, <3>5, <3>6
      <4> HIDE DEF k
      <4>2. rows \in [1..k -> Rows]
        BY <4>1
      <4> QED BY <4>1, <4>2
    <3> QED BY <3>5, <3>7
  <2> HIDE DEF rows
  <2>4. PageShape(m) /\ m.screen = "wizard" /\ m.shares = rows
    <3>1. PageShape(m) /\ m.screen = "wizard"
      BY <1>3, FieldsStay
    <3>2. m.shares = rows
      BY <1>3, OtherFieldsStay
    <3> QED BY <3>1, <3>2
  <2>5. m.error = s.error /\ m.circle = s.circle
    BY <1>3, OtherFieldsStay
  <2> HIDE DEF m
  <2>6. PageShape(t) /\ t.screen = "wizard" /\ t.stage = 2
    BY <2>4, FieldsStay
  <2>7. t.error = s.error /\ t.circle = s.circle /\ t.shares = rows
    BY <2>4, <2>5, OtherFieldsStay
  <2> HIDE DEF t
  <2>8. Acts(p, 0) /\ AsksWell(p, 0) /\ page'[p] = t
    BY <1>1, <1>2, <1>7, <2>1, <2>6, ShowIsTame
  <2>9. NoError(p)'
    BY <1>4, <2>7, <2>8 DEF NoError
  <2>10. ~OnStage(p, 0)' /\ ~OnStage(p, 1)' /\ ~OnStage(p, 3)' /\ ~OnStage(p, 4)'
    BY <2>6, <2>8 DEF OnStage
  <2>11. RowsOf(p)'
    BY <2>3, <2>7, <2>8, <2>10 DEF RowsOf
  <2>12. (Unstored(p)' => Unstored(p)) /\ (Failing(p)' => Failing(p))
    BY <1>2, <1>7, <2>10 DEF Unstored, Failing, Registers
  <2>13. Alone(p) => Sound(p)'
    <3>1. Alone(p) => Sound(p)
      BY <1>5, <1>7 DEF AnswerInv
    <3>2. page'[p].circle = page[p].circle
      BY <2>7, <2>8
    <3> QED BY <1>1, <3>1, <3>2 DEF Sound, Listed, Resolves, SharesIn
  <2>14. Reached(p)
    BY <1>2, <1>7 DEF Reached
  <2>15. ShowsWell(p)
    BY <2>9, <2>10, <2>11, <2>12, <2>13, <2>14 DEF ShowsWell
  <2> QED BY <2>8, <2>15
<1>8. CASE Caught(p, a)
  BY <1>1, <1>8, CaughtIsTame
<1> QED BY <1>6, <1>7, <1>8 DEF CircleAdded

\* A step that leaves the user with the table of shares.
LEMMA TableIsTame ==
  ASSUME WizardInv, NEW p \in Pages, OnStage(p, 2), NEW rows \in Seq(Rows),
         \A i \in DOMAIN rows : ~rows[i].isNewShare => rows[i].share # None,
         Show(p, [page[p] EXCEPT !.shares = rows]),
         UNCHANGED <<up, cfg, disk, served, wrote, reqs, answers>>
  PROVE  \E n : Acts(p, n) /\ AsksWell(p, n) /\ ShowsWell(p)
<1> DEFINE s == page[p]
           t == [s EXCEPT !.shares = rows]
<1>1. PageShape(s) /\ NoError(p) /\ s.screen = "wizard" /\ s.stage = 2
  BY DEF WizardInv, Inv, PagesShape, Untroubled, OnStage
<1>2. (\A h \in reqs : h.req.page # p) /\ (\A a \in answers : a.to.page # p)
  BY <1>1, IdleStages DEF WizardInv, Shown, OnStage
<1>3. PageShape(t) /\ t.screen = "wizard" /\ t.stage = 2
  BY <1>1, FieldsStay
<1>4. t.error = s.error /\ t.circle = s.circle /\ t.shares = rows
  BY <1>1, OtherFieldsStay
<1> HIDE DEF t
<1>5. Acts(p, 0) /\ AsksWell(p, 0) /\ page'[p] = t
  <2>1. Show(p, t)
    BY DEF t
  <2> QED BY <1>2, <1>3, <2>1, ShowIsTame
<1>6. NoError(p)'
  BY <1>1, <1>4, <1>5 DEF NoError
<1>7. ~OnStage(p, 0)' /\ ~OnStage(p, 1)' /\ ~OnStage(p, 3)' /\ ~OnStage(p, 4)'
  BY <1>3, <1>5 DEF OnStage
<1>8. RowsOf(p)'
  BY <1>4, <1>5, <1>7 DEF RowsOf
<1>9. (Unstored(p)' => Unstored(p)) /\ (Failing(p)' => Failing(p))
  BY <1>7 DEF Unstored, Failing, Registers
<1>10. Alone(p) => Sound(p)'
  <2>1. Alone(p) => Sound(p)
    BY <1>1 DEF WizardInv, SharingInv, ProgressInv, Progress, Shown
  <2>2. page'[p].circle = page[p].circle
    BY <1>4, <1>5
  <2> QED BY <2>1, <2>2 DEF Sound, Listed, Resolves, SharesIn
<1>11. Reached(p)
  BY <1>1 DEF Reached
<1>12. ShowsWell(p)
  BY <1>6, <1>7, <1>8, <1>9, <1>10, <1>11 DEF ShowsWell
<1> QED BY <1>5, <1>12

\* A row that is changed, added or taken out.
LEMMA RowFieldsStay ==
  ASSUME NEW row \in Rows
  PROVE  /\ \A l \in Locals \union {None} :
              /\ [row EXCEPT !.localPath = l] \in Rows
              /\ [row EXCEPT !.localPath = l].share = row.share
              /\ [row EXCEPT !.localPath = l].isNewShare = row.isNewShare
         /\ \A n \in Names \union {None} :
              /\ [row EXCEPT !.share = n] \in Rows
              /\ [row EXCEPT !.share = n].isNewShare = row.isNewShare
BY DEF Rows

LEMMA addNewShareIsTame ==
  ASSUME WizardInv, NEW p \in Pages, addNewShare(p)
  PROVE  \E n : Acts(p, n) /\ AsksWell(p, n) /\ ShowsWell(p)
<1> DEFINE old == page[p].shares
           row == Row(None, None, TRUE)
           rows == Append(old, row)
<1>1. /\ OnStage(p, 2) /\ Show(p, [page[p] EXCEPT !.shares = rows])
      /\ UNCHANGED <<up, cfg, disk, served, wrote, reqs, answers>>
  BY DEF addNewShare, AddButton, apiVars
<1>2. old \in Seq(Rows) /\ \A i \in DOMAIN old : ~old[i].isNewShare => old[i].share # None
  BY DEF WizardInv, SharingInv, RowsOK, RowsOf
<1>3. row \in Rows /\ row.isNewShare = TRUE
  BY DEF Row, Rows
<1> HIDE DEF old, row
<1>4. rows \in Seq(Rows) /\ \A i \in DOMAIN rows : (i \in DOMAIN old /\ rows[i] = old[i]) \/ rows[i] = row
  BY <1>2, <1>3
<1> HIDE DEF rows
<1>5. \A i \in DOMAIN rows : ~rows[i].isNewShare => rows[i].share # None
  BY <1>2, <1>3, <1>4
<1> QED BY <1>1, <1>4, <1>5, TableIsTame

LEMMA EditShareIsTame ==
  ASSUME WizardInv, NEW p \in Pages, EditShare(p)
  PROVE  \E n : Acts(p, n) /\ AsksWell(p, n) /\ ShowsWell(p)
<1> DEFINE s == page[p]
           old == s.shares
<1>1. OnStage(p, 2) /\ UNCHANGED <<up, cfg, disk, served, wrote, reqs, answers>>
  BY DEF EditShare, apiVars
<1>2. old \in Seq(Rows) /\ \A i \in DOMAIN old : ~old[i].isNewShare => old[i].share # None
  BY DEF WizardInv, SharingInv, RowsOK, RowsOf
<1>3. PICK i \in DOMAIN old :
        \/ \E l \in Locals \union {None} :
             Show(p, [s EXCEPT !.shares = [old EXCEPT ![i] = [old[i] EXCEPT !.localPath = l]]])
        \/ \E n \in Names \union {None} :
             old[i].isNewShare /\ Show(p, [s EXCEPT !.shares = [old EXCEPT ![i] = [old[i] EXCEPT !.share = n]]])
        \/ Show(p, [s EXCEPT !.shares = RemoveAt(old, i)])
  BY DEF EditShare
<1> HIDE DEF old
<1>4. ASSUME NEW row \in Rows, ~row.isNewShare => row.share # None,
             Show(p, [s EXCEPT !.shares = [old EXCEPT ![i] = row]])
      PROVE  \E n : Acts(p, n) /\ AsksWell(p, n) /\ ShowsWell(p)
  <2> DEFINE rows == [old EXCEPT ![i] = row]
  <2>1. rows \in Seq(Rows) /\ \A j \in DOMAIN rows : (j \in DOMAIN old /\ rows[j] = old[j]) \/ rows[j] = row
    BY <1>2, <1>4
  <2>2. Show(p, [s EXCEPT !.shares = rows])
    BY <1>4
  <2> HIDE DEF rows
  <2>3. \A j \in DOMAIN rows : ~rows[j].isNewShare => rows[j].share # None
    BY <1>2, <1>4, <2>1
  <2> QED BY <1>1, <2>1, <2>2, <2>3, TableIsTame
<1>5. old[i] \in Rows
  BY <1>2
<1>6. ASSUME NEW l \in Locals \union {None},
             Show(p, [s EXCEPT !.shares = [old EXCEPT ![i] = [old[i] EXCEPT !.localPath = l]]])
      PROVE  \E n : Acts(p, n) /\ AsksWell(p, n) /\ ShowsWell(p)
  <2> DEFINE row == [old[i] EXCEPT !.localPath = l]
  <2>1. row \in Rows /\ row.share = old[i].share /\ row.isNewShare = old[i].isNewShare
    BY <1>5, RowFieldsStay
  <2>2. Show(p, [s EXCEPT !.shares = [old EXCEPT ![i] = row]])
    BY <1>6
  <2> HIDE DEF row
  <2>3. ~row.isNewShare => row.share # None
    BY <1>2, <2>1
  <2> QED BY <1>4, <2>1, <2>2, <2>3
<1>7. ASSUME NEW n \in Names \union {None}, old[i].isNewShare,
             Show(p, [s EXCEPT !.shares = [old EXCEPT ![i] = [old[i] EXCEPT !.share = n]]])
      PROVE  \E m : Acts(p, m) /\ AsksWell(p, m) /\ ShowsWell(p)
  <2> DEFINE row == [old[i] EXCEPT !.share = n]
  <2>1. row \in Rows /\ row.isNewShare = old[i].isNewShare
    BY <1>5, RowFieldsStay
  <2>2. Show(p, [s EXCEPT !.shares = [old EXCEPT ![i] = row]])
    BY <1>7
  <2> HIDE DEF row
  <2> QED BY <1>4, <1>7, <2>1, <2>2
<1>8. CASE Show(p, [s EXCEPT !.shares = RemoveAt(old, i)])
  <2> DEFINE rows == RemoveAt(old, i)
             low == SubSeq(old, 1, i - 1)
             high == SubSeq(old, i + 1, Len(old))
  <2>1. rows = low \o high
    BY DEF RemoveAt
  <2>2. Len(old) \in Nat /\ i \in 1..Len(old)
    BY <1>2
  <2>3. /\ low \in Seq(Rows) /\ Len(low) = i - 1
        /\ \A j \in 1..Len(low) : j \in DOMAIN old /\ low[j] = old[j]
    BY <1>2, <2>2
  <2>4. /\ high \in Seq(Rows) /\ Len(high) = Len(old) - i
        /\ \A j \in 1..Len(high) : i + j \in DOMAIN old /\ high[j] = old[i + j]
    BY <1>2, <2>2
  <2> HIDE DEF low, high
  <2>5. /\ rows \in Seq(Rows)
        /\ \A j \in DOMAIN rows : \E k \in DOMAIN old : rows[j] = old[k]
    <3> DEFINE both == low \o high
    <3>1. both \in Seq(Rows) /\ Len(both) = Len(low) + Len(high)
      BY <2>3, <2>4, ConcatProperties
    <3>2. \A j \in 1..Len(both) : both[j] = IF j <= Len(low) THEN low[j] ELSE high[j - Len(low)]
      BY <2>3, <2>4, ConcatProperties
    <3> HIDE DEF both
    <3>5. rows = both
      BY <2>1 DEF both
    <3> HIDE DEF rows
    <3>3. ASSUME NEW j \in DOMAIN rows
          PROVE  \E k \in DOMAIN old : rows[j] = old[k]
      <4>1. j \in 1..Len(rows)
        BY <3>1, <3>5
      <4>2. CASE j <= Len(low)
        BY <2>2, <2>3, <3>2, <3>5, <4>1, <4>2
      <4>3. CASE ~(j <= Len(low))
        <5> DEFINE k == j - Len(low)
        <5>1. k \in 1..Len(high)
          <6> DEFINE a == Len(low)
                     b == Len(high)
          <6>1. a \in Nat /\ b \in Nat
            BY <2>3, <2>4
          <6>2. j \in 1..a + b /\ ~(j <= a)
            BY <3>1, <3>5, <4>1, <4>3
          <6> HIDE DEF a, b
          <6>3. j - a \in 1..b
            BY <6>1, <6>2
          <6> QED BY <6>3 DEF a, b
        <5>2. rows[j] = high[k]
          BY <3>2, <3>5, <4>1, <4>3
        <5> HIDE DEF k
        <5> QED BY <2>4, <5>1, <5>2
      <4> QED BY <4>2, <4>3
    <3> QED BY <3>1, <3>3, <3>5
  <2> HIDE DEF rows
  <2>6. \A j \in DOMAIN rows : ~rows[j].isNewShare => rows[j].share # None
    BY <1>2, <2>5
  <2>7. Show(p, [s EXCEPT !.shares = rows])
    BY <1>8 DEF rows
  <2> QED BY <1>1, <2>5, <2>6, <2>7, TableIsTame
<1> QED BY <1>3, <1>6, <1>7, <1>8

\* A set of naturals has a least element.
LEMMA LeastElement ==
  ASSUME NEW T, T \subseteq Nat, T # {}
  PROVE  \E x \in T : \A y \in T : x <= y
<1> DEFINE R == OpToRel(<, Nat)
<1>1. IsWellFoundedOn(R, Nat)
  BY NatLessThanWellFounded, Zenon
<1>2. \A x, y \in Nat : y < x => << y, x >> \in R
  BY Zenon DEF OpToRel
<1> HIDE DEF R
<1>3. PICK x \in T : \A y \in T : ~ (<< y, x >> \in R)
  BY <1>1, WFMin, Zenon
<1>4. \A y \in T : ~ (y < x)
  BY <1>2, <1>3, Zenon
<1> QED BY <1>4

\* What the loop of saveShares() asks for after the first i rows: the next row with
\* a path, or the explorer.
LEMMA NextCallIs ==
  ASSUME NEW p \in Pages, NEW i \in Nat, RowsOf(p), canSaveShares(p)
  PROVE  LET r == NextCall(p, i) IN
         /\ r.page = p
         /\ \/ r.what = "openExplorer" /\ \A j \in RowsToShare(p) : j <= i
            \/ /\ r.what = "addShare" /\ r.circle = page[p].circle
               /\ r.row \in RowsToShare(p) /\ r.row \in Nat
               /\ r.share = page[p].shares[r.row].share /\ r.share \in Names
               /\ r.local = page[p].shares[r.row].localPath /\ r.local \in Locals
               /\ \A j \in RowsToShare(p) : j < r.row => j <= i
<1> DEFINE rows == page[p].shares
           left == {j \in i + 1 .. Len(rows) : rows[j].localPath # None}
<1>1. /\ rows \in Seq(Rows) /\ Len(rows) \in Nat /\ DOMAIN rows = 1..Len(rows)
      /\ \A j \in DOMAIN rows : ~rows[j].isNewShare => rows[j].share # None
  BY DEF RowsOf
<1>2. RowsToShare(p) = {j \in 1..Len(rows) : rows[j].localPath # None}
  BY <1>1 DEF RowsToShare
<1>3. CASE left = {}
  <2>1. NextCall(p, i) = openExplorer(p)
    BY <1>3 DEF NextCall
  <2>2. \A j \in RowsToShare(p) : j <= i
    BY <1>1, <1>2, <1>3
  <2>3. openExplorer(p).page = p /\ openExplorer(p).what = "openExplorer"
    BY DEF openExplorer, Ask
  <2> QED BY <2>1, <2>2, <2>3
<1>4. CASE left # {}
  <2> DEFINE m == CHOOSE j \in left : \A k \in left : j <= k
  <2>1. NextCall(p, i) = addShare(p, page[p].circle, rows[m].share, rows[m].localPath, m)
    BY <1>4 DEF NextCall
  <2>2. left \subseteq Nat
    BY <1>1
  <2> HIDE DEF left
  <2>3. m \in left /\ \A k \in left : m <= k
    <3>1. \E j \in left : \A k \in left : j <= k
      BY <1>4, <2>2, LeastElement
    <3> QED BY <3>1
  <2> HIDE DEF m
  <2>4. m \in Nat /\ m \in 1..Len(rows) /\ rows[m].localPath # None
    BY <1>1, <2>3 DEF left
  <2>5. m \in RowsToShare(p)
    BY <1>2, <2>4
  <2>6. \A j \in RowsToShare(p) : j < m => j <= i
    <3> SUFFICES ASSUME NEW j \in RowsToShare(p), j < m, ~(j <= i)
                 PROVE  FALSE
      OBVIOUS
    <3>1. j \in left
      BY <1>1, <1>2 DEF left
    <3> QED BY <2>2, <2>3, <2>4, <3>1
  <2>7. rows[m].share \in Names /\ rows[m].localPath \in Locals
    <3>1. rows[m] \in Rows
      BY <1>1, <2>4
    <3>2. rows[m].isNewShare => rows[m].share # None
      BY <1>1, <2>4 DEF canSaveShares
    <3>3. rows[m].share # None
      BY <1>1, <2>4, <3>2
    <3> QED BY <2>4, <3>1, <3>3 DEF Rows
  <2> HIDE DEF rows
  <2> DEFINE r == addShare(p, page[p].circle, rows[m].share, rows[m].localPath, m)
  <2>8. /\ r.page = p /\ r.what = "addShare" /\ r.circle = page[p].circle
        /\ r.share = rows[m].share /\ r.local = rows[m].localPath /\ r.row = m
    BY DEF addShare, Ask
  <2> HIDE DEF r
  <2>9. NextCall(p, i) = r
    BY <2>1 DEF r
  <2> QED BY <2>4, <2>5, <2>6, <2>7, <2>8, <2>9 DEF rows
<1> QED BY <1>3, <1>4

\* The next call of saveShares() is in order when the first i rows are saved.
LEMMA NextCallIsInOrder ==
  ASSUME NEW p \in Pages, NEW i \in Nat, RowsOf(p), canSaveShares(p), Reached(p),
         Alone(p) => Sound(p) /\ Saved(p, i),
         page'[p].circle = page[p].circle, page'[p].shares = page[p].shares,
         UNCHANGED <<up, cfg, disk, served>>,
         OnStage(p, 3)', NoError(p)',
         NEW n, n.req = NextCall(p, i), n.at = "start"
  PROVE  AsksWell(p, n)
<1> DEFINE r == NextCall(p, i)
<1>1. /\ r.page = p
      /\ \/ r.what = "openExplorer" /\ \A j \in RowsToShare(p) : j <= i
         \/ /\ r.what = "addShare" /\ r.circle = page[p].circle
            /\ r.row \in RowsToShare(p) /\ r.row \in Nat
            /\ r.share = page[p].shares[r.row].share /\ r.share \in Names
            /\ r.local = page[p].shares[r.row].localPath /\ r.local \in Locals
            /\ \A j \in RowsToShare(p) : j < r.row => j <= i
  BY NextCallIs
<1> HIDE DEF r
<1>2. n.req = r
  BY DEF r
<1>3. \A j \in RowsToShare(p) : j \in Nat
  BY DEF RowsToShare, RowsOf
<1>4. Alone(p) => RequestInv(p, n)
  <2> SUFFICES ASSUME Alone(p) PROVE RequestInv(p, n)
    OBVIOUS
  <2>1. CASE r.what = "openExplorer" /\ \A j \in RowsToShare(p) : j <= i
    <3>1. AllSaved(p)
      BY <2>1 DEF AllSaved, Saved
    <3> QED BY <1>2, <2>1, <3>1 DEF RequestInv, Registers
  <2>2. CASE /\ r.what = "addShare" /\ r.circle = page[p].circle
             /\ r.row \in RowsToShare(p) /\ r.row \in Nat
             /\ r.share = page[p].shares[r.row].share /\ r.share \in Names
             /\ r.local = page[p].shares[r.row].localPath /\ r.local \in Locals
             /\ \A j \in RowsToShare(p) : j < r.row => j <= i
    <3>1. Saved(p, r.row - 1)
      BY <1>3, <2>2 DEF Saved
    <3> QED BY <1>2, <2>2, <3>1 DEF RequestInv, Registers
  <2> QED BY <1>1, <2>1, <2>2
<1>5. Alone(p) => RequestInv(p, n)'
  BY <1>4, SameClaims
<1> QED BY <1>1, <1>2, <1>5 DEF AsksWell, Fits

\* The shares are saved.
LEMMA saveSharesIsTame ==
  ASSUME WizardInv, NEW p \in Pages, saveShares(p)
  PROVE  \E n : Acts(p, n) /\ AsksWell(p, n) /\ ShowsWell(p)
<1> DEFINE s == page[p]
           t == [s EXCEPT !.stage = 3]
<1>1. /\ OnStage(p, 2) /\ canSaveShares(p) /\ Show(p, t) /\ Send(NextCall(p, 0))
      /\ UNCHANGED <<up, cfg, disk, served, wrote, answers>>
  BY DEF saveShares, SaveButton
<1>2. PageShape(s) /\ RowsOf(p) /\ NoError(p) /\ s.screen = "wizard" /\ s.stage = 2
  BY <1>1 DEF WizardInv, Inv, PagesShape, SharingInv, RowsOK, Untroubled, OnStage
<1>3. (\A h \in reqs : h.req.page # p) /\ (\A a \in answers : a.to.page # p)
  BY <1>2, IdleStages DEF WizardInv, Shown, OnStage
<1>4. PageShape(t) /\ t.screen = "wizard" /\ t.stage = 3
  BY <1>2, FieldsStay
<1>5. t.error = s.error /\ t.circle = s.circle /\ t.shares = s.shares
  BY <1>2, OtherFieldsStay
<1> HIDE DEF t
<1>6. page'[p] = t /\ \A q \in Pages : q # p => page'[q] = page[q]
  BY <1>1, <1>4, ShowChanges DEF WizardInv, Inv
<1>7. PICK n : n.req = NextCall(p, 0) /\ n.at = "start" /\ reqs' \subseteq reqs \union {n}
  BY <1>1, SendStarts
<1>8. ~OnStage(p, 0)' /\ ~OnStage(p, 1)' /\ ~OnStage(p, 2)' /\ OnStage(p, 3)' /\ ~OnStage(p, 4)'
  BY <1>4, <1>6 DEF OnStage
<1>9. NoError(p)'
  BY <1>2, <1>5, <1>6 DEF NoError
<1>10. Reached(p)
  BY <1>2 DEF Reached
<1>11. Acts(p, n)
  BY <1>1, <1>3, <1>6, <1>7 DEF Acts
<1>12. Alone(p) => Sound(p) /\ Saved(p, 0)
  <2>1. Alone(p) => Sound(p)
    BY <1>1, <1>2 DEF WizardInv, SharingInv, ProgressInv, Progress, Shown
  <2>2. Saved(p, 0)
    <3>1. \A i \in RowsToShare(p) : i \in Nat /\ ~(i <= 0)
      BY <1>2 DEF RowsToShare, RowsOf
    <3> QED BY <3>1 DEF Saved
  <2> QED BY <2>1, <2>2
<1>13. page'[p].circle = page[p].circle /\ page'[p].shares = page[p].shares
  BY <1>5, <1>6
<1>14. AsksWell(p, n)
  BY <1>1, <1>2, <1>7, <1>8, <1>9, <1>10, <1>12, <1>13, NextCallIsInOrder
<1>15. RowsOf(p)'
  BY <1>1, <1>2, <1>13 DEF RowsOf, canSaveShares
<1>16. (Unstored(p)' => Unstored(p)) /\ (Failing(p)' => Failing(p))
  <2>1. n.req.page = p /\ n.req.what # "register"
    BY <1>7, NextCallIsHarmless
  <2> QED BY <1>1, <1>7, <1>8, <2>1 DEF Unstored, Failing, Registers
<1>17. ShowsWell(p)
  BY <1>8, <1>9, <1>10, <1>15, <1>16 DEF ShowsWell
<1> QED BY <1>11, <1>14, <1>17

\* An answer to saveShares() arrives.
LEMMA ShareSavedIsTame ==
  ASSUME WizardInv, NEW p \in Pages, NEW a \in answers, ShareSaved(p, a)
  PROVE  \E n : Acts(p, n) /\ AsksWell(p, n) /\ ShowsWell(p)
<1> DEFINE s == page[p]
<1>1. OnStage(p, 3) /\ Receive(p, a) /\ UNCHANGED <<up, cfg, disk, served, wrote>>
  BY DEF ShareSaved
<1>2. /\ a.to.page = p /\ answers' = answers \ {a}
      /\ \A h \in reqs : h.req.page # p
      /\ \A b \in answers' : b.to.page # p
  BY <1>1, ReceiveIdles DEF WizardInv
<1>3. PageShape(s) /\ RowsOf(p) /\ canSaveShares(p) /\ s.screen = "wizard" /\ s.stage = 3
  BY <1>1 DEF WizardInv, Inv, PagesShape, SharingInv, RowsOK, RowsOf, OnStage
<1>4. NoError(p)
  BY <1>1, <1>3 DEF Receive, Waiting, NoError
<1>5. Alone(p) => AnswerInv(p, a)
  BY <1>2, <1>3 DEF WizardInv, SharingInv, ProgressInv, Progress, Shown
<1>6. Reached(p)
  BY <1>3 DEF Reached
<1>7. CASE ~Throws(a) /\ a.to.what = "addShare" /\ Send(NextCall(p, a.to.row)) /\ UNCHANGED page
  <2> DEFINE i == a.to.row
  <2>1. PICK n : n.req = NextCall(p, i) /\ n.at = "start" /\ reqs' \subseteq reqs \union {n}
    BY <1>7, SendStarts
  <2>2. i \in Nat
    BY <1>7 DEF WizardInv, SharingInv, NamesOK
  <2>3. a.ok
    BY <1>7 DEF Throws
  <2>4. Alone(p) => Sound(p) /\ Saved(p, i)
    BY <1>5, <1>7, <2>3 DEF AnswerInv
  <2> HIDE DEF i
  <2>5. OnStage(p, 3)' /\ ~OnStage(p, 0)' /\ ~OnStage(p, 1)' /\ ~OnStage(p, 2)' /\ ~OnStage(p, 4)'
    BY <1>3, <1>7 DEF OnStage
  <2>6. NoError(p)'
    BY <1>4, <1>7 DEF NoError
  <2>7. Acts(p, n)
    BY <1>1, <1>2, <1>7, <2>1 DEF Acts
  <2>8. page'[p].circle = page[p].circle /\ page'[p].shares = page[p].shares
    BY <1>7
  <2>9. AsksWell(p, n)
    BY <1>1, <1>3, <1>6, <2>1, <2>2, <2>4, <2>5, <2>6, <2>8, NextCallIsInOrder
  <2>10. (Unstored(p)' => Unstored(p)) /\ (Failing(p)' => Failing(p))
    <3>1. n.req.page = p /\ n.req.what # "register"
      BY <2>1, NextCallIsHarmless
    <3> QED BY <1>2, <2>1, <2>5, <3>1 DEF Unstored, Failing, Registers
  <2>11. RowsOf(p)'
    BY <1>1, <1>3, <2>8, SameRows
  <2>12. ShowsWell(p)
    BY <1>6, <2>5, <2>6, <2>10, <2>11 DEF ShowsWell
  <2> QED BY <2>7, <2>9, <2>12
<1>8. CASE /\ ~Throws(a) /\ a.to.what = "openExplorer" /\ UNCHANGED reqs
           /\ Show(p, [page[p] EXCEPT !.stage = 4])
  <2> DEFINE t == [s EXCEPT !.stage = 4]
  <2>1. Show(p, t)
    BY <1>8
  <2>2. PageShape(t) /\ t.screen = "wizard" /\ t.stage = 4
    BY <1>3, FieldsStay
  <2>3. t.error = s.error /\ t.circle = s.circle /\ t.shares = s.shares
    BY <1>3, OtherFieldsStay
  <2> HIDE DEF t
  <2>4. Acts(p, 0) /\ AsksWell(p, 0) /\ page'[p] = t
    BY <1>1, <1>2, <1>8, <2>1, <2>2, ShowIsTame
  <2>5. ~OnStage(p, 0)' /\ ~OnStage(p, 1)' /\ ~OnStage(p, 2)' /\ ~OnStage(p, 3)'
    BY <2>2, <2>4 DEF OnStage
  <2>6. RowsOf(p)'
    BY <1>3, <2>3, <2>4, <2>5, SameRows
  <2>7. (Unstored(p)' => Unstored(p)) /\ (Failing(p)' => Failing(p))
    BY <1>2, <1>8, <2>5 DEF Unstored, Failing, Registers
  <2>8. Alone(p) => Sound(p)' /\ AllSaved(p)'
    <3>1. Alone(p) => Sound(p) /\ AllSaved(p)
      BY <1>5, <1>8 DEF AnswerInv
    <3> QED BY <1>1, <2>3, <2>4, <3>1, SameClaims
  <2>9. ShowsWell(p)
    BY <1>6, <2>5, <2>6, <2>7, <2>8 DEF ShowsWell
  <2> QED BY <2>4, <2>9
<1>9. CASE Caught(p, a)
  BY <1>1, <1>9, CaughtIsTame
<1> QED BY <1>7, <1>8, <1>9 DEF ShareSaved

\* The window is asked to close.
LEMMA ClosingIsTame ==
  ASSUME WizardInv, NEW p \in Pages, closeWindow(p) \/ CloseFails(p)
  PROVE  \E n : Acts(p, n) /\ AsksWell(p, n) /\ ShowsWell(p)
<1> DEFINE s == page[p]
<1>1. OnStage(p, 4) /\ UNCHANGED <<up, cfg, disk, served, wrote, reqs, answers>>
  BY DEF closeWindow, CloseButton, CloseFails, apiVars
<1>2. PageShape(s) /\ RowsOf(p) /\ s.screen = "wizard" /\ s.stage = 4
  BY <1>1 DEF WizardInv, Inv, PagesShape, SharingInv, RowsOK, OnStage
<1>3. (\A h \in reqs : h.req.page # p) /\ (\A a \in answers : a.to.page # p)
  BY <1>2, IdleStages DEF WizardInv, Shown, OnStage
<1>4. PICK e : Show(p, [s EXCEPT !.closing = e])
  BY DEF closeWindow, CloseFails
<1> DEFINE t == [s EXCEPT !.closing = e]
<1>5. PageShape(t) /\ t.screen = "wizard" /\ t.stage = 4
  BY <1>2, FieldsStay
<1>6. t.error = s.error /\ t.circle = s.circle /\ t.shares = s.shares
  BY <1>2, OtherFieldsStay
<1>7. Show(p, t)
  BY <1>4
<1> HIDE DEF t
<1>8. Acts(p, 0) /\ AsksWell(p, 0) /\ page'[p] = t
  BY <1>1, <1>3, <1>5, <1>7, ShowIsTame
<1>9. ~OnStage(p, 0)' /\ ~OnStage(p, 1)' /\ ~OnStage(p, 2)' /\ ~OnStage(p, 3)'
  BY <1>5, <1>8 DEF OnStage
<1>10. RowsOf(p)'
  BY <1>2, <1>6, <1>8, <1>9, SameRows
<1>11. (Unstored(p)' => Unstored(p)) /\ (Failing(p)' => Failing(p))
  BY <1>1, <1>9 DEF Unstored, Failing, Registers
<1>12. Alone(p) => Sound(p)' /\ AllSaved(p)'
  <2>1. Alone(p) => Sound(p) /\ AllSaved(p)
    BY <1>1, <1>2 DEF WizardInv, SharingInv, ProgressInv, Progress, Shown
  <2> QED BY <1>1, <1>6, <1>8, <2>1, SameClaims
<1>13. Reached(p)
  BY <1>2 DEF Reached
<1>14. ShowsWell(p)
  BY <1>9, <1>10, <1>11, <1>12, <1>13 DEF ShowsWell
<1> QED BY <1>8, <1>14

\* A page is closed.
LEMMA CloseKeepsAll ==
  ASSUME WizardInv, NEW p \in Pages, Close(p)
  PROVE  FlightInv' /\ Untroubled' /\ FailureInv' /\ SharingInv'
<1>1. Show(p, Blank("closed")) /\ UNCHANGED <<up, cfg, disk, served, wrote, reqs, answers>>
  BY DEF Close, apiVars
<1>2. /\ page'[p] = Blank("closed")
      /\ \A q \in Pages : q # p => page'[q] = page[q]
  BY <1>1, ShowChanges, BlankShape DEF WizardInv, Inv
<1>3. page'[p].screen = "closed" /\ page'[p].shares = <<>>
  BY <1>2, BlankShape, BlankHasNothing
<1>4. ~Shown(p)' /\ \A i : ~OnStage(p, i)'
  BY <1>3 DEF Shown, OnStage
<1>5. FlightInv'
  BY <1>1, <1>2, <1>4, CloseFlight DEF WizardInv
<1>6. Untroubled'
  BY <1>2, <1>4 DEF WizardInv, Untroubled, OnStage, NoError
<1>7. FailureInv'
  <2>1. \A q \in Pages : (Unstored(q)' => Unstored(q)) /\ (Failing(q)' => Failing(q))
    <3> SUFFICES ASSUME NEW q \in Pages
                 PROVE  (Unstored(q)' => Unstored(q)) /\ (Failing(q)' => Failing(q))
      OBVIOUS
    <3>1. CASE q = p
      BY <1>1, <1>4, <3>1 DEF Unstored, Failing, Registers
    <3>2. CASE q # p
      BY <1>1, <1>2, <3>2 DEF Unstored, Failing, Registers, OnStage, Refused
    <3> QED BY <3>1, <3>2
  <2>2. Known' = Known
    BY <1>1 DEF Known, Listed
  <2>3. MemoryIsStored'
    BY <1>1, <2>1, MemoryStays DEF WizardInv, FailureInv
  <2> QED BY <1>1, <2>1, <2>2, <2>3 DEF WizardInv, FailureInv, KnownIsStored, OwnNames, ListsArrive
<1>8. RowsOK'
  <2> SUFFICES ASSUME NEW q \in Pages PROVE RowsOf(q)'
    BY DEF RowsOK
  <2>1. CASE q = p
    BY <1>3, <2>1, NoRows
  <2>2. CASE q # p
    <3>1. RowsOf(q) /\ page'[q] = page[q]
      BY <1>2, <2>2 DEF WizardInv, SharingInv, RowsOK
    <3> QED BY <3>1 DEF RowsOf, OnStage, canSaveShares
  <2> QED BY <2>1, <2>2
<1>9. ReachedHaveWritten'
  <2> SUFFICES ASSUME NEW q \in Pages, Reached(q)' PROVE Reached(q)
    BY <1>1 DEF ReachedHaveWritten, WizardInv, SharingInv
  <2> QED BY <1>1, <1>2, <1>3 DEF Reached
<1>10. ProgressInv'
  <2> SUFFICES ASSUME NEW q \in Pages, Shown(q)', Alone(q)' PROVE Progress(q)'
    BY DEF ProgressInv
  <2>1. q # p /\ Alone(q)
    BY <1>1, <1>4 DEF Alone
  <2>2. page'[q] = page[q]
    BY <1>2, <2>1
  <2>3. Progress(q)
    BY <2>1, <2>2 DEF Shown, WizardInv, SharingInv, ProgressInv
  <2> QED BY <1>1, <2>2, <2>3, SameClaims DEF Progress, OnStage
<1>11. NamesOK' /\ ConfigsOK'
  BY <1>1 DEF NamesOK, ConfigsOK, WizardInv, SharingInv
<1> QED BY <1>5, <1>6, <1>7, <1>8, <1>9, <1>10, <1>11 DEF SharingInv

\* Nothing happens but that an answer is dropped.
LEMMA DroppingKeepsAll ==
  ASSUME WizardInv, UNCHANGED <<up, cfg, disk, served, wrote, page, reqs>>, answers' \subseteq answers
  PROVE  FlightInv' /\ Untroubled' /\ FailureInv' /\ SharingInv'
<1>1. FlightInv'
  <2>1. \A q \in Pages : \A what : Fits(q, what) => Fits(q, what)'
    BY SamePage
  <2> QED BY <2>1 DEF WizardInv, FlightInv, OneInFlight, EverythingFits
<1>2. Untroubled'
  BY DEF WizardInv, Untroubled, OnStage, NoError
<1>3. FailureInv'
  <2>1. \A q \in Pages : (Unstored(q)' => Unstored(q)) /\ (Failing(q)' => Failing(q))
    BY DEF Unstored, Failing, Registers, OnStage, Refused
  <2>2. Known' = Known
    BY DEF Known, Listed
  <2>3. MemoryIsStored'
    BY <2>1, MemoryStays DEF WizardInv, FailureInv
  <2> QED BY <2>1, <2>2, <2>3 DEF WizardInv, FailureInv, KnownIsStored, OwnNames, ListsArrive
<1>4. RowsOK'
  BY DEF WizardInv, SharingInv, RowsOK, RowsOf, OnStage, canSaveShares
<1>5. ReachedHaveWritten'
  BY DEF ReachedHaveWritten, WizardInv, SharingInv, Reached
<1>6. ProgressInv'
  <2> SUFFICES ASSUME NEW q \in Pages, Shown(q)', Alone(q)' PROVE Progress(q)'
    BY DEF ProgressInv
  <2>1. Progress(q)
    BY DEF Shown, WizardInv, SharingInv, ProgressInv, Alone
  <2> QED BY <2>1, SameClaims DEF Progress, OnStage
<1>7. NamesOK' /\ ConfigsOK'
  BY DEF NamesOK, ConfigsOK, WizardInv, SharingInv
<1> QED BY <1>1, <1>2, <1>3, <1>4, <1>5, <1>6, <1>7 DEF SharingInv

\* Every step of every page.
LEMMA PagesKeepAll ==
  ASSUME WizardInv, NEW p \in Pages, Answered(p) \/ FetchRejects(p) \/ User(p) \/ CloseFails(p)
  PROVE  FlightInv' /\ Untroubled' /\ FailureInv' /\ SharingInv'
<1>1. CASE Close(p)
  BY <1>1, CloseKeepsAll
<1>2. CASE ~Close(p)
  <2>1. \E n : Acts(p, n) /\ AsksWell(p, n) /\ ShowsWell(p)
    BY <1>2, OpenIsTame, LoadIsTame, RejectIsTame, TypeIsTame, addCircleIsTame, CircleAddedIsTame,
       addNewShareIsTame, EditShareIsTame, saveSharesIsTame, ShareSavedIsTame, ClosingIsTame
    DEF Answered, User
  <2> QED BY <2>1, ActsKeepAll
<1> QED BY <1>1, <1>2

-----------------------------------------------------------------------------
\* What the client does to what is listed.

\* A crash lists no circle but that of a registration that was storing it.
LEMMA CrashLists ==
  ASSUME Inv, Crash
  PROVE  \/ Known' \subseteq Known
         \/ \E h \in reqs : Registers(h) /\ h.at = "add" /\ Known' \subseteq Known \union {h.req.circle}
<1>1. cfg' = NoConfig
  BY DEF Crash, Die
<1>2. CASE disk' = disk
  BY <1>1, <1>2, DeadListsLess
<1>3. ASSUME NEW h \in reqs, At(h, "register", "add"), disk' \in CutOff(WithCircle(h.req.circle))
      PROVE  Registers(h) /\ h.at = "add" /\ Known' \subseteq Known \union {h.req.circle}
  <2>1. Registers(h) /\ h.at = "add"
    BY <1>3 DEF At, Registers
  <2>2. h.req.circle \in Circles
    BY <2>1 DEF Inv, HandlersShape, HandlerShape
  <2>3. Listed(WithCircle(h.req.circle)) \subseteq Listed(cfg) \union {h.req.circle}
    BY <2>2, WithCircleIs DEF Inv
  <2>4. Listed(disk') \subseteq Listed(WithCircle(h.req.circle))
    BY <1>3, CutOffLists
  <2>5. Known' \subseteq Known \union {h.req.circle}
    BY <1>1, <2>3, <2>4, NoConfigIsEmpty DEF Known, Listed
  <2> QED BY <2>1, <2>5
<1>4. ASSUME NEW h \in reqs, cfg[h.req.circle] # None, disk' \in CutOff(WithShare(h.req))
      PROVE  Known' \subseteq Known
  <2>1. Listed(WithShare(h.req)) \subseteq Listed(cfg)
    BY <1>4, WithShareLists DEF Inv
  <2>2. Listed(disk') \subseteq Listed(WithShare(h.req))
    BY <1>4, CutOffLists
  <2> QED BY <1>1, <2>1, <2>2, NoConfigIsEmpty DEF Known, Listed
<1> QED BY <1>2, <1>3, <1>4 DEF Crash, WrittenInPart

\* A circle that a registration lists with the step that ends it well, with a failed
\* write of config.yaml or with the client is not one of a registration that left
\* nothing.
LEMMA ListingIsStored ==
  ASSUME WizardInv, UNCHANGED page, NEW h \in reqs, Registers(h), h.at = "add",
         \A c \in Circles : wrote[c] \subseteq wrote'[c],
         \/ \E n : Moves(h, n) /\ n.at = "reload"
         \/ \E a : AnswersBy(h, a) /\ ~a.ok /\ a.why = "config"
         \/ reqs' = {} /\ answers' = answers
  PROVE  \E w \in wrote'[h.req.circle] : w \in Pages => ~Unstored(w)'
<1> DEFINE v == h.req.page
           d == h.req.circle
<1>1. d \in Circles /\ v \in Pages /\ v \in wrote'[d]
  BY DEF WizardInv, Inv, Noted, HandlersShape, HandlerShape
<1>2. /\ \A g \in reqs : g.req.page = v => g = h
      /\ \A a \in answers : a.to.page # v
  BY DEF WizardInv, FlightInv, OneInFlight
<1>3. ~(OnStage(v, 1)' /\ Refused(v)')
  <2>1. Fits(v, "register")
    BY DEF Registers, WizardInv, FlightInv, EverythingFits
  <2>2. ~(OnStage(v, 1) /\ Refused(v))
    BY <2>1 DEF Fits, OnStage, Shown, NoError, Refused
  <2> QED BY <2>2 DEF OnStage, Refused
<1>4. CASE \E n : Moves(h, n) /\ n.at = "reload"
  <2>1. PICK n : Moves(h, n) /\ n.at = "reload"
    BY <1>4
  <2>2. \A g \in reqs' : g.req.page = v => g = n
    BY <1>2, <2>1 DEF Moves
  <2>3. ~Unstored(v)'
    BY <1>2, <1>3, <2>1, <2>2 DEF Unstored, Registers, Stored, Moves
  <2> QED BY <1>1, <2>3
<1>5. CASE \E a : AnswersBy(h, a) /\ ~a.ok /\ a.why = "config"
  <2>1. PICK a : AnswersBy(h, a) /\ ~a.ok /\ a.why = "config"
    BY <1>5
  <2>2. /\ \A g \in reqs' : g.req.page # v
        /\ \A b \in answers' : b.to.page = v => b = a
    BY <1>2, <2>1 DEF AnswersBy
  <2>3. ~Unstored(v)'
    BY <1>3, <2>1, <2>2 DEF Unstored
  <2> QED BY <1>1, <2>3
<1>6. CASE reqs' = {} /\ answers' = answers
  <2>1. ~Unstored(v)'
    BY <1>2, <1>3, <1>6 DEF Unstored
  <2> QED BY <1>1, <2>1
<1> QED BY <1>4, <1>5, <1>6

\* What is listed was stored: the client keeps it so.
LEMMA ApiKeepsStored ==
  ASSUME WizardInv, UNCHANGED page, Api
  PROVE  KnownIsStored'
<1>1. \A p \in Pages : Unstored(p)' => Unstored(p)
  BY ApiUnstores DEF WizardInv
<1>2. \A c \in Circles : wrote[c] \subseteq wrote'[c]
  BY WroteGrows DEF WizardInv
<1>3. ASSUME NEW c \in Known
      PROVE  \E w \in wrote'[c] : w \in Pages => ~Unstored(w)'
  <2>1. c \in Circles
    BY DEF Known, Listed
  <2>2. PICK w \in wrote[c] : w \in Pages => ~Unstored(w)
    BY DEF WizardInv, FailureInv, KnownIsStored
  <2> QED BY <1>1, <1>2, <2>1, <2>2
<1>4. ASSUME Known' \subseteq Known
      PROVE  KnownIsStored'
  BY <1>3, <1>4 DEF KnownIsStored
<1>5. ASSUME NEW h \in reqs, Registers(h), h.at = "add", Known' \subseteq Known \union {h.req.circle},
             \/ \E n : Moves(h, n) /\ n.at = "reload"
             \/ \E a : AnswersBy(h, a) /\ ~a.ok /\ a.why = "config"
             \/ reqs' = {} /\ answers' = answers
      PROVE  KnownIsStored'
  <2>1. \E w \in wrote'[h.req.circle] : w \in Pages => ~Unstored(w)'
    BY <1>2, <1>5, ListingIsStored
  <2> QED BY <1>3, <1>5, <2>1 DEF KnownIsStored
<1>6. ASSUME NEW h \in reqs, HandlerStep(h)
      PROVE  KnownIsStored'
  <2>1. \/ Known' \subseteq Known
        \/ /\ Registers(h) /\ h.at = "add" /\ Known' \subseteq Known \union {h.req.circle}
           /\ \/ \E n : Moves(h, n) /\ n.at = "reload"
              \/ \E a : AnswersBy(h, a) /\ ~a.ok /\ a.why = "config"
    BY <1>6, ApiLists DEF WizardInv
  <2> QED BY <1>4, <1>5, <2>1
<1>7. CASE Crash
  <2>1. reqs' = {} /\ answers' = answers
    BY <1>7 DEF Crash, Die
  <2>2. \/ Known' \subseteq Known
        \/ \E h \in reqs : Registers(h) /\ h.at = "add" /\ Known' \subseteq Known \union {h.req.circle}
    BY <1>7, CrashLists DEF WizardInv
  <2> QED BY <1>4, <1>5, <2>1, <2>2
<1>8. CASE Start
  <2>1. cfg' = disk /\ disk' = disk
    BY <1>8 DEF Start
  <2>2. Known' \subseteq Known
    BY <2>1 DEF Known, Listed
  <2> QED BY <1>4, <2>2
<1> QED BY <1>6, <1>7, <1>8 DEF Api

\* Memory and disk differ when a write fails.  If it is that of a registration, what
\* was listed was there at the first start, or another page has written; if it is that
\* of a share, the page that asked for it has its circle.
LEMMA ApiKeepsMemory ==
  ASSUME WizardInv, UNCHANGED page, Api
  PROVE  MemoryIsStored'
<1>1. \A q \in Pages : Failing(q)' => Failing(q) \/ Fresh(q)
  BY ApiUnstores DEF WizardInv
<1>2. \A c \in Circles : wrote[c] \subseteq wrote'[c]
  BY WroteGrows DEF WizardInv
<1>3. CASE UNCHANGED <<cfg, disk>>
  BY <1>1, <1>2, <1>3, MemoryStays DEF WizardInv, FailureInv
<1>4. CASE cfg' = disk' \/ cfg' = NoConfig
  BY <1>4, NoConfigIsEmpty DEF MemoryIsStored, Listed
<1>5. ASSUME NEW h \in reqs, Registers(h), h.at = "add", Listed(cfg') \subseteq Listed(cfg)
      PROVE  MemoryIsStored'
  <2> SUFFICES ASSUME NEW c \in Listed(cfg)
               PROVE  c \in wrote'[c] \/ Busy'
    BY <1>5 DEF MemoryIsStored, Listed
  <2>1. c \in Circles /\ c \in Known
    BY DEF Listed, Known
  <2>2. PICK w \in wrote[c] : w \in Pages => ~Unstored(w)
    BY <2>1 DEF WizardInv, FailureInv, KnownIsStored
  <2>3. CASE w \in Pages
    <3> DEFINE v == h.req.page
               d == h.req.circle
    <3>1. v \in Pages /\ d \in Circles /\ v \in wrote[d]
      BY <1>5 DEF WizardInv, Inv, Noted, HandlersShape, HandlerShape
    <3>2. Unstored(v)
      BY <1>5 DEF Unstored, Stored
    <3>3. w # v
      BY <2>2, <2>3, <3>2
    <3>4. Busy
      BY <2>1, <2>2, <2>3, <3>1, <3>3 DEF Busy
    <3> QED BY <1>1, <1>2, <3>4, BusyStays DEF WizardInv
  <2>4. CASE w \notin Pages
    <3>1. w \in Circles
      BY <2>1, <2>2, <2>4 DEF WizardInv, Inv, FilesShape
    <3>2. w = c
      BY <2>1, <2>2, <3>1 DEF WizardInv, FailureInv, OwnNames
    <3> QED BY <1>2, <2>1, <2>2, <3>2
  <2> QED BY <2>3, <2>4
<1>6. ASSUME NEW h \in reqs, h.req.what = "addShare"
      PROVE  MemoryIsStored'
  <2> DEFINE v == h.req.page
  <2>1. v \in Pages /\ Fits(v, "addShare")
    BY <1>6 DEF WizardInv, FlightInv, EverythingFits
  <2>2. /\ \A g \in reqs : g.req.page = v => g = h
        /\ \A a \in answers : a.to.page # v
    BY DEF WizardInv, FlightInv, OneInFlight
  <2>3. ~OnStage(v, 1)
    BY <2>1 DEF Fits, OnStage, Shown
  <2>4. ~Failing(v)
    BY <1>6, <2>2, <2>3 DEF Failing, Registers
  <2>5. Reached(v)
    BY <1>6 DEF Reached
  <2>6. \E c \in Circles : v \in wrote[c]
    BY <2>1, <2>5 DEF WizardInv, SharingInv, ReachedHaveWritten
  <2>7. Busy
    BY <2>1, <2>4, <2>6 DEF Busy
  <2>8. Busy'
    BY <1>1, <1>2, <2>7, BusyStays DEF WizardInv
  <2> QED BY <2>8 DEF MemoryIsStored
<1>7. ASSUME NEW h \in reqs, AddCircleAndStore(h)
      PROVE  MemoryIsStored'
  <2> DEFINE d == h.req.circle
             new == WithCircle(d)
  <2>1. /\ Registers(h) /\ h.at = "add" /\ d \in Circles
        /\ \/ cfg' = new /\ disk' = new
           \/ cfg' = cfg
           \/ cfg' = new /\ cfg[d] # None
    BY <1>7, CircleMoves DEF WizardInv
  <2>2. Listed(new) \subseteq Listed(cfg) \union {d}
    BY <2>1, WithCircleIs DEF WizardInv, Inv
  <2> HIDE DEF new
  <2>3. cfg' = cfg \/ (cfg' = new /\ cfg[d] # None) => Listed(cfg') \subseteq Listed(cfg)
    BY <2>1, <2>2 DEF Listed
  <2> QED BY <1>4, <1>5, <2>1, <2>3
<1>8. ASSUME NEW h \in reqs, AddShareAndStore(h)
      PROVE  MemoryIsStored'
  BY <1>6, <1>8 DEF AddShareAndStore, At
<1>9. ASSUME NEW h \in reqs, HandlerStep(h), ~AddCircleAndStore(h), ~AddShareAndStore(h)
      PROVE  MemoryIsStored'
  <2>1. cfg' \in {cfg, NoConfig} /\ disk' = disk
    BY <1>9 DEF HandlerStep, RegisterRpc, WriteKey, WriteCrt, WriteCa, ReloadRead, ReloadPublish,
                ReloadCerts, WaitForCircle, SharesInCircle, OpenExplorer, RenderPage, Die
  <2> QED BY <1>3, <1>4, <2>1
<1>10. CASE Crash \/ Start
  BY <1>4, <1>10 DEF Crash, Die, Start
<1> QED BY <1>7, <1>8, <1>9, <1>10 DEF Api

\* All that is known of what is listed.
LEMMA ApiKeepsFailure ==
  ASSUME WizardInv, UNCHANGED page, Api
  PROVE  FailureInv'
<1>1. ASSUME wrote' = wrote, answers' = answers
      PROVE  OwnNames' /\ ListsArrive'
  BY <1>1 DEF WizardInv, FailureInv, OwnNames, ListsArrive
<1>2. ASSUME NEW h \in reqs, HandlerStep(h)
      PROVE  OwnNames' /\ ListsArrive'
  <2>1. \/ wrote' = wrote
        \/ Registers(h) /\ wrote' = [wrote EXCEPT ![h.req.circle] = @ \union {h.req.page}]
    BY <1>2, ApiLists DEF WizardInv
  <2>2. Registers(h) => h.req.page \in Pages
    BY DEF WizardInv, Inv, HandlersShape, HandlerShape
  <2>3. \A c \in Circles : wrote'[c] \subseteq wrote[c] \union Pages
    BY <2>1, <2>2 DEF WizardInv, Inv, FilesShape
  <2>4. OwnNames'
    BY <2>3, PagesAreNotCircles DEF WizardInv, FailureInv, OwnNames
  <2>5. \A a \in answers' : a.to.what = "sharesInCircle" => a \in answers \/ a.ok
    BY <1>2, HandlerMoves DEF WizardInv, Moves, AnswersBy
  <2>6. ListsArrive'
    BY <2>5 DEF WizardInv, FailureInv, ListsArrive
  <2> QED BY <2>4, <2>6
<1>3. OwnNames' /\ ListsArrive'
  BY <1>1, <1>2 DEF Api, Crash, Die, Start
<1> QED BY <1>3, ApiKeepsStored, ApiKeepsMemory DEF FailureInv

-----------------------------------------------------------------------------
\* What the client does to shares.

\* What can be read of a file that was to hold a configuration is one.
LEMMA CutOffIsConfig ==
  ASSUME NEW config \in Configs, NEW left \in CutOff(config)
  PROVE  left \in Configs
<1> DEFINE S == [Names -> Locals \union {None}]
<1>1. PICK whole \in SUBSET Listed(config), last \in Listed(config) \union {None}, kept \in SUBSET Names :
        left = [c \in Circles |-> IF c \in whole THEN config[c]
                     ELSE IF c # last THEN None
                     ELSE [n \in Names |-> IF n \in kept THEN config[c][n] ELSE None]]
  BY DEF CutOff
<1>2. \A c \in Circles : config[c] \in S \union {None}
  BY DEF Configs
<1>3. ASSUME NEW c \in Circles
      PROVE  left[c] \in S \union {None}
  <2>1. CASE c \notin whole /\ c = last
    <3>1. c \in Listed(config)
      BY <2>1, NoneIsNothing
    <3>2. config[c] \in S
      BY <1>2, <3>1 DEF Listed
    <3>3. [n \in Names |-> IF n \in kept THEN config[c][n] ELSE None] \in S
      BY <3>2
    <3>4. left[c] = [n \in Names |-> IF n \in kept THEN config[c][n] ELSE None]
      BY <1>1, <2>1
    <3> QED BY <3>3, <3>4
  <2>2. CASE c \in whole \/ c # last
    <3>1. left[c] = config[c] \/ left[c] = None
      BY <1>1, <2>2
    <3> QED BY <1>2, <3>1
  <2> QED BY <2>1, <2>2
<1>4. left = [c \in Circles |-> left[c]]
  BY <1>1
<1> HIDE DEF S
<1>5. left \in [Circles -> S \union {None}]
  BY <1>3, <1>4
<1> QED BY <1>5 DEF S, Configs

LEMMA WithCircleIsConfig ==
  ASSUME cfg \in Configs, NEW c
  PROVE  WithCircle(c) \in Configs
<1>1. NoShares \in [Names -> Locals \union {None}]
  BY DEF NoShares
<1> QED BY <1>1 DEF Configs, WithCircle

LEMMA WithShareIsConfig ==
  ASSUME cfg \in Configs, NEW r, r.share \in Names, r.local \in Locals, cfg[r.circle] # None
  PROVE  WithShare(r) \in Configs
<1> DEFINE c == r.circle
<1>1. CASE c \in Circles
  <2>1. cfg[c] \in [Names -> Locals \union {None}]
    BY <1>1 DEF Configs
  <2> DEFINE with == [cfg[c] EXCEPT ![r.share] = r.local]
  <2>2. with \in [Names -> Locals \union {None}]
    BY <2>1
  <2>3. WithShare(r) = [cfg EXCEPT ![c] = with]
    BY DEF WithShare
  <2> HIDE DEF with
  <2> QED BY <2>2, <2>3 DEF Configs
<1>2. CASE c \notin Circles
  <2>1. WithShare(r) = cfg
    BY <1>2 DEF Configs, WithShare
  <2> QED BY <2>1
<1> QED BY <1>1, <1>2

\* The share that a request asks for has a name and a path.
LEMMA ShareHasName ==
  ASSUME WizardInv, NEW h \in reqs, h.req.what = "addShare"
  PROVE  h.req.share \in Names /\ h.req.local \in Locals
BY DEF WizardInv, SharingInv, NamesOK

\* A client's configuration is one.
LEMMA ApiKeepsConfigs ==
  ASSUME WizardInv, UNCHANGED page, Api
  PROVE  ConfigsOK'
<1>1. NoConfig \in Configs
  BY DEF NoConfig, Configs
<1>2. cfg \in Configs /\ disk \in Configs
  BY DEF WizardInv, SharingInv, ConfigsOK
<1>3. ASSUME NEW new \in Configs, cfg' \in {cfg, new, NoConfig, disk},
             disk' = disk \/ disk' = new \/ disk' \in CutOff(new)
      PROVE  ConfigsOK'
  <2>1. disk' \in CutOff(new) => disk' \in Configs
    BY CutOffIsConfig
  <2> QED BY <1>1, <1>2, <1>3, <2>1 DEF ConfigsOK
<1>4. ASSUME NEW h \in reqs, AddCircleAndStore(h)
      PROVE  ConfigsOK'
  <2> DEFINE new == WithCircle(h.req.circle)
  <2>1. new \in Configs
    BY <1>2, WithCircleIsConfig
  <2>2. cfg' \in {cfg, new} /\ (disk' = disk \/ disk' = new \/ disk' \in CutOff(new))
    BY <1>4, CircleMoves DEF WizardInv
  <2> HIDE DEF new
  <2> QED BY <1>3, <2>1, <2>2
<1>5. ASSUME NEW h \in reqs, AddShareAndStore(h)
      PROVE  ConfigsOK'
  <2> DEFINE new == WithShare(h.req)
  <2>1. /\ h.req.what = "addShare"
        /\ \/ UNCHANGED <<cfg, disk>>
           \/ /\ cfg[h.req.circle] # None /\ cfg' = new
              /\ disk' = disk \/ disk' = new \/ disk' \in CutOff(new)
    BY <1>5, ShareMoves DEF WizardInv
  <2>2. cfg[h.req.circle] # None => new \in Configs
    BY <1>2, <2>1, ShareHasName, WithShareIsConfig
  <2> HIDE DEF new
  <2> QED BY <1>2, <1>3, <2>1, <2>2 DEF ConfigsOK
<1>6. ASSUME NEW h \in reqs, HandlerStep(h), ~AddCircleAndStore(h), ~AddShareAndStore(h)
      PROVE  ConfigsOK'
  <2>1. cfg' \in {cfg, NoConfig} /\ disk' = disk
    BY <1>6 DEF HandlerStep, RegisterRpc, WriteKey, WriteCrt, WriteCa, ReloadRead, ReloadPublish,
                ReloadCerts, WaitForCircle, SharesInCircle, OpenExplorer, RenderPage, Die
  <2> QED BY <1>1, <1>3, <2>1
<1>7. CASE Crash
  <2>1. cfg' = NoConfig
    BY <1>7 DEF Crash, Die
  <2>2. ASSUME NEW h \in reqs, disk' \in CutOff(WithCircle(h.req.circle))
        PROVE  ConfigsOK'
    <3>1. WithCircle(h.req.circle) \in Configs
      BY <1>2, WithCircleIsConfig
    <3> QED BY <1>3, <2>1, <2>2, <3>1
  <2>3. ASSUME NEW h \in reqs, At(h, "addShare", "start"), cfg[h.req.circle] # None,
               disk' \in CutOff(WithShare(h.req))
        PROVE  ConfigsOK'
    <3>1. h.req.what = "addShare"
      BY <2>3 DEF At
    <3>2. WithShare(h.req) \in Configs
      BY <1>2, <2>3, <3>1, ShareHasName, WithShareIsConfig
    <3> QED BY <1>3, <2>1, <2>3, <3>2
  <2>4. CASE disk' = disk
    BY <1>1, <1>3, <2>1, <2>4
  <2> QED BY <1>7, <2>2, <2>3, <2>4 DEF Crash, WrittenInPart
<1>8. CASE Start
  <2>1. cfg' = disk /\ disk' = disk
    BY <1>8 DEF Start
  <2> QED BY <1>1, <1>3, <2>1
<1> QED BY <1>4, <1>5, <1>6, <1>7, <1>8 DEF Api

\* Names stay names, and who got a circle has written.
LEMMA ApiKeepsNames ==
  ASSUME WizardInv, UNCHANGED page, Api
  PROVE  RowsOK' /\ NamesOK' /\ ReachedHaveWritten'
<1>1. RowsOK'
  BY DEF WizardInv, SharingInv, RowsOK, RowsOf, OnStage, canSaveShares
<1>2. \A c \in Circles : wrote[c] \subseteq wrote'[c]
  BY WroteGrows DEF WizardInv
<1>3. CASE reqs' \subseteq reqs /\ answers' = answers
  BY <1>1, <1>2, <1>3 DEF WizardInv, SharingInv, NamesOK, ReachedHaveWritten, Reached
<1>4. ASSUME NEW h \in reqs, NEW n, Moves(h, n)
      PROVE  NamesOK' /\ ReachedHaveWritten'
  <2>1. n.req = h.req /\ reqs' = (reqs \ {h}) \union {n} /\ answers' = answers
    BY <1>4 DEF Moves
  <2>2. NamesOK'
    BY <2>1 DEF WizardInv, SharingInv, NamesOK
  <2>3. \A p \in Pages : Reached(p)' => Reached(p)
    BY <2>1 DEF Reached
  <2> QED BY <1>2, <2>2, <2>3 DEF WizardInv, SharingInv, ReachedHaveWritten
<1>5. ASSUME NEW h \in reqs, NEW a, AnswersBy(h, a)
      PROVE  NamesOK' /\ ReachedHaveWritten'
  <2>1. /\ a.to = h.req /\ reqs' = reqs \ {h} /\ answers' = answers \union {a}
        /\ a.shares \in Seq(Names) \union {None}
        /\ Registers(h) /\ a.ok => h.at = "wait"
    BY <1>5 DEF AnswersBy
  <2>2. NamesOK'
    BY <2>1 DEF WizardInv, SharingInv, NamesOK
  <2>3. Registers(h) /\ a.ok => h.req.circle \in Circles /\ h.req.page \in wrote[h.req.circle]
    BY <2>1 DEF WizardInv, Inv, Noted, HandlersShape, HandlerShape
  <2>4. ASSUME NEW p \in Pages, Reached(p)'
        PROVE  Reached(p) \/ (Registers(h) /\ a.ok /\ h.req.page = p)
    BY <2>1, <2>4 DEF Reached, Registers
  <2> QED BY <1>2, <2>2, <2>3, <2>4 DEF WizardInv, SharingInv, ReachedHaveWritten
<1>6. ASSUME NEW h \in reqs, HandlerStep(h)
      PROVE  NamesOK' /\ ReachedHaveWritten'
  BY <1>3, <1>4, <1>5, <1>6, HandlerMoves DEF WizardInv
<1>7. CASE Crash \/ Start
  BY <1>3, <1>7 DEF Crash, Die, Start
<1> QED BY <1>1, <1>6, <1>7 DEF Api

-----------------------------------------------------------------------------
\* What the client does to a page that is alone.

\* A page that nobody else writes with is left alone by all other handlers.
LEMMA OthersAreHarmless ==
  ASSUME WizardInv, NEW p \in Pages, Alone(p), NEW h \in reqs, h.req.page # p,
         (Registers(h) /\ h.at # "start") \/ h.req.what = "addShare"
  PROVE  FALSE
<1>1. h.req.page \in Pages
  BY DEF WizardInv, FlightInv, EverythingFits
<1>2. \E c \in Circles : h.req.page \in wrote[c]
  <2>1. CASE Registers(h) /\ h.at # "start"
    BY <2>1 DEF WizardInv, Inv, Noted, HandlersShape, HandlerShape
  <2>2. CASE h.req.what = "addShare"
    <3>1. Reached(h.req.page)
      BY <2>2 DEF Reached
    <3> QED BY <1>1, <3>1 DEF WizardInv, SharingInv, ReachedHaveWritten
  <2> QED BY <2>1, <2>2
<1> QED BY <1>1, <1>2, PagesAreNotCircles DEF Alone

\* Only registrations and saved shares change what the client has.
LEMMA WhoChanges ==
  ASSUME NEW h \in reqs, HandlerStep(h), ~UNCHANGED <<up, cfg, disk, served>>
  PROVE  (Registers(h) /\ h.at # "start") \/ h.req.what = "addShare"
<1>1. AddCircleAndStore(h) \/ AddShareAndStore(h) \/ ReloadPublish(h) \/ ReloadCerts(h)
  BY DEF HandlerStep, RegisterRpc, WriteKey, WriteCrt, WriteCa, ReloadRead, WaitForCircle,
         SharesInCircle, OpenExplorer, RenderPage
<1> QED BY <1>1 DEF AddCircleAndStore, AddShareAndStore, ReloadPublish, ReloadCerts, At, Registers

\* A page whose own request is under way is on no stage that claims something.
LEMMA OwnRequest ==
  ASSUME WizardInv, UNCHANGED page, NEW p \in Pages, Shown(p),
         NEW h \in reqs, h.req.page = p
  PROVE  ~OnStage(p, 2)' /\ ~OnStage(p, 4)' /\ \A a \in answers : a.to.page # p
<1>1. Fits(p, h.req.what)
  BY DEF WizardInv, FlightInv, EverythingFits
<1>2. ~OnStage(p, 2) /\ ~OnStage(p, 4)
  BY <1>1 DEF Fits, OnStage, Shown
<1>3. \A a \in answers : a.to.page # p
  BY DEF WizardInv, FlightInv, OneInFlight
<1> QED BY <1>2, <1>3 DEF OnStage

\* The page's own request moves on, is answered, or ends with the client.
LEMMA OwnStep ==
  ASSUME WizardInv, UNCHANGED page, NEW p \in Pages, Shown(p),
         NEW h \in reqs, h.req.page = p,
         \/ \E n : /\ reqs' = (reqs \ {h}) \union {n} /\ answers' = answers
                   /\ RequestInv(p, n)'
         \/ \E a : /\ reqs' = reqs \ {h} /\ answers' = answers \union {a}
                   /\ AnswerInv(p, a)'
         \/ reqs' = {} /\ answers' = answers
  PROVE  Progress(p)'
<1>1. ~OnStage(p, 2)' /\ ~OnStage(p, 4)' /\ \A a \in answers : a.to.page # p
  BY OwnRequest
<1>2. \A g \in reqs : g.req.page = p => g = h
  BY DEF WizardInv, FlightInv, OneInFlight
<1>3. CASE \E n : /\ reqs' = (reqs \ {h}) \union {n} /\ answers' = answers
                  /\ RequestInv(p, n)'
  <2> PICK n : /\ reqs' = (reqs \ {h}) \union {n} /\ answers' = answers
               /\ RequestInv(p, n)'
    BY <1>3
  <2>1. \A g \in reqs' : g.req.page = p => g = n
    BY <1>2
  <2>2. \A g \in reqs' : g.req.page = p => RequestInv(p, g)'
    BY <2>1
  <2> QED BY <1>1, <2>2 DEF Progress
<1>4. CASE \E a : /\ reqs' = reqs \ {h} /\ answers' = answers \union {a}
                  /\ AnswerInv(p, a)'
  <2> PICK a : /\ reqs' = reqs \ {h} /\ answers' = answers \union {a}
               /\ AnswerInv(p, a)'
    BY <1>4
  <2>1. \A b \in answers' : b.to.page = p => b = a
    BY <1>1
  <2>2. \A b \in answers' : b.to.page = p => AnswerInv(p, b)'
    BY <2>1
  <2> QED BY <1>1, <1>2, <2>2 DEF Progress
<1>5. CASE reqs' = {} /\ answers' = answers
  BY <1>1, <1>5 DEF Progress
<1> QED BY <1>3, <1>4, <1>5

\* Its request goes to its next step ...
LEMMA OwnGoto ==
  ASSUME WizardInv, UNCHANGED page, NEW p \in Pages, Shown(p),
         NEW h \in reqs, h.req.page = p, NEW at, Goto(h, at), answers' = answers,
         \A n : n.req = h.req /\ n.at = at /\ n.snap = h.snap => RequestInv(p, n)'
  PROVE  Progress(p)'
<1>1. PICK n : /\ n.req = h.req /\ n.at = at /\ n.snap = h.snap
               /\ reqs' = (reqs \ {h}) \union {n}
  BY GotoIs DEF WizardInv
<1>2. RequestInv(p, n)'
  BY <1>1
<1> QED BY <1>1, <1>2, OwnStep

\* ... is answered ...
LEMMA OwnDone ==
  ASSUME WizardInv, UNCHANGED page, NEW p \in Pages, Shown(p),
         NEW h \in reqs, h.req.page = p, Done(h),
         \A a : a.to = h.req => AnswerInv(p, a)'
  PROVE  Progress(p)'
<1> DEFINE a == Ok(h.req)
<1>1. a.to = h.req
  BY DEF Ok
<1>2. reqs' = reqs \ {h} /\ answers' = answers \union {a}
  BY DEF Done, Answer
<1>3. AnswerInv(p, a)'
  BY <1>1
<1> HIDE DEF a
<1> QED BY <1>2, <1>3, OwnStep

\* ... or fails.
LEMMA OwnFail ==
  ASSUME WizardInv, UNCHANGED page, NEW p \in Pages, Shown(p),
         NEW h \in reqs, h.req.page = p, NEW why, Fail(h, why),
         h.req.what \in {"register", "addShare"}
  PROVE  Progress(p)'
<1> DEFINE a == [to |-> h.req, ok |-> FALSE, why |-> why, shares |-> None]
<1>1. a.to = h.req /\ a.ok = FALSE
  OBVIOUS
<1>2. reqs' = reqs \ {h} /\ answers' = answers \union {a}
  BY DEF Fail, Answer
<1> HIDE DEF a
<1>3. AnswerInv(p, a)'
  BY <1>1 DEF AnswerInv
<1> QED BY <1>2, <1>3, OwnStep

\* shares.ReloadConfig sees the configuration that it was given when nobody changes it.
LEMMA SeenIsGiven ==
  ASSUME cfg \in Configs, NEW seen \in Seen(cfg)
  PROVE  seen = cfg
<1>1. \A c \in Circles : seen[c] = cfg[c]
  <2> SUFFICES ASSUME NEW c \in Circles, cfg[c] # None
               PROVE  seen[c] = cfg[c]
    BY DEF Seen
  <2>1. cfg[c] = [n \in Names |-> cfg[c][n]]
    BY DEF Configs
  <2>2. \A s \in SharesSeen(cfg, c) : s = cfg[c]
    BY <2>1 DEF SharesSeen
  <2> QED BY <2>2 DEF Seen
<1>2. seen = [c \in Circles |-> seen[c]]
  BY DEF Seen
<1> QED BY <1>1, <1>2 DEF Configs

\* When all shares of a configuration resolve, all are served.
LEMMA AllAreServed ==
  ASSUME NEW config, \A c \in Listed(config) : Resolves(config, c), served' \in ReloadedShares(config)
  PROVE  \A c \in Listed(config) : served'[c] = config[c]
<1> DEFINE good == {c \in Listed(config) : Resolves(config, c)}
<1>1. good = Listed(config)
  OBVIOUS
<1>2. served' = [c \in Circles |-> IF c \in good THEN config[c] ELSE served[c]]
  BY <1>1 DEF ReloadedShares
<1> HIDE DEF good
<1> QED BY <1>1, <1>2 DEF Listed

\* A registration writes its files, and gets no further.
LEMMA OwnFiles ==
  ASSUME WizardInv, UNCHANGED page, NEW p \in Pages, Shown(p), Alone(p),
         NEW h \in reqs, h.req.page = p,
         RegisterRpc(h) \/ WriteKey(h) \/ WriteCrt(h) \/ WriteCa(h)
  PROVE  Progress(p)'
<1>1. h.req.what = "register" /\ Registers(h)
  BY DEF RegisterRpc, WriteKey, WriteCrt, WriteCa, At, Registers
<1>2. h.req.circle = page[p].circle
  BY <1>1 DEF WizardInv, SharingInv, ProgressInv, Progress, RequestInv
<1>3. ASSUME NEW at \in {"key", "crt", "ca", "add"}, Goto(h, at), answers' = answers
      PROVE  Progress(p)'
  <2>1. ASSUME NEW n, n.req = h.req, n.at = at
        PROVE  RequestInv(p, n)'
    BY <1>1, <1>2, <2>1 DEF RequestInv, Registers
  <2> QED BY <1>3, <2>1, OwnGoto
<1>4. ASSUME NEW why, Fail(h, why)
      PROVE  Progress(p)'
  BY <1>1, <1>4, OwnFail
<1> QED BY <1>3, <1>4 DEF RegisterRpc, WriteKey, WriteCrt, WriteCa

\* The circle is stored.
LEMMA OwnCircle ==
  ASSUME WizardInv, UNCHANGED page, NEW p \in Pages, Shown(p), Alone(p),
         NEW h \in reqs, h.req.page = p, AddCircleAndStore(h)
  PROVE  Progress(p)'
<1> DEFINE c == h.req.circle
           new == WithCircle(c)
<1>1. h.req.what = "register" /\ Registers(h)
  BY DEF AddCircleAndStore, At, Registers
<1>2. c = page[p].circle /\ c \in Circles
  BY <1>1 DEF WizardInv, SharingInv, ProgressInv, Progress, RequestInv,
              Inv, HandlersShape, HandlerShape
<1>3. NoDefaultMountpoint(h) \/ writeNewConfig(h, new, IF cfg[c] = None THEN cfg ELSE new, "reload")
  BY DEF AddCircleAndStore
<1>4. NoShares # None
  BY NoneIsNoShares DEF NoShares
<1>5. c \in Listed(new)
  <2>1. new[c] = NoShares
    BY <1>2, WithCircleIs DEF WizardInv, Inv
  <2> QED BY <1>2, <1>4, <2>1 DEF Listed
<1> HIDE DEF new
<1>6. CASE cfg' = new /\ disk' = new /\ Goto(h, "reload") /\ answers' = answers
  <2>1. InConfig(p)'
    BY <1>2, <1>5, <1>6 DEF InConfig, Listed
  <2>2. ASSUME NEW n, n.req = h.req, n.at = "reload"
        PROVE  RequestInv(p, n)'
    BY <1>1, <1>2, <2>1, <2>2 DEF RequestInv, Registers
  <2> QED BY <1>6, <2>2, OwnGoto
<1>7. ASSUME NEW why, Fail(h, why)
      PROVE  Progress(p)'
  BY <1>1, <1>7, OwnFail
<1> QED BY <1>3, <1>6, <1>7 DEF writeNewConfig, NoDefaultMountpoint

\* A row is stored, and with it all those before.
LEMMA OwnShare ==
  ASSUME WizardInv, UNCHANGED page, NEW p \in Pages, Shown(p), Alone(p),
         NEW h \in reqs, h.req.page = p, AddShareAndStore(h)
  PROVE  Progress(p)'
<1> DEFINE c == h.req.circle
           rows == page[p].shares
           k == h.req.row
           new == WithShare(h.req)
<1>1. up /\ h.req.what = "addShare" /\ ~Registers(h) /\ h.at = "start"
  BY DEF AddShareAndStore, At, Registers
<1>2. /\ c = page[p].circle /\ k \in RowsToShare(p)
      /\ h.req.share = rows[k].share /\ h.req.local = rows[k].localPath
      /\ Sound(p) /\ Saved(p, k - 1)
  BY <1>1 DEF WizardInv, SharingInv, ProgressInv, Progress, RequestInv
<1>3. h.req.share \in Names /\ h.req.local \in Locals /\ k \in Nat
  BY <1>1 DEF WizardInv, SharingInv, NamesOK
<1>4. c \in Circles /\ cfg = disk /\ cfg[c] \in [Names -> Locals \union {None}]
  BY <1>1, <1>2 DEF Sound, Listed, WizardInv, SharingInv, ConfigsOK, Configs
<1>5. /\ new[c] = [cfg[c] EXCEPT ![h.req.share] = h.req.local]
      /\ new[c] # None
  <2> DEFINE with == [cfg[c] EXCEPT ![h.req.share] = h.req.local]
  <2>1. with \in [Names -> Locals \union {None}]
    BY <1>3, <1>4
  <2>2. new[c] = with
    BY <1>4 DEF WizardInv, SharingInv, ConfigsOK, Configs, WithShare
  <2> HIDE DEF with, new
  <2>3. new[c] # None
    BY <2>1, <2>2, NoneIsNoShares
  <2> QED BY <2>2, <2>3 DEF with
<1>6. \/ NoDefaultMountpoint(h)
      \/ writeNewConfig(h, new, new, "reload")
      \/ Fail(h, "unknown circle")
  BY DEF AddShareAndStore
<1> HIDE DEF new
<1>7. CASE cfg' = new /\ disk' = new /\ Goto(h, "reload") /\ answers' = answers
  <2>1. InConfig(p)'
    BY <1>2, <1>4, <1>5, <1>7 DEF InConfig, Listed
  <2>2. RowsToShare(p)' = RowsToShare(p) /\ (DistinctNames(p)' <=> DistinctNames(p))
    BY DEF RowsToShare, DistinctNames
  <2>3. ASSUME DistinctNames(p), NEW i \in RowsToShare(p), i <= k
        PROVE  new[c][rows[i].share] = rows[i].localPath
    <3>1. CASE i = k
      BY <1>2, <1>3, <1>4, <1>5, <3>1
    <3>2. CASE i # k
      <4>1. rows[i].share # rows[k].share
        BY <1>2, <2>3, <3>2 DEF DistinctNames
      <4>2. i \in Nat /\ i <= k - 1
        <5>1. i \in Nat
          BY DEF RowsToShare, WizardInv, SharingInv, RowsOK, RowsOf
        <5> QED BY <1>3, <2>3, <3>2, <5>1
      <4>3. disk[c][rows[i].share] = rows[i].localPath
        BY <1>2, <2>3, <4>2 DEF Saved
      <4> DEFINE name == rows[i].share
                 old == cfg[c]
      <4>4. name # h.req.share /\ old[name] = rows[i].localPath
        BY <1>2, <1>4, <4>1, <4>3
      <4>5. old = [n \in Names |-> old[n]]
        BY <1>4
      <4>6. name \in Names
        <5>1. rows[i] \in Rows /\ canSaveShares(p)
          <6>1. OnStage(p, 3)
            <7>1. Fits(p, "addShare")
              BY <1>1 DEF WizardInv, FlightInv, EverythingFits
            <7> QED BY <7>1 DEF Fits, Shown
          <6> QED BY <6>1 DEF RowsToShare, WizardInv, SharingInv, RowsOK, RowsOf
        <5>2. rows[i].share # None
          BY <5>1 DEF RowsToShare, canSaveShares, WizardInv, SharingInv, RowsOK, RowsOf
        <5> QED BY <5>1, <5>2 DEF Rows
      <4>7. new[c] = [old EXCEPT ![h.req.share] = h.req.local]
        BY <1>5
      <4> HIDE DEF name, old
      <4>8. new[c][name] = old[name]
        BY <4>4, <4>5, <4>6, <4>7
      <4> QED BY <4>4, <4>8 DEF name
    <3> QED BY <3>1, <3>2
  <2>4. Saved(p, k)'
    BY <1>2, <1>7, <2>2, <2>3 DEF Saved
  <2>5. ASSUME NEW n, n.req = h.req, n.at = "reload"
        PROVE  RequestInv(p, n)'
    BY <1>1, <1>2, <2>1, <2>2, <2>4, <2>5 DEF RequestInv, Registers
  <2> QED BY <1>7, <2>5, OwnGoto
<1>8. ASSUME NEW why, Fail(h, why)
      PROVE  Progress(p)'
  BY <1>1, <1>8, OwnFail
<1> QED BY <1>6, <1>7, <1>8 DEF writeNewConfig, NoDefaultMountpoint

\* The shares are given to be served ...
LEMMA OwnRead ==
  ASSUME WizardInv, UNCHANGED page, NEW p \in Pages, Shown(p), Alone(p),
         NEW h \in reqs, h.req.page = p, ReloadRead(h)
  PROVE  Progress(p)'
<1>1. h.at = "reload" /\ UNCHANGED <<up, cfg, disk, served, answers>>
  BY DEF ReloadRead
<1>2. PICK n : /\ n.req = h.req /\ n.at = "publish" /\ n.snap = cfg
               /\ reqs' = (reqs \ {h}) \union {n}
  BY DEF ReloadRead
<1>3. RequestInv(p, h)
  BY DEF WizardInv, SharingInv, ProgressInv, Progress
<1>4. RequestInv(p, n)
  BY <1>1, <1>2, <1>3 DEF RequestInv, Registers, InConfig
<1>5. RequestInv(p, n)'
  BY <1>1, <1>4, SameClaims
<1> QED BY <1>1, <1>2, <1>5, OwnStep

\* ... and are served if all of them resolve.
LEMMA OwnPublish ==
  ASSUME WizardInv, UNCHANGED page, NEW p \in Pages, Shown(p), Alone(p),
         NEW h \in reqs, h.req.page = p, ReloadPublish(h)
  PROVE  Progress(p)'
<1>1. h.at = "publish" /\ disk' = disk
  BY DEF ReloadPublish
<1>2. RequestInv(p, h)
  BY DEF WizardInv, SharingInv, ProgressInv, Progress
<1>3. PICK seen \in Seen(h.snap) :
        LET fine == \A c \in Listed(seen) : Resolves(seen, c) IN
        \/ /\ fine \/ h.req.what = "addShare"
           /\ served' \in ReloadedShares(seen)
           /\ \/ fine /\ h.req.what = "register" /\ Goto(h, "certs") /\ UNCHANGED answers
              \/ fine /\ h.req.what = "addShare" /\ Done(h)
              \/ ~fine /\ Fail(h, "invalid share")
           /\ UNCHANGED <<up, fatal, cfg, mounted>>
        \/ /\ ~fine /\ h.req.what = "register"
           /\ Die("shares")
           /\ UNCHANGED answers
  BY DEF ReloadPublish
<1> DEFINE fine == \A c \in Listed(seen) : Resolves(seen, c)
<1>4. CASE h.req.what = "addShare" /\ Fail(h, "invalid share")
  BY <1>4, OwnFail
<1>5. CASE Die("shares") /\ UNCHANGED answers
  BY <1>5, OwnStep DEF Die
<1>6. CASE /\ fine /\ served' \in ReloadedShares(seen) /\ UNCHANGED <<up, cfg>>
           /\ \/ h.req.what = "register" /\ Goto(h, "certs") /\ UNCHANGED answers
              \/ h.req.what = "addShare" /\ Done(h)
  <2>1. InConfig(p) /\ h.snap = cfg
    BY <1>1, <1>2, <1>6 DEF RequestInv, Registers, InConfig
  <2>2. seen = cfg /\ cfg = disk
    BY <1>3, <2>1, SeenIsGiven DEF InConfig, WizardInv, SharingInv, ConfigsOK
  <2>3. \A c \in Listed(cfg) : served'[c] = cfg[c]
    BY <1>6, <2>2, AllAreServed
  <2>4. Sound(p)'
    BY <1>1, <1>6, <2>1, <2>2, <2>3 DEF Sound, InConfig, Listed, Resolves, SharesIn
  <2>5. CASE h.req.what = "register" /\ Goto(h, "certs") /\ UNCHANGED answers
    <3>1. h.req.circle = page[p].circle
      BY <1>2, <2>5 DEF RequestInv, Registers
    <3>2. ASSUME NEW n, n.req = h.req, n.at = "certs"
          PROVE  RequestInv(p, n)'
      BY <2>4, <2>5, <3>1, <3>2 DEF RequestInv, Registers
    <3> QED BY <2>5, <3>2, OwnGoto
  <2>6. CASE h.req.what = "addShare" /\ Done(h)
    <3>1. h.req.row \in RowsToShare(p) /\ Saved(p, h.req.row)
      BY <1>1, <1>2, <2>6 DEF RequestInv
    <3>2. RowsToShare(p)' = RowsToShare(p) /\ Saved(p, h.req.row)'
      BY <1>1, <3>1 DEF RowsToShare, Saved, DistinctNames
    <3>3. ASSUME NEW a, a.to = h.req
          PROVE  AnswerInv(p, a)'
      BY <2>4, <2>6, <3>1, <3>2, <3>3 DEF AnswerInv
    <3> QED BY <2>6, <3>3, OwnDone
  <2> QED BY <1>6, <2>5, <2>6
<1> QED BY <1>3, <1>4, <1>5, <1>6

\* The certificates are loaded, and the circle is waited for.
LEMMA OwnCerts ==
  ASSUME WizardInv, UNCHANGED page, NEW p \in Pages, Shown(p), Alone(p),
         NEW h \in reqs, h.req.page = p, ReloadCerts(h) \/ WaitForCircle(h)
  PROVE  Progress(p)'
<1>1. h.req.what = "register" /\ Registers(h) /\ h.at \in {"certs", "wait"}
  BY DEF ReloadCerts, WaitForCircle, At, Registers
<1>2. h.req.circle = page[p].circle /\ Sound(p)
  BY <1>1 DEF WizardInv, SharingInv, ProgressInv, Progress, RequestInv
<1>3. CASE Die("certs") /\ answers' = answers
  BY <1>3, OwnStep DEF Die
<1>4. CASE UNCHANGED <<up, cfg, disk, served>> /\ Goto(h, "wait") /\ answers' = answers
  <2>1. Sound(p)'
    BY <1>2, <1>4, SameClaims
  <2>2. ASSUME NEW n, n.req = h.req, n.at = "wait"
        PROVE  RequestInv(p, n)'
    BY <1>1, <1>2, <2>1, <2>2 DEF RequestInv, Registers
  <2> QED BY <1>4, <2>2, OwnGoto
<1>5. CASE UNCHANGED <<up, cfg, disk, served>> /\ Done(h)
  <2>1. Sound(p)'
    BY <1>2, <1>5, SameClaims
  <2>2. ASSUME NEW a, a.to = h.req
        PROVE  AnswerInv(p, a)'
    BY <1>1, <2>1, <2>2 DEF AnswerInv
  <2> QED BY <1>5, <2>2, OwnDone
<1> QED BY <1>3, <1>4, <1>5 DEF ReloadCerts, WaitForCircle

\* The answers of the handlers that only look.
LEMMA OwnLooks ==
  ASSUME WizardInv, UNCHANGED page, NEW p \in Pages, Shown(p), Alone(p),
         NEW h \in reqs, h.req.page = p,
         SharesInCircle(h) \/ OpenExplorer(h) \/ RenderPage(h)
  PROVE  Progress(p)'
<1>1. UNCHANGED <<up, cfg, disk, served>>
  BY DEF SharesInCircle, OpenExplorer, RenderPage
<1>2. RequestInv(p, h)
  BY DEF WizardInv, SharingInv, ProgressInv, Progress
<1>3. h.req.what \in {"sharesInCircle", "openExplorer", "getVersion", "getConfig"}
  BY DEF SharesInCircle, OpenExplorer, RenderPage, At
<1>4. ASSUME NEW a, a.to = h.req
      PROVE  AnswerInv(p, a)'
  <2>1. AnswerInv(p, a)
    BY <1>2, <1>3, <1>4 DEF RequestInv, AnswerInv
  <2> QED BY <1>1, <2>1, SameClaims
<1>5. \E a : a.to = h.req /\ reqs' = reqs \ {h} /\ answers' = answers \union {a}
  <2>1. CASE SharesInCircle(h)
    <3>1. PICK list : Answer(h, [Ok(h.req) EXCEPT !.shares = list])
      BY <2>1 DEF SharesInCircle
    <3> DEFINE a == [Ok(h.req) EXCEPT !.shares = list]
    <3>2. a.to = h.req
      BY DEF Ok
    <3>3. reqs' = reqs \ {h} /\ answers' = answers \union {a}
      BY <3>1 DEF Answer
    <3> HIDE DEF a
    <3> QED BY <3>2, <3>3
  <2>2. CASE OpenExplorer(h) \/ RenderPage(h)
    <3>1. Done(h) \/ Fail(h, "no mountpoint configured")
      BY <2>2 DEF OpenExplorer, RenderPage
    <3> QED BY <3>1 DEF Done, Fail, Answer, Ok
  <2> QED BY <2>1, <2>2
<1> QED BY <1>4, <1>5, OwnStep

\* A handler, whoever's, keeps what is claimed of a page that is alone.
LEMMA HandlersKeepProgress ==
  ASSUME WizardInv, UNCHANGED page, NEW p \in Pages, Shown(p), Alone(p),
         NEW h \in reqs, HandlerStep(h)
  PROVE  Progress(p)'
<1>1. CASE h.req.page = p
  BY <1>1, OwnFiles, OwnCircle, OwnShare, OwnRead, OwnPublish, OwnCerts, OwnLooks DEF HandlerStep
<1>2. CASE h.req.page # p
  <2>1. UNCHANGED <<up, cfg, disk, served>>
    BY <1>2, WhoChanges, OthersAreHarmless
  <2>2. Progress(p)
    BY DEF WizardInv, SharingInv, ProgressInv
  <2>3. /\ \A g \in reqs' : g.req.page = p => g \in reqs
        /\ \A a \in answers' : a.to.page = p => a \in answers
    BY <1>2, HandlerMoves DEF WizardInv, Moves, AnswersBy
  <2> QED BY <2>1, <2>2, <2>3, SameClaims DEF Progress, OnStage
<1> QED BY <1>1, <1>2

\* A crash leaves what is on disk, unless a handler was writing: the page's own, of
\* which nothing is claimed then.
LEMMA CrashKeepsProgress ==
  ASSUME WizardInv, UNCHANGED page, NEW p \in Pages, Shown(p), Alone(p), Crash
  PROVE  Progress(p)'
<1>1. reqs' = {} /\ answers' = answers /\ ~up'
  BY DEF Crash, Die
<1>2. CASE disk' = disk
  <2>1. RowsToShare(p)' = RowsToShare(p) /\ (DistinctNames(p)' <=> DistinctNames(p))
    BY DEF RowsToShare, DistinctNames
  <2>2. \A k : Saved(p, k) => Saved(p, k)'
    BY <1>2, <2>1 DEF Saved
  <2>3. AllSaved(p) => AllSaved(p)'
    BY <2>2 DEF AllSaved
  <2>4. Sound(p) => Sound(p)'
    BY <1>1, <1>2 DEF Sound, Listed, Resolves, SharesIn
  <2>5. Progress(p)
    BY DEF WizardInv, SharingInv, ProgressInv
  <2>6. \A a \in answers : AnswerInv(p, a) => AnswerInv(p, a)'
    BY <2>1, <2>2, <2>3, <2>4 DEF AnswerInv
  <2> QED BY <1>1, <2>3, <2>4, <2>5, <2>6 DEF Progress, OnStage
<1>3. CASE disk' # disk
  <2>1. PICK h \in reqs : At(h, "register", "add") \/ At(h, "addShare", "start")
    BY <1>3 DEF Crash, WrittenInPart
  <2>2. (Registers(h) /\ h.at # "start") \/ h.req.what = "addShare"
    BY <2>1 DEF At, Registers
  <2>3. h.req.page = p
    BY <2>2, OthersAreHarmless
  <2> QED BY <1>1, <2>3, OwnStep
<1> QED BY <1>2, <1>3

\* A client that starts serves what is on disk, if all of it resolves.
LEMMA StartKeepsProgress ==
  ASSUME WizardInv, UNCHANGED page, NEW p \in Pages, Shown(p), Alone(p), Start
  PROVE  Progress(p)'
<1>1. cfg' = disk /\ served' \in ReloadedShares(disk) /\ UNCHANGED <<disk, reqs, answers>>
  BY DEF Start
<1>2. RowsToShare(p)' = RowsToShare(p) /\ (DistinctNames(p)' <=> DistinctNames(p))
  BY DEF RowsToShare, DistinctNames
<1>3. \A k : Saved(p, k) => Saved(p, k)'
  BY <1>1, <1>2 DEF Saved
<1>4. AllSaved(p) => AllSaved(p)'
  BY <1>3 DEF AllSaved
<1>5. Sound(p) => Sound(p)'
  <2> SUFFICES ASSUME Sound(p) PROVE Sound(p)'
    OBVIOUS
  <2>1. \A c \in Listed(disk) : served'[c] = disk[c]
    BY <1>1, AllAreServed DEF Sound
  <2> QED BY <1>1, <2>1 DEF Sound, Listed, Resolves, SharesIn
<1>6. InConfig(p) => InConfig(p)'
  BY <1>1 DEF InConfig, Listed
<1>7. Progress(p)
  BY DEF WizardInv, SharingInv, ProgressInv
<1>8. \A a \in answers : AnswerInv(p, a) => AnswerInv(p, a)'
  BY <1>2, <1>3, <1>4, <1>5 DEF AnswerInv
<1>9. \A h \in reqs : RequestInv(p, h) => RequestInv(p, h)'
  BY <1>1, <1>2, <1>3, <1>4, <1>5, <1>6 DEF RequestInv, Registers
<1> QED BY <1>1, <1>4, <1>5, <1>7, <1>8, <1>9 DEF Progress, OnStage

\* All of it.
LEMMA ApiKeepsSharing ==
  ASSUME WizardInv, UNCHANGED page, Api
  PROVE  SharingInv'
<1>1. ProgressInv'
  <2> SUFFICES ASSUME NEW p \in Pages, Shown(p)', Alone(p)'
               PROVE  Progress(p)'
    BY DEF ProgressInv
  <2>1. Shown(p)
    BY DEF Shown
  <2>2. Alone(p)
    <3>1. \A c \in Circles : wrote[c] \subseteq wrote'[c]
      BY WroteGrows DEF WizardInv
    <3> QED BY <3>1 DEF Alone
  <2> QED BY <2>1, <2>2, HandlersKeepProgress, CrashKeepsProgress, StartKeepsProgress DEF Api
<1> QED BY <1>1, ApiKeepsConfigs, ApiKeepsNames DEF SharingInv

\* In the beginning nothing is under way, and no page claims anything.
LEMMA AllInitially ==
  ASSUME Init
  PROVE  WizardInv
<1>1. /\ cfg = NoConfig /\ reqs = {} /\ answers = {} /\ disk \in Configured
      /\ wrote = [c \in Circles |-> IF disk[c] = None THEN {} ELSE {c}]
      /\ page = [p \in Pages |-> Blank("new")]
  BY DEF Init, ApiInit
<1>2. \A p \in Pages : page[p].screen = "new" /\ page[p].shares = <<>>
  BY <1>1, BlankShape, BlankHasNothing
<1>3. \A p \in Pages : \A s : ~OnStage(p, s)
  BY <1>2 DEF OnStage
<1>4. FlightInv /\ Untroubled
  BY <1>1, <1>3 DEF FlightInv, OneInFlight, EverythingFits, Untroubled
<1>5. FailureInv
  <2>1. \A p \in Pages : ~Unstored(p)
    BY <1>1, <1>3 DEF Unstored
  <2>2. \A c \in Known : c \in Circles /\ c \in wrote[c]
    BY <1>1, NoConfigIsEmpty DEF Known, Listed
  <2>4. MemoryIsStored
    BY <1>1, NoConfigIsEmpty DEF MemoryIsStored
  <2>3. OwnNames /\ ListsArrive
    BY <1>1 DEF OwnNames, ListsArrive
  <2> QED BY <2>1, <2>2, <2>3, <2>4 DEF FailureInv, KnownIsStored
<1>6. SharingInv
  <2>1. RowsOK
    <3> SUFFICES ASSUME NEW p \in Pages PROVE RowsOf(p)
      BY DEF RowsOK
    <3>1. page[p].shares = <<>> /\ ~OnStage(p, 3)
      BY <1>2, <1>3
    <3> QED BY <3>1 DEF RowsOf
  <2>2. NamesOK
    BY <1>1 DEF NamesOK
  <2>3. ConfigsOK
    BY <1>1, ConfiguredAssumption DEF ConfigsOK, NoConfig, Configs
  <2>4. ReachedHaveWritten
    BY <1>1, <1>2 DEF ReachedHaveWritten, Reached
  <2>5. ProgressInv
    BY <1>1, <1>3 DEF ProgressInv, Progress
  <2> QED BY <2>1, <2>2, <2>3, <2>4, <2>5 DEF SharingInv
<1> QED BY <1>4, <1>5, <1>6, Initially DEF WizardInv

\* Every step keeps it.
LEMMA StepsKeepAll ==
  ASSUME WizardInv, [Next]_vars
  PROVE  WizardInv'
<1>1. Inv'
  BY StepsKeepInv DEF WizardInv
<1>2. CASE UNCHANGED vars
  <2>1. UNCHANGED <<up, cfg, disk, served, wrote, page, reqs>> /\ answers' \subseteq answers
    BY <1>2 DEF vars
  <2> QED BY <1>1, <2>1, DroppingKeepsAll DEF WizardInv
<1>3. CASE Api /\ UNCHANGED page
  <2>1. FlightInv'
    BY <1>3, ApiKeepsFlight DEF WizardInv
  <2>2. Untroubled'
    BY <1>3 DEF WizardInv, Untroubled, OnStage, NoError
  <2> QED BY <1>1, <1>3, <2>1, <2>2, ApiKeepsFailure, ApiKeepsSharing DEF WizardInv
<1>4. CASE \E p \in Pages : Answered(p) \/ FetchRejects(p) \/ User(p) \/ CloseFails(p)
  BY <1>1, <1>4, PagesKeepAll DEF WizardInv
<1>5. CASE \E a \in answers : Discard(a)
  <2>1. UNCHANGED <<up, cfg, disk, served, wrote, page, reqs>> /\ answers' \subseteq answers
    BY <1>5 DEF Discard
  <2> QED BY <1>1, <2>1, DroppingKeepsAll DEF WizardInv
<1> QED BY <1>2, <1>3, <1>4, <1>5 DEF Next

\* What is under way fits what the pages show, what is listed was stored, and what a
\* page was told of its circle and its shares is so, in every state of client and
\* pages (web.go, AddCircleWizard.vue).
THEOREM WizardStaysSound == Spec => []WizardInv
<1>1. Init => WizardInv
  BY AllInitially
<1>2. WizardInv /\ [Next]_vars => WizardInv'
  BY StepsKeepAll
<1> QED BY <1>1, <1>2, PTL DEF Spec

\* "Failed to add circle" for a circle that was not there means that it is not there,
\* unless the write of config.yaml failed and left it in the file, from which a client
\* that is started again reads it: for any number of pages, circles and faults
\* (registerCircle, writeNewConfig and the catch of addCircle).
THEOREM FailedRegistrationsAddNothing == Spec => []FailedRegistrationAddsNothing
<1>1. ASSUME WizardInv PROVE FailedRegistrationAddsNothing
  <2> SUFFICES ASSUME NEW p \in Pages, OnStage(p, 1), Refused(p), Alone(p),
                      page[p].circle \notin UNION {wrote[c] : c \in Circles},
                      page[p].circle \in Known
               PROVE  page[p].error = "config" /\ page[p].circle \in Listed(disk)
    BY DEF FailedRegistrationAddsNothing, Refused, Known
  <2> DEFINE d == page[p].circle
  <2>1. d \in Circles
    BY DEF Known, Listed
  <2>2. d \notin wrote[d]
    BY <2>1
  <2>3. page[p].error = "config"
    <3>1. PICK w \in wrote[d] : w \in Pages => ~Unstored(w)
      BY <1>1 DEF WizardInv, FailureInv, KnownIsStored
    <3>2. w = p
      <4>1. w = p \/ w \in Circles
        BY <2>1, <3>1 DEF Alone
      <4>2. w \in Circles => w = d
        BY <1>1, <2>1, <3>1 DEF WizardInv, FailureInv, OwnNames
      <4> QED BY <2>2, <3>1, <4>1, <4>2
    <3> QED BY <3>1, <3>2 DEF Unstored
  <2>4. ~Busy
    <3>1. Failing(p)
      BY DEF Failing
    <3>2. \A v \in Pages : \A c \in Circles : v \in wrote[c] => v = p
      BY PagesAreNotCircles DEF Alone
    <3> QED BY <3>1, <3>2 DEF Busy
  <2>5. d \in Listed(disk)
    BY <1>1, <2>2, <2>4 DEF WizardInv, FailureInv, MemoryIsStored, Known
  <2> QED BY <2>3, <2>5
<1> QED BY <1>1, WizardStaysSound, PTL

\* "You're all done!" means that every row with a path is on disk, and served by a
\* client that runs, whatever crashes and restarts there were, for any table, as long
\* as no other page writes and no two rows have one name (saveShares, addShare,
\* shares.ReloadConfig).
THEOREM DoneStaysShared == Spec => []DoneMeansShared
<1>1. ASSUME WizardInv PROVE DoneMeansShared
  <2> SUFFICES ASSUME NEW p \in Pages, OnStage(p, 4), Alone(p), DistinctNames(p),
                      NEW i \in RowsToShare(p)
               PROVE  LET c == page[p].circle
                          row == page[p].shares[i]
                      IN  /\ disk[c] # None /\ disk[c][row.share] = row.localPath
                          /\ up => served[c] # None /\ served[c][row.share] = row.localPath
    BY DEF DoneMeansShared
  <2>1. Sound(p) /\ AllSaved(p)
    BY <1>1 DEF WizardInv, SharingInv, ProgressInv, Progress, Shown, OnStage
  <2>2. i <= Len(page[p].shares)
    BY <1>1 DEF WizardInv, SharingInv, RowsOK, RowsOf, RowsToShare
  <2> QED BY <2>1, <2>2 DEF Sound, AllSaved, Saved, Listed
<1> QED BY <1>1, WizardStaysSound, PTL
=============================================================================
