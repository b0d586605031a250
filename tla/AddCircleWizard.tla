-------------------------- MODULE AddCircleWizard --------------------------
(***************************************************************************)
(* The setup page (src/client/web/src: App.vue and AddCircleWizard.vue)    *)
(* against the client that serves it.  A page is opened, asks for the       *)
(* client's version and configuration, and leads its user through five      *)
(* stages: the form (0), adding the circle (1), the table of shares (2),    *)
(* saving (3) and "You're all done!" (4).  The async functions of the page  *)
(* are cut at every await: what follows one is the action that takes the    *)
(* answer.  A page can be closed at any time; its requests then run on in   *)
(* the client.  A reload is a page that closes and another that opens.      *)
(***************************************************************************)
EXTENDS WebApi

CONSTANTS MaxRows   \* rows that the table of shares may have on each page

VARIABLES page      \* the state of every page

vars == <<up, fatal, cfg, disk, mountpointVars, files, served, mounted, reqs, answers, faults, wrote, page>>

\* A row of the table of shares (ShareLocalPath).
Row(share, localPath, isNewShare) == [share |-> share, localPath |-> localPath, isNewShare |-> isNewShare]

Rows == [share : Names \union {None}, localPath : Locals \union {None}, isNewShare : BOOLEAN]

\* screen: "new" (not opened yet), "loading", "failed" (App's box with the error),
\* "wizard" or "closed".  form: the circle that is typed in, and whether the other
\* three fields are.  closing: closeWindow was clicked, and it did not work.
Screens == {"new", "loading", "failed", "wizard", "closed"}

PageStates ==
  [screen : Screens, stage : 0..4, error : STRING, circle : Circles \union {None},
   filled : BOOLEAN, shares : Seq(Rows), closing : {"no", "asked", "failed"}]

Blank(screen) ==
  [screen |-> screen, stage |-> 0, error |-> "", circle |-> None, filled |-> FALSE,
   shares |-> <<>>, closing |-> "no"]

Init == ApiInit /\ page = [p \in Pages |-> Blank("new")]

-----------------------------------------------------------------------------
\* What the page shows.

OnStage(p, s) == page[p].screen = "wizard" /\ page[p].stage = s

\* App shows "Loading..." until it has the configuration; the wizard turns a wheel
\* on stages 1 and 3 until there is an error to show instead.
Waiting(p) ==
  \/ page[p].screen = "loading"
  \/ (OnStage(p, 1) \/ OnStage(p, 3)) /\ page[p].error = ""

Show(p, state) == page' = [page EXCEPT ![p] = state]

\* fetch: a client that is not there gets no request.
Send(r) == reqs' = IF up THEN reqs \union {Handle(r)} ELSE reqs

\* The await of p ends with answer a.
Receive(p, a) == Waiting(p) /\ a \in answers /\ a.to.page = p /\ answers' = answers \ {a}

-----------------------------------------------------------------------------
\* App.

\* mounted(), up to its first await.  The page itself comes from the client.
Open(p) ==
  /\ page[p].screen = "new" /\ up
  /\ Show(p, Blank("loading"))
  /\ Send(getVersion(p))
  /\ UNCHANGED <<up, fatal, cfg, disk, mountpointVars, files, served, mounted, answers, faults, wrote>>

\* beforeMount(): the form starts with what the URL has.
Form(c, f) == [[Blank("wizard") EXCEPT !.circle = c] EXCEPT !.filled = f]

Prefilled == {Form(c, f) : c \in Circles \union {None}, f \in BOOLEAN}

\* mounted(), from an await on.  addingCircle is set whatever the configuration is.
Load(p, a) ==
  /\ page[p].screen = "loading" /\ Receive(p, a)
  /\ \/ a.to.what = "getVersion" /\ Send(getConfig(p)) /\ UNCHANGED page
     \/ a.to.what = "getConfig" /\ (\E form \in Prefilled : Show(p, form)) /\ UNCHANGED reqs
  /\ UNCHANGED <<up, fatal, cfg, disk, mountpointVars, files, served, mounted, faults, wrote>>

\* Slip: the wizard has no catch, and the error of a fetch is lost.
FetchRejectsUnhandled(p) ==
  /\ page[p].screen = "loading"
  /\ \A h \in reqs : h.req.page # p
  /\ \A a \in answers : a.to.page # p
  /\ Show(p, [Blank("failed") EXCEPT !.error = "unreachable"])
  /\ UNCHANGED apiVars

\* A fetch rejects when the client is gone and with it the request: App and the
\* wizard show the error.
FetchRejects(p) ==
  /\ Waiting(p)
  /\ \A h \in reqs : h.req.page # p
  /\ \A a \in answers : a.to.page # p
  /\ Show(p, IF page[p].screen = "loading" THEN [Blank("failed") EXCEPT !.error = "unreachable"]
                                           ELSE [page[p] EXCEPT !.error = "unreachable"])
  /\ UNCHANGED apiVars

\* The user closes the page, follows a link away from it, or reloads it.
Close(p) ==
  /\ page[p].screen \notin {"new", "closed"}
  /\ Show(p, Blank("closed"))
  /\ UNCHANGED apiVars

\* Nobody waits for an answer to a page that is closed.
Discard(a) ==
  /\ a \in answers /\ page[a.to.page].screen = "closed"
  /\ answers' = answers \ {a}
  /\ UNCHANGED <<up, fatal, cfg, disk, mountpointVars, files, served, mounted, reqs, faults, wrote, page>>

-----------------------------------------------------------------------------
\* Stages 0 and 1: the form, and adding the circle.

Type(p) ==
  /\ OnStage(p, 0)
  /\ \/ \E c \in Circles \union {None} : Show(p, [page[p] EXCEPT !.circle = c])
     \/ \E f \in BOOLEAN : Show(p, [page[p] EXCEPT !.filled = f])
  /\ UNCHANGED apiVars

canAddCircle(p) == page[p].circle # None /\ page[p].filled

\* "Connect to circle" can be clicked.
ConnectButton(p) == OnStage(p, 0) /\ canAddCircle(p)

\* addCircle(), up to its first await.
addCircle(p) ==
  /\ ConnectButton(p)
  /\ Show(p, [page[p] EXCEPT !.stage = 1])
  /\ Send(register(p, page[p].circle))
  /\ UNCHANGED <<up, fatal, cfg, disk, mountpointVars, files, served, mounted, answers, faults, wrote>>

\* The catch of addCircle() and of saveShares(): the error stays, with no way back.
Caught(p, a) ==
  /\ Throws(a)
  /\ Show(p, [page[p] EXCEPT !.error = rqToError(a)])
  /\ UNCHANGED reqs

\* addCircle(), from an await on.
CircleAdded(p, a) ==
  /\ OnStage(p, 1) /\ Receive(p, a)
  /\ \/ Caught(p, a)
     \/ /\ ~Throws(a) /\ a.to.what = "register"
        /\ Send(sharesInCircle(p, page[p].circle))
        /\ UNCHANGED page
     \/ /\ ~Throws(a) /\ a.to.what = "sharesInCircle"
        /\ LET shares == [i \in DOMAIN SharesOf(a) |-> Row(SharesOf(a)[i], None, FALSE)]
           IN  Show(p, [[page[p] EXCEPT !.shares = shares] EXCEPT !.stage = 2])
        /\ UNCHANGED reqs
  /\ UNCHANGED <<up, fatal, cfg, disk, mountpointVars, files, served, mounted, faults, wrote>>

-----------------------------------------------------------------------------
\* Stages 2 and 3: the table of shares, and saving it.

\* "Add a share" can always be clicked; MaxRows bounds how often the user does.
AddButton(p) == OnStage(p, 2) /\ Len(page[p].shares) < MaxRows[p]

addNewShare(p) ==
  /\ AddButton(p)
  /\ Show(p, [page[p] EXCEPT !.shares = Append(@, Row(None, None, TRUE))])
  /\ UNCHANGED apiVars

\* The user fills in a row; only that of a new share has a name to type, and only
\* such a row can be taken out again.  A name that isValidShareName refuses turns
\* red, no more.
EditShare(p) ==
  /\ OnStage(p, 2)
  /\ \E i \in DOMAIN page[p].shares :
       LET row == page[p].shares[i] IN
       \/ \E l \in Locals \union {None} :
            Show(p, [page[p] EXCEPT !.shares[i].localPath = l])
       \/ \E n \in Names \union {None} :
            row.isNewShare /\ Show(p, [page[p] EXCEPT !.shares[i].share = n])
       \/ row.isNewShare /\ Show(p, [page[p] EXCEPT !.shares = RemoveAt(@, i)])
  /\ UNCHANGED apiVars

canSaveShares(p) ==
  \A i \in DOMAIN page[p].shares :
    LET row == page[p].shares[i]
    IN  row.isNewShare => row.share # None /\ row.localPath # None

\* "Save and continue" can be clicked.
SaveButton(p) == OnStage(p, 2) /\ canSaveShares(p)

\* What the loop of saveShares() asks for next, after the first i rows.
NextCall(p, i) ==
  LET rows == page[p].shares
      left == {j \in i + 1 .. Len(rows) : rows[j].localPath # None}
  IN  IF left = {} THEN openExplorer(p)
      ELSE LET j == CHOOSE j \in left : \A k \in left : j <= k
           IN  addShare(p, page[p].circle, rows[j].share, rows[j].localPath, j)

\* Slip: no await in the loop (shares.forEach(async ...), say): saveShares()
\* would ask for everything at once and be done when the explorer is open.
saveSharesAtOnce(p) ==
  /\ SaveButton(p)
  /\ Show(p, [page[p] EXCEPT !.stage = 3])
  /\ reqs' = IF up THEN reqs \union {Handle(NextCall(p, i)) : i \in 0..Len(page[p].shares)} ELSE reqs
  /\ UNCHANGED <<up, fatal, cfg, disk, mountpointVars, files, served, mounted, answers, faults, wrote>>

\* saveShares(), up to its first await.
saveShares(p) ==
  /\ SaveButton(p)
  /\ Show(p, [page[p] EXCEPT !.stage = 3])
  /\ Send(NextCall(p, 0))
  /\ UNCHANGED <<up, fatal, cfg, disk, mountpointVars, files, served, mounted, answers, faults, wrote>>

\* saveShares(), from an await on.  What openExplorer returns is ignored.
ShareSaved(p, a) ==
  /\ OnStage(p, 3) /\ Receive(p, a)
  /\ \/ Caught(p, a)
     \/ ~Throws(a) /\ a.to.what = "addShare" /\ Send(NextCall(p, a.to.row)) /\ UNCHANGED page
     \/ ~Throws(a) /\ a.to.what = "openExplorer" /\ Show(p, [page[p] EXCEPT !.stage = 4]) /\ UNCHANGED reqs
  /\ UNCHANGED <<up, fatal, cfg, disk, mountpointVars, files, served, mounted, faults, wrote>>

-----------------------------------------------------------------------------
\* Stage 4: the button that closes the window, and tries again for two seconds.

\* "Close" is there until it has failed.
CloseButton(p) == OnStage(p, 4) /\ page[p].closing # "failed"

closeWindow(p) ==
  /\ CloseButton(p)
  /\ Show(p, [page[p] EXCEPT !.closing = "asked"])
  /\ UNCHANGED apiVars

CloseFails(p) ==
  /\ OnStage(p, 4) /\ page[p].closing = "asked"
  /\ Show(p, [page[p] EXCEPT !.closing = "failed"])
  /\ UNCHANGED apiVars

-----------------------------------------------------------------------------
Api ==
  \/ \E h \in reqs : HandlerStep(h)
  \/ Crash
  \/ Start

Answered(p) == \E a \in answers : Load(p, a) \/ CircleAdded(p, a) \/ ShareSaved(p, a)

User(p) ==
  \/ Open(p) \/ Close(p) \/ Type(p) \/ addCircle(p) \/ addNewShare(p) \/ EditShare(p)
  \/ saveShares(p) \/ closeWindow(p)

Next ==
  \/ Api /\ UNCHANGED page
  \/ \E p \in Pages : Answered(p) \/ FetchRejects(p) \/ User(p) \/ CloseFails(p)
  \/ \E a \in answers : Discard(a)

\* The client's handlers get on, answers arrive, fetches of a dead client reject
\* and timers fire.  Nothing is assumed of the user, who may never click, nor of
\* crashes and starts.
Fairness ==
  /\ WF_vars((\E h \in reqs : HandlerStep(h)) /\ UNCHANGED page)
  /\ \A p \in Pages :
       WF_vars(Answered(p)) /\ WF_vars(FetchRejects(p)) /\ WF_vars(CloseFails(p))

Spec == Init /\ [][Next]_vars /\ Fairness

-----------------------------------------------------------------------------
(***************************************************************************)
(* Properties.                                                             *)
(***************************************************************************)

\* The types of all variables of client and pages.
TypeOK ==
  /\ up \in BOOLEAN /\ mounted \in BOOLEAN /\ mountpoint \in BOOLEAN /\ mountpointOnDisk \in BOOLEAN
  /\ fatal \in {"no", "shares", "certs"}
  /\ cfg \in Configs /\ disk \in Configs /\ served \in Configs
  /\ files \in [Circles -> [key : Pages \union Circles \union {None},
                            crt : Pages \union Circles \union {None}, ca : BOOLEAN]]
  /\ reqs \subseteq Handler
  /\ answers \subseteq Answers
  /\ faults \in 0..MaxFaults
  /\ wrote \in [Circles -> SUBSET (Pages \union Circles)]
  /\ page \in [Pages -> PageStates]

\* No other page has got so far as to change what the client has.
Alone(p) == \A c \in Circles : wrote[c] \subseteq {p} \union Circles

RowsToShare(p) == {i \in DOMAIN page[p].shares : page[p].shares[i].localPath # None}

DistinctNames(p) ==
  \A i, j \in RowsToShare(p) : page[p].shares[i].share = page[p].shares[j].share => i = j

\* When the page says "You're all done!", every row of its table with a path is in
\* config.yaml and served by the client that runs, whatever crashes and restarts
\* happened since the page was opened.  Another page that registers or saves at the
\* same time, and two rows with one name, are the ways to lose a share
\* (saveShares, AddShareAndStore, shares.ReloadConfig).
DoneMeansShared ==
  \A p \in Pages : OnStage(p, 4) /\ Alone(p) /\ DistinctNames(p) =>
    \A i \in RowsToShare(p) :
      LET c == page[p].circle
          row == page[p].shares[i]
      IN  /\ disk[c] # None /\ disk[c][row.share] = row.localPath
          /\ up => served[c] # None /\ served[c][row.share] = row.localPath

\* A circle that was registered once has a key and certificates that belong together
\* from the moment it is in the configuration, on disk or in memory: no crash, no
\* failed write and no order of the handlers makes LoadAllCerts end the client, now
\* or at its next start.  Registering a circle again may (register.Register).
CertsBelongTogether ==
  /\ \A c \in Listed(disk) \union Listed(cfg) : Cardinality(wrote[c]) = 1 => LoadCerts(c)
  /\ fatal = "certs" => \E c \in Circles : Cardinality(wrote[c]) > 1

\* "Failed to add circle" for a circle that was not there means that it is not
\* there, but for one way: the write of config.yaml failed and left it in the file
\* nevertheless.  Even then the client does not take it into its memory before it is
\* started again (registerCircle, writeNewConfig and the catch of addCircle).
FailedRegistrationAddsNothing ==
  \A p \in Pages :
    /\ OnStage(p, 1) /\ page[p].error \notin {"", "unreachable"}
    /\ page[p].circle \notin UNION {wrote[c] : c \in Circles} /\ Alone(p)
    => /\ page[p].circle \in Listed(disk) => page[p].error = "config"
       /\ page[p].circle \in Listed(cfg) => page[p].circle \in Listed(disk)

\* No page turns its wheel for ever: every wait of App and of the wizard ends in
\* its next stage or in an error, also when the client dies and stays dead.
WaitsEnd == \A p \in Pages : Waiting(p) ~> ~Waiting(p)

\* "All files you share, and files shared with you, should now be visible in your
\* rufs directory", says stage 4: then there is one.
DoneMeansVisible == \A p \in Pages : OnStage(p, 4) /\ up => mounted

=============================================================================
