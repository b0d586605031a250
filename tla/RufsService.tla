---------------------------- MODULE RufsService ----------------------------
(***************************************************************************)
(* The calls the setup page makes to the rufs client that runs on the same *)
(* machine (src/client/web/src/rufs-service.ts): what each one sends, and   *)
(* what its caller gets to see of the answer.  The setup page composes it   *)
(* with the client that answers (WebApi.tla) in AddCircleWizard.tla.        *)
(***************************************************************************)
EXTENDS Naturals, Sequences

CONSTANTS
  Pages,      \* the times the setup page is opened: tabs, and reloads of one
  Circles,    \* names of circles (host names of discovery servers)
  Names,      \* names of shares
  Locals,     \* paths of local directories
  None        \* an empty string, a null, a file that is not there

ASSUME NoneIsNothing == None \notin Pages \union Circles \union Names \union Locals
ASSUME PagesAreNotCircles == Pages \cap Circles = {}

\* A request: who asks for what.  row is the row of the table of shares that an
\* addShare is about; it tells two otherwise equal calls of a page apart.
Ask(p, what, circle, share, local, row) ==
  [page |-> p, what |-> what, circle |-> circle, share |-> share, local |-> local, row |-> row]

getVersion(p) == Ask(p, "getVersion", None, None, None, 0)

getConfig(p) == Ask(p, "getConfig", None, None, None, 0)

register(p, circle) == Ask(p, "register", circle, None, None, 0)

sharesInCircle(p, circle) == Ask(p, "sharesInCircle", circle, None, None, 0)

addShare(p, circle, share, local, row) == Ask(p, "addShare", circle, share, local, row)

openExplorer(p) == Ask(p, "openExplorer", None, None, None, 0)

Calls == {"getVersion", "getConfig", "register", "sharesInCircle", "addShare", "openExplorer"}

Requests ==
  [page : Pages, what : Calls, circle : Circles \union {None}, share : Names \union {None},
   local : Locals \union {None}, row : Nat]

\* An answer: the HTTP status, the reason an error gives, and the shares that
\* sharesInCircle lists, where null stands for none at all.
Answers == [to : Requests, ok : BOOLEAN, why : STRING, shares : Seq(Names) \union {None}]

Ok(r) == [to |-> r, ok |-> TRUE, why |-> "", shares |-> None]

\* The text of an error that is not ok: the error its JSON body has, or else
\* the status text.
rqToError(a) == IF a.why # "" THEN a.why ELSE "status"

\* Every call throws on a bad status, but openExplorer returns it.
Throws(a) == ~a.ok /\ a.to.what # "openExplorer"

\* What sharesInCircle returns: a null list is an empty one.
SharesOf(a) == IF a.shares = None THEN <<>> ELSE a.shares
=============================================================================
