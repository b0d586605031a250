------------------------------- MODULE WebApi -------------------------------
(***************************************************************************)
(* The rufs client as its setup page sees it: the handlers of              *)
(* src/client/web/web.go and what they change - the configuration in       *)
(* memory and on disk (client/config), the certificates (client/register)  *)
(* and the shares that are served (client/shares) - with the end of the    *)
(* process by log.Fatalf or by a crash, and its next start (client.go).     *)
(*                                                                         *)
(* Handlers run concurrently.  config.mtx is held by one step; between the *)
(* steps of a handler any other may run.  The order of the circles in the  *)
(* configuration is left open, and of a YAML file that is cut off the entry *)
(* at the end is left out.                                                  *)
(***************************************************************************)
EXTENDS RufsService, FiniteSets, SequencesExt

CONSTANTS
  BadNames,       \* share names that resolveSharePath refuses (a/b, ., ..)
  Missing,        \* local paths that are not a directory
  PeerShares,     \* the shares that other peers may show
  Configured,     \* the configurations that the client may find at its first start
  MountpointFlag, \* whether the client is started with --mountpoint
  MaxFaults       \* crashes and failed writes in a behaviour

VARIABLES
  up,             \* the process runs
  fatal,          \* why log.Fatalf ended it: "no", "shares" or "certs"
  cfg,            \* config.cfg: circle -> its shares (None: not listed)
  disk,           \* what is in config.yaml
  mountpoint,     \* config.cfg has a mount point ...
  mountpointOnDisk, \* ... and config.yaml
  files,          \* circle -> the registration that its user.key and user.crt
                  \* are of, and whether there is a ca.crt
  served,         \* shares.circles: circle -> the shares that are served
  mounted,        \* a mount point is set, and so the file system is mounted
  reqs,           \* the handlers: a request, the handler's next step, and
                  \* the circles it got from config.GetCircles()
  answers,        \* answers on their way to the page
  faults,         \* the faults so far
  wrote           \* history: circle -> the registrations that came to write its files

mountpointVars == <<mountpoint, mountpointOnDisk>>

apiVars == <<up, fatal, cfg, disk, mountpointVars, files, served, mounted, reqs, answers, faults, wrote>>

-----------------------------------------------------------------------------
\* Configurations.

NoShares == [n \in Names |-> None]

NoConfig == [c \in Circles |-> None]

Configs == [Circles -> [Names -> Locals \union {None}] \union {None}]

ASSUME ConfiguredAssumption == Configured \subseteq Configs
ASSUME FlagAssumption == MountpointFlag \in BOOLEAN
ASSUME NamesAssumption == IsFiniteSet(Names) /\ PeerShares \subseteq Names
ASSUME NoneIsNoShares == None \notin [Names -> Locals \union {None}]

Listed(config) == {c \in Circles : config[c] # None}

SharesIn(config, c) == {n \in Names : config[c][n] # None}

resolveSharePath(n, local) == n \notin BadNames /\ local \notin Missing

Resolves(config, c) == \A n \in SharesIn(config, c) : resolveSharePath(n, config[c][n])

\* LoadCerts: the three files of a circle are there and belong together.
LoadCerts(c) == files[c].key # None /\ files[c].key = files[c].crt /\ files[c].ca

LoadAllCerts(config) == \A c \in Listed(config) : LoadCerts(c)

\* shares.ReloadConfig: every circle of config replaces its shares; it stops at
\* the first circle with a share that does not resolve, so that of the others any
\* may have been replaced.
ReloadedShares(config) ==
  LET good == {c \in Listed(config) : Resolves(config, c)}
  IN  {[c \in Circles |-> IF c \in done THEN config[c] ELSE served[c]] :
         done \in IF good = Listed(config) THEN {good} ELSE SUBSET good}

-----------------------------------------------------------------------------
\* Handlers.

Handler == [req : Requests, at : STRING, snap : Configs]

Handle(r) == [req |-> r, at |-> "start", snap |-> NoConfig]

Goto(h, at) == reqs' = (reqs \ {h}) \union {[h EXCEPT !.at = at]}

Answer(h, a) == reqs' = reqs \ {h} /\ answers' = answers \union {a}

Done(h) == Answer(h, Ok(h.req))

Fail(h, why) == Answer(h, [to |-> h.req, ok |-> FALSE, why |-> why, shares |-> None])

Fault == faults < MaxFaults /\ faults' = faults + 1

\* log.Fatalf, or the process is killed: the handlers end with it.
Die(why) ==
  /\ up' = FALSE /\ fatal' = why /\ reqs' = {} /\ cfg' = NoConfig /\ served' = NoConfig
  /\ mounted' = FALSE /\ mountpoint' = FALSE

\* What can be read of a file that was to hold config, and of which any part was
\* written: some circles, and of one more some shares.
CutOff(config) ==
  {[c \in Circles |-> IF c \in whole THEN config[c]
                     ELSE IF c # last THEN None
                     ELSE [n \in Names |-> IF n \in kept THEN config[c][n] ELSE None]] :
     whole \in SUBSET Listed(config), last \in Listed(config) \union {None},
     kept \in SUBSET Names}

\* The file is truncated and a part of it, or all, is written: of the mount point
\* only when everything before it was.
WrittenInPart(config) ==
  /\ disk' \in CutOff(config)
  /\ mountpointOnDisk' \in {FALSE, disk' = config}

\* currentOrDefaultConfig: there is no mount point yet, and no default for it.
NoDefaultMountpoint(h) ==
  /\ ~mountpoint /\ Fault /\ Fail(h, "mountpoint")
  /\ UNCHANGED <<cfg, disk, mountpointVars>>

\* writeNewConfig(new): the file is written, and only then does new become the
\* configuration.  But new shares its circles with the old one, so that inPlace has
\* happened to the configuration already when the write fails.
writeNewConfig(h, new, inPlace, next) ==
  \/ /\ cfg' = new /\ disk' = new /\ mountpoint' = TRUE /\ mountpointOnDisk' = TRUE
     /\ Goto(h, next)
     /\ UNCHANGED <<answers, faults>>
  \/ /\ Fault
     /\ cfg' = inPlace /\ UNCHANGED mountpoint
     /\ WrittenInPart(new) \/ UNCHANGED <<disk, mountpointOnDisk>>
     /\ Fail(h, "config")

-----------------------------------------------------------------------------
\* /api/register.

At(h, what, at) == up /\ h \in reqs /\ h.req.what = what /\ h.at = at

\* Slip: the circle is stored before it is registered.
RegisterRpcAfterAdd(h) ==
  /\ At(h, "register", "start")
  /\ cfg' = [cfg EXCEPT ![h.req.circle] = NoShares] /\ disk' = cfg'
  /\ \/ /\ Goto(h, "key")
        /\ wrote' = [wrote EXCEPT ![h.req.circle] = @ \union {h.req.page}]
        /\ UNCHANGED answers
     \/ Fail(h, "rpc") /\ UNCHANGED wrote
  /\ UNCHANGED <<up, fatal, mountpointVars, files, served, mounted, faults>>

\* register.Register: the discovery server signs our key, or it does not.
RegisterRpc(h) ==
  /\ At(h, "register", "start")
  /\ \/ /\ Goto(h, "key")
        /\ wrote' = [wrote EXCEPT ![h.req.circle] = @ \union {h.req.page}]
        /\ UNCHANGED answers
     \/ Fail(h, "rpc") /\ UNCHANGED wrote
  /\ UNCHANGED <<up, fatal, cfg, disk, mountpointVars, files, served, mounted, faults>>

WriteKey(h) ==
  LET c == h.req.circle IN
  /\ At(h, "register", "key")
  /\ \/ /\ files' = [files EXCEPT ![c].key = h.req.page]
        /\ Goto(h, "crt")
        /\ UNCHANGED <<answers, faults>>
     \/ /\ Fault /\ Fail(h, "write")
        /\ \E left \in {files[c].key, None} : files' = [files EXCEPT ![c].key = left]
  /\ UNCHANGED <<up, fatal, cfg, disk, mountpointVars, served, mounted, wrote>>

\* Slip: no return after the certificate could not be written.
WriteCrtAndGoOn(h) ==
  LET c == h.req.circle IN
  /\ At(h, "register", "crt")
  /\ Goto(h, "ca") /\ UNCHANGED answers
  /\ \/ files' = [files EXCEPT ![c].crt = h.req.page] /\ UNCHANGED faults
     \/ Fault /\ files' = [files EXCEPT ![c].key = None]
  /\ UNCHANGED <<up, fatal, cfg, disk, mountpointVars, served, mounted, wrote>>

WriteCrt(h) ==
  LET c == h.req.circle IN
  /\ At(h, "register", "crt")
  /\ \/ /\ files' = [files EXCEPT ![c].crt = h.req.page]
        /\ Goto(h, "ca")
        /\ UNCHANGED <<answers, faults>>
     \/ /\ Fault /\ Fail(h, "write")
        /\ \E left \in {files[c].crt, None, h.req.page} :
             files' = [files EXCEPT ![c].key = None, ![c].crt = left]
  /\ UNCHANGED <<up, fatal, cfg, disk, mountpointVars, served, mounted, wrote>>

WriteCa(h) ==
  LET c == h.req.circle IN
  /\ At(h, "register", "ca")
  /\ \/ /\ files' = [files EXCEPT ![c].ca = TRUE]
        /\ Goto(h, "add")
        /\ UNCHANGED <<answers, faults>>
     \/ /\ Fault /\ Fail(h, "write")
        /\ \E left \in BOOLEAN :
             files' = [files EXCEPT ![c] = [key |-> None, crt |-> None, ca |-> left]]
  /\ UNCHANGED <<up, fatal, cfg, disk, mountpointVars, served, mounted, wrote>>

WithCircle(c) == [cfg EXCEPT ![c] = NoShares]

\* A circle that is listed already loses its shares.
AddCircleAndStore(h) ==
  LET c == h.req.circle IN
  /\ At(h, "register", "add")
  /\ \/ NoDefaultMountpoint(h)
     \/ writeNewConfig(h, WithCircle(c), IF cfg[c] = None THEN cfg ELSE WithCircle(c), "reload")
  /\ UNCHANGED <<up, fatal, files, served, mounted, wrote>>

\* client.ReloadConfig: a share that does not resolve, whoever stored it, or a
\* certificate that does not load ends the client.
ReloadCerts(h) ==
  /\ At(h, "register", "certs")
  /\ \/ LoadAllCerts(cfg) /\ Goto(h, "wait") /\ UNCHANGED <<up, fatal, cfg, mountpoint, served, mounted>>
     \/ ~LoadAllCerts(cfg) /\ Die("certs")
  /\ UNCHANGED <<disk, mountpointOnDisk, files, answers, faults, wrote>>

\* connectivity.WaitForCircle returns when it is connected or after five seconds.
WaitForCircle(h) ==
  /\ At(h, "register", "wait")
  /\ Done(h)
  /\ UNCHANGED <<up, fatal, cfg, disk, mountpointVars, files, served, mounted, faults, wrote>>

-----------------------------------------------------------------------------
\* /api/add_share, and the reload of the shares that it has in common with
\* /api/register.

WithShare(r) == [cfg EXCEPT ![r.circle] = [@ EXCEPT ![r.share] = r.local]]

\* The share is stored before anybody asks whether it resolves.
AddShareAndStore(h) ==
  LET c == h.req.circle IN
  /\ At(h, "addShare", "start")
  /\ \/ NoDefaultMountpoint(h)
     \/ cfg[c] # None /\ writeNewConfig(h, WithShare(h.req), WithShare(h.req), "reload")
     \/ cfg[c] = None /\ Fail(h, "unknown circle") /\ UNCHANGED <<cfg, disk, mountpointVars, faults>>
  /\ UNCHANGED <<up, fatal, files, served, mounted, wrote>>

\* shares.ReloadConfig gets the circles under config.mtx ...
ReloadRead(h) ==
  /\ up /\ h \in reqs /\ h.at = "reload"
  /\ reqs' = (reqs \ {h}) \union {[req |-> h.req, at |-> "publish", snap |-> cfg]}
  /\ UNCHANGED <<up, fatal, cfg, disk, mountpointVars, files, served, mounted, answers, faults, wrote>>

\* The circles it was given are still those of the configuration: it may get to see
\* what other handlers store while it goes through them, a whole circle or the new
\* path of a share.
SharesSeen(snap, c) ==
  {cfg[c]} \union
  {[n \in Names |-> IF n \in moved THEN cfg[c][n] ELSE snap[c][n]] :
     moved \in SUBSET (SharesIn(snap, c) \intersect SharesIn(cfg, c))}

Seen(snap) ==
  {s \in [Circles -> {None} \union UNION {SharesSeen(snap, c) : c \in Listed(snap)}] :
     \A c \in Circles : IF snap[c] = None THEN s[c] = None ELSE s[c] \in SharesSeen(snap, c)}

\* ... and replaces the shares, without a lock, when it has resolved them.
ReloadPublish(h) ==
  /\ up /\ h \in reqs /\ h.at = "publish"
  /\ \E seen \in Seen(h.snap) :
       LET fine == \A c \in Listed(seen) : Resolves(seen, c) IN
       \/ /\ fine \/ h.req.what = "addShare"
          /\ served' \in ReloadedShares(seen)
          /\ \/ fine /\ h.req.what = "register" /\ Goto(h, "certs") /\ UNCHANGED answers
             \/ fine /\ h.req.what = "addShare" /\ Done(h)
             \/ ~fine /\ Fail(h, "invalid share")
          /\ UNCHANGED <<up, fatal, cfg, mountpoint, mounted>>
       \/ /\ ~fine /\ h.req.what = "register"
          /\ Die("shares")
          /\ UNCHANGED answers
  /\ UNCHANGED <<disk, mountpointOnDisk, files, faults, wrote>>

-----------------------------------------------------------------------------
\* The handlers that only look.

\* Every directory at the root of the virtual file system, of whatever circle:
\* ours and those of the peers that answer.
SharesInCircle(h) ==
  /\ At(h, "sharesInCircle", "start")
  /\ \E theirs \in SUBSET PeerShares :
       LET seen == theirs \union UNION {SharesIn(served, c) : c \in Listed(served)}
       IN  Answer(h, [Ok(h.req) EXCEPT !.shares = IF seen = {} THEN None ELSE SetToSeq(seen)])
  /\ UNCHANGED <<up, fatal, cfg, disk, mountpointVars, files, served, mounted, faults, wrote>>

OpenExplorer(h) ==
  /\ At(h, "openExplorer", "start")
  /\ IF mounted THEN Done(h) ELSE Fail(h, "no mountpoint configured")
  /\ UNCHANGED <<up, fatal, cfg, disk, mountpointVars, files, served, mounted, faults, wrote>>

RenderPage(h) ==
  /\ up /\ h \in reqs /\ h.req.what \in {"getVersion", "getConfig"} /\ h.at = "start"
  /\ Done(h)
  /\ UNCHANGED <<up, fatal, cfg, disk, mountpointVars, files, served, mounted, faults, wrote>>

-----------------------------------------------------------------------------
\* The process ends at any moment: also while it writes one of its files, which is
\* then cut off.
Crash ==
  /\ up /\ Fault /\ Die(fatal)
  /\ \/ UNCHANGED <<disk, mountpointOnDisk, files>>
     \/ /\ \E h \in reqs :
             \/ At(h, "register", "add") /\ WrittenInPart(WithCircle(h.req.circle))
             \/ At(h, "addShare", "start") /\ cfg[h.req.circle] # None /\ WrittenInPart(WithShare(h.req))
        /\ UNCHANGED files
     \/ /\ \E h \in reqs :
             \/ At(h, "register", "key") /\ files' = [files EXCEPT ![h.req.circle].key = None]
             \/ At(h, "register", "crt") /\ files' = [files EXCEPT ![h.req.circle].crt = None]
             \/ At(h, "register", "ca") /\ files' = [files EXCEPT ![h.req.circle].ca = FALSE]
        /\ UNCHANGED <<disk, mountpointOnDisk>>
  /\ UNCHANGED <<answers, wrote>>

\* main: an error of shares.Init is ignored, one of LoadAllCerts is fatal.  The file
\* system is mounted where the flag says, or else the file.
Start ==
  /\ ~up /\ LoadAllCerts(disk)
  /\ up' = TRUE
  /\ cfg' = disk
  /\ served' \in ReloadedShares(disk)
  /\ mounted' = (MountpointFlag \/ mountpointOnDisk) /\ mountpoint' = mountpointOnDisk
  /\ UNCHANGED <<fatal, disk, mountpointOnDisk, files, reqs, answers, faults, wrote>>

\* Nothing runs yet: the first Start finds disk and the files that belong to it.
ApiInit ==
  /\ up = FALSE /\ fatal = "no"
  /\ disk \in Configured
  /\ cfg = NoConfig /\ served = NoConfig /\ mounted = FALSE
  /\ mountpoint = FALSE /\ mountpointOnDisk \in BOOLEAN
  /\ files = [c \in Circles |->
       IF disk[c] = None THEN [key |-> None, crt |-> None, ca |-> FALSE]
                         ELSE [key |-> c, crt |-> c, ca |-> TRUE]]
  /\ reqs = {} /\ answers = {} /\ faults = 0
  /\ wrote = [c \in Circles |-> IF disk[c] = None THEN {} ELSE {c}]

HandlerStep(h) ==
  \/ RegisterRpc(h) \/ WriteKey(h) \/ WriteCrt(h) \/ WriteCa(h) \/ AddCircleAndStore(h)
  \/ ReloadRead(h) \/ ReloadPublish(h) \/ ReloadCerts(h) \/ WaitForCircle(h)
  \/ AddShareAndStore(h) \/ SharesInCircle(h) \/ OpenExplorer(h) \/ RenderPage(h)
=============================================================================
