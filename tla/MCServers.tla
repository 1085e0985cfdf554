------------------------------- MODULE MCServers -------------------------------
(***************************************************************************)
(* Who outlives whom: the shared mount, the guardian, the private mount    *)
(* and the threads of a server, each on an instance of its own.  The four  *)
(* share no state, so one of them runs while the others have already       *)
(* ended.                                                                  *)
(***************************************************************************)
EXTENDS MCShareMount, Guardian, PrivateServer, MCBlockServer

VARIABLE running  \* the one of the four that runs

ShareEnded ==
  /\ pc = [l \in Launch |-> "private"] /\ app = [l \in Launch |-> "none"]
  /\ tries = [l \in Launch |-> 0] /\ ino = [l \in Launch |-> 0]
  /\ recFds = [l \in Launch |-> {}] /\ leaseFds = [l \in Launch |-> {}]
  /\ leaseOn = [l \in Launch |-> Nobody] /\ at = [l \in Launch |-> Nobody]
  /\ recAt = 0 /\ made = 0 /\ names = [i \in Ino |-> Nobody] /\ leaseAt = Nobody
  /\ srv = [l \in Launch |-> "none"] /\ mode = [l \in Launch |-> "host"]
  /\ hostMount = Nobody /\ nsMounts = {} /\ sweep = 0 /\ lost = {} /\ unwritten = {}
  /\ faults = 0

GuardianEnded ==
  /\ inv = "ended" /\ end = "exit" /\ grd = "done" /\ report = "exit"
  /\ aimed = FALSE /\ group = FALSE
  /\ fore = "reaped" /\ status = "exit" /\ recycled = TRUE
  /\ alive = {} /\ orphan = {} /\ zombie = {}
  /\ pending = [p \in Process |-> {}] /\ sentTo = [t \in Signal |-> {}]
  /\ got = [t \in Signal |-> 0] /\ stray = {} /\ deaths = 0

PrivateEnded ==
  /\ caller = "elsewhere" /\ claim = "none" /\ door = "none"
  /\ mnt = FALSE /\ conn = "none" /\ server = "none"
  /\ adopts = FALSE /\ bell = FALSE /\ told = "nothing"
  /\ inbox = FALSE /\ letter = FALSE /\ acked = FALSE
  /\ main = "none" /\ bg = [b \in Background |-> "none"]
  /\ kin = [b \in Background |-> "init"] /\ reader = {} /\ troubles = 0

BlocksEnded ==
  /\ loop = "gone" /\ needed = {} /\ left = {}
  /\ data = {} /\ order = {} /\ accessed = FALSE /\ prefetch = FALSE
  /\ next = 1 /\ wk = [w \in Worker |-> "done"] /\ on = [w \in Worker |-> 0]
  /\ ready = {} /\ bytes = 0 /\ taken = {} /\ stop = FALSE

ServersInit ==
  /\ running \in {"share", "guardian", "private", "blocks"}
  /\ IF running = "share" THEN Init ELSE ShareEnded
  /\ IF running = "guardian" THEN GInit ELSE GuardianEnded
  /\ IF running = "private" THEN PSInit ELSE PrivateEnded
  /\ IF running = "blocks" THEN BSInit ELSE BlocksEnded

\* Bound: no signal is sent where the application has left two daemons behind.
OneDaemonIfSent ==
  Cardinality(alive' \cup zombie') > 1 => \A t \in Signal : sentTo'[t] = {}

ServersNext ==
  \/ /\ running = "share" /\ Next
     /\ UNCHANGED <<running, guardianVars, privateVars, blockVars>>
  \/ /\ running = "guardian" /\ GNext /\ OneDaemonIfSent
     /\ UNCHANGED <<running, vars, privateVars, blockVars>>
  \/ /\ running = "private" /\ PSNext
     /\ UNCHANGED <<running, vars, guardianVars, blockVars>>
  \/ /\ running = "blocks" /\ BSNext
     /\ UNCHANGED <<running, vars, guardianVars, privateVars>>

ServersSpec ==
  /\ ServersInit
  /\ [][ServersNext]_<<running, vars, guardianVars, privateVars, blockVars>>
  /\ Fairness /\ GFairness /\ PSFairness /\ BSFairness
=============================================================================
