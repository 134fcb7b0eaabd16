---------------------------- MODULE RunnerServices ----------------------------
(***************************************************************************)
(* The services that the runners share and that keep a runner from going   *)
(* on with its line: the ISP checker (ispcheck.go), which asks a service   *)
(* on the network and remembers the answers in a file, all behind one      *)
(* lock; and the channel of errors with the reporter behind it             *)
(* (discord.go).                                                           *)
(***************************************************************************)
EXTENDS Naturals

CONSTANTS
  Runners,
  Addrs,
  Nobody,        \* no runner, no address
  MaxCalls,      \* bound: how many lines the runners handle
  MaxBoots,      \* bound: how often the backend is started
  PostCap,       \* the capacity of discordPostErrors (128 in the code)
  Readable,      \* whether the backend may read what it wrote: the default of filePerms is
                 \* 644 in decimal, which lets the owner write and not read
  SaveFaults     \* whether a save may fail

ASSUME RunnerServicesAssumption ==
  /\ Nobody \notin Runners \union Addrs
  /\ {MaxCalls, MaxBoots} \subseteq Nat /\ PostCap \in Nat \ {0}
  /\ Readable \in BOOLEAN /\ SaveFaults \in BOOLEAN

VARIABLES
  at,         \* where a runner is
  addr,       \* the address it looks up
  ispLock,    \* the holder of the lock of the ISP checker, or Nobody
  cache,      \* its cache
  cacheFile,  \* ISPcache.json on the disk
  asked,      \* how often the service gave an answer for an address
  tears,      \* how often a save failed or was cut short
  posts,      \* how many errors are in the channel
  aggregate,  \* whether the reporter has some to send
  sending,    \* whether it waits for the webhook
  calls, boots

lineVars     == <<at, addr>>
ispVars      == <<ispLock, cache, cacheFile, asked, tears>>
reporterVars == <<posts, aggregate, sending>>
vars == <<lineVars, ispVars, reporterVars, calls, boots>>

Verdicts == {"none", "fine", "refused"}
Empty    == [a \in Addrs |-> "none"]
Torn     == [a \in Addrs |-> "torn"]

Init ==
  /\ at = [r \in Runners |-> "idle"] /\ addr = [r \in Runners |-> Nobody]
  /\ ispLock = Nobody /\ cache = Empty /\ cacheFile = Empty
  /\ asked = [a \in Addrs |-> 0] /\ tears = 0
  /\ posts = 0 /\ aggregate = FALSE /\ sending = FALSE
  /\ calls = 0 /\ boots = 1

Goes(r, from, to) ==
  /\ at[r] = from
  /\ at' = [at EXCEPT ![r] = to]

-----------------------------------------------------------------------------
(* The ISP checker.                                                        *)

(* A line asks for approval, or has an error in it.                        *)
Line(r) ==
  /\ calls < MaxCalls /\ calls' = calls + 1
  /\ \/ \E a \in Addrs : Goes(r, "idle", "isp") /\ addr' = [addr EXCEPT ![r] = a]
     \/ Goes(r, "idle", "post") /\ UNCHANGED addr
  /\ UNCHANGED <<ispVars, reporterVars, boots>>

EndsLine(r, from) == Goes(r, from, "idle") /\ addr' = [addr EXCEPT ![r] = Nobody]

(* Mutant: the lock is given back before the service is asked.             *)
LookupUnlocked(r) ==
  /\ at[r] = "isp" /\ ispLock = Nobody
  /\ \/ cache[addr[r]] # "none" /\ EndsLine(r, "isp") /\ UNCHANGED ispLock
     \/ cache[addr[r]] = "none" /\ Goes(r, "isp", "http") /\ UNCHANGED <<addr, ispLock>>
  /\ UNCHANGED <<cache, cacheFile, asked, tears, reporterVars, calls, boots>>

(* Lookup takes the lock, and keeps it while it asks the service.          *)
Lookup(r) ==
  /\ at[r] = "isp" /\ ispLock = Nobody
  /\ \/ cache[addr[r]] # "none" /\ EndsLine(r, "isp") /\ UNCHANGED ispLock
     \/ cache[addr[r]] = "none" /\ Goes(r, "isp", "http") /\ ispLock' = r /\ UNCHANGED addr
  /\ UNCHANGED <<cache, cacheFile, asked, tears, reporterVars, calls, boots>>

Answered(r) ==
  \E verdict \in Verdicts \ {"none"} :
    /\ Goes(r, "http", "save")
    /\ cache' = [cache EXCEPT ![addr[r]] = verdict]
    /\ asked' = [asked EXCEPT ![addr[r]] = @ + 1]
    /\ UNCHANGED <<addr, ispLock>>

(* Mutant: an error is returned without giving the lock back.              *)
lookupKeepsLock(r) ==
  /\ Answered(r) \/ (EndsLine(r, "http") /\ UNCHANGED <<ispLock, cache, asked>>)
  /\ UNCHANGED <<cacheFile, tears, reporterVars, calls, boots>>

(* An answer, or an error: no connection, the timeout, an answer that      *)
(* cannot be read or is none.                                              *)
lookup(r) ==
  /\ \/ Answered(r)
     \/ EndsLine(r, "http") /\ ispLock' = Nobody /\ UNCHANGED <<cache, asked>>
  /\ UNCHANGED <<cacheFile, tears, reporterVars, calls, boots>>

(* The whole cache is written; an error is ignored.                        *)
saveCache(r) ==
  /\ EndsLine(r, "save")
  /\ ispLock' = Nobody
  /\ \/ cacheFile' = cache /\ UNCHANGED tears
     \/ SaveFaults /\ cacheFile' \in {cacheFile, Torn} /\ tears' = tears + 1
  /\ UNCHANGED <<cache, asked, reporterVars, calls, boots>>

-----------------------------------------------------------------------------
(* The channel of errors and routineDiscordErrorReporter.                  *)

(* The send blocks while the channel is full.                              *)
discordPostError(r) ==
  /\ posts < PostCap
  /\ EndsLine(r, "post")
  /\ posts' = posts + 1
  /\ UNCHANGED <<ispVars, aggregate, sending, calls, boots>>

(* Mutant: what is read from the channel is not kept.                      *)
CollectNothing ==
  /\ ~sending /\ posts > 0
  /\ posts' = posts - 1
  /\ UNCHANGED <<lineVars, ispVars, aggregate, sending, calls, boots>>

Collect ==
  /\ ~sending /\ posts > 0
  /\ posts' = posts - 1 /\ aggregate' = TRUE
  /\ UNCHANGED <<lineVars, ispVars, sending, calls, boots>>

(* Once a minute, if there is anything to send.                            *)
Flush ==
  /\ ~sending /\ aggregate
  /\ sending' = TRUE
  /\ UNCHANGED <<lineVars, ispVars, posts, aggregate, calls, boots>>

(* Mutant: the reporter posts its own errors to the channel it reads.      *)
sendErrorPosts ==
  /\ sending /\ posts < PostCap
  /\ sending' = FALSE /\ aggregate' = FALSE /\ posts' = posts + 1
  /\ UNCHANGED <<lineVars, ispVars, calls, boots>>

(* The webhook answered or timed out; an error is only logged.             *)
discordSendError ==
  /\ sending
  /\ sending' = FALSE /\ aggregate' = FALSE
  /\ UNCHANGED <<lineVars, ispVars, posts, calls, boots>>

-----------------------------------------------------------------------------
(* Mutant: an error is ignored.                                            *)
loadCacheBlindly(file) == file

(* A file that is broken or may not be read is taken for an empty cache.   *)
loadCache(file) == IF Readable /\ file # Torn THEN file ELSE Empty

(* A kill and the next boot.  A kill in the middle of saveCache leaves the *)
(* old file, the new one or a broken one.                                  *)
Restart ==
  /\ boots < MaxBoots /\ boots' = boots + 1
  /\ at' = [r \in Runners |-> "idle"] /\ addr' = [r \in Runners |-> Nobody]
  /\ ispLock' = Nobody
  /\ IF \E r \in Runners : at[r] = "save"
       THEN cacheFile' \in {cacheFile, cache, Torn} /\ tears' = tears + 1
       ELSE UNCHANGED <<cacheFile, tears>>
  /\ cache' = loadCache(cacheFile')
  /\ posts' = 0 /\ aggregate' = FALSE /\ sending' = FALSE
  /\ UNCHANGED <<asked, calls>>

(* A runner goes on with its line.                                         *)
Step(r)  == Lookup(r) \/ lookup(r) \/ saveCache(r) \/ discordPostError(r)
Reporter == Collect \/ Flush \/ discordSendError

Next == (\E r \in Runners : Line(r) \/ Step(r)) \/ Reporter \/ Restart

Spec == Init /\ [][Next]_vars

(* Requests end, in an answer, an error or the timeout.  Those that wait   *)
(* for the lock or for room in the channel get their turn: both queue up   *)
(* their waiters.  The tick of the reporter stays in its channel until the *)
(* select takes it.                                                        *)
Fairness ==
  /\ \A r \in Runners : WF_vars(Step(r)) /\ SF_vars(Lookup(r)) /\ SF_vars(discordPostError(r))
  /\ WF_vars(Reporter) /\ SF_vars(Flush)

FairSpec == Spec /\ Fairness

-----------------------------------------------------------------------------
(* Properties.                                                             *)

(* Every variable has its type.                                            *)
TypeOK ==
  /\ at \in [Runners -> {"idle", "isp", "http", "save", "post"}]
  /\ addr \in [Runners -> Addrs \union {Nobody}]
  /\ ispLock \in Runners \union {Nobody}
  /\ cache \in [Addrs -> Verdicts]
  /\ cacheFile \in [Addrs -> Verdicts] \/ cacheFile = Torn
  /\ asked \in [Addrs -> Nat] /\ tears \in Nat
  /\ posts \in 0..PostCap /\ aggregate \in BOOLEAN /\ sending \in BOOLEAN
  /\ calls \in 0..MaxCalls /\ boots \in Nat \ {0}

(* The service gives an answer for an address only once, however many      *)
(* runners ask at the same time and however often the backend is started,  *)
(* and once more for every save that failed or was cut short: the lock is  *)
(* kept over the request (Lookup, saveCache, loadCache).  If the backend   *)
(* may not read its own file it is once for every start.                   *)
LookedUpOnce ==
  \A a \in Addrs : asked[a] <= 1 + tears + (IF Readable THEN 0 ELSE boots - 1)

(* The lock is never left to a runner that does not work on a lookup, or   *)
(* that waits for something but the network and the disk: nobody waits in  *)
(* Lookup for the channel of errors, and no way out of Lookup keeps it.    *)
LockIsWorkedWith == ispLock # Nobody => at[ispLock] \in {"http", "save"}

(* Every line is handled to its end, however slow the ISP service and the  *)
(* webhook are (Lookup, discordPostError).                                 *)
LinesEnd == \A r \in Runners : at[r] # "idle" ~> at[r] = "idle"

(* An error that was posted is sent, unless the backend ends first         *)
(* (routineDiscordErrorReporter).                                          *)
PostsAreSent == \A b \in 1..MaxBoots : (posts > 0 /\ boots = b) ~> (sending \/ boots > b)
=============================================================================
