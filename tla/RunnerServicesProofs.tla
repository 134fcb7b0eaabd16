------------------------- MODULE RunnerServicesProofs -------------------------
(***************************************************************************)
(* Proofs about RunnerServices: type correctness, the lock of the ISP      *)
(* checker, and how often the service is asked.                            *)
(***************************************************************************)
EXTENDS RunnerServices, TLAPS

USE DEF lineVars, ispVars, reporterVars, vars

LEMMA ConstantFacts ==
  /\ Nobody \notin Runners /\ Nobody \notin Addrs
  /\ MaxCalls \in Nat /\ MaxBoots \in Nat /\ PostCap \in Nat \ {0}
BY RunnerServicesAssumption DEF RunnerServicesAssumption

Steps == {"idle", "isp", "http", "save", "post"}

(* A runner works on a lookup exactly while it holds the lock, and it has  *)
(* an address then.                                                        *)
LockInv ==
  \A r \in Runners :
    /\ at[r] \in {"http", "save"} <=> ispLock = r
    /\ at[r] \in {"isp", "http", "save"} => addr[r] \in Addrs

BaseInv == TypeOK /\ LockInv

LEMMA GoesTyped ==
  ASSUME TypeOK, NEW r \in Runners, NEW from, NEW to \in Steps, Goes(r, from, to)
  PROVE  /\ at' \in [Runners -> Steps] /\ at[r] = from /\ at'[r] = to
         /\ \A q \in Runners : q # r => at'[q] = at[q]
BY DEF TypeOK, Goes, Steps

LEMMA EndsTyped ==
  ASSUME TypeOK, NEW r \in Runners, NEW from, EndsLine(r, from)
  PROVE  /\ at' \in [Runners -> Steps] /\ at[r] = from /\ at'[r] = "idle"
         /\ \A q \in Runners : q # r => at'[q] = at[q] /\ addr'[q] = addr[q]
         /\ addr' \in [Runners -> Addrs \union {Nobody}]
<1>1. Goes(r, from, "idle") /\ "idle" \in Steps
  BY DEF EndsLine, Steps
<1>2. /\ addr' \in [Runners -> Addrs \union {Nobody}]
      /\ \A q \in Runners : q # r => addr'[q] = addr[q]
  BY DEF EndsLine, TypeOK
<1> QED BY <1>1, <1>2, GoesTyped

LEMMA CacheTyped ==
  /\ Empty \in [Addrs -> Verdicts]
  /\ \A file \in [Addrs -> Verdicts] : loadCache(file) \in [Addrs -> Verdicts]
  /\ loadCache(Torn) \in [Addrs -> Verdicts]
BY DEF Empty, Verdicts, loadCache

LEMMA BaseInit == Init => BaseInv
<1> SUFFICES ASSUME Init PROVE BaseInv
  OBVIOUS
<1>1. TypeOK
  <2>1. posts \in 0..PostCap /\ calls \in 0..MaxCalls /\ boots \in Nat \ {0} /\ tears \in Nat
    BY ConstantFacts DEF Init
  <2>2. aggregate \in BOOLEAN /\ sending \in BOOLEAN
    BY DEF Init
  <2>3. cache \in [Addrs -> Verdicts] /\ cacheFile \in [Addrs -> Verdicts]
    BY CacheTyped DEF Init
  <2>4. /\ at \in [Runners -> Steps] /\ addr \in [Runners -> Addrs \union {Nobody}]
        /\ asked \in [Addrs -> Nat] /\ ispLock \in Runners \union {Nobody}
    BY DEF Init, Steps
  <2> QED BY <2>1, <2>2, <2>3, <2>4 DEF TypeOK, Steps
<1>2. LockInv
  BY ConstantFacts DEF Init, LockInv
<1> QED BY <1>1, <1>2 DEF BaseInv

(* What the runner that takes a step leaves of the lock, if it is not the  *)
(* holder before or after.                                                 *)
LEMMA LockElsewhere ==
  ASSUME BaseInv, NEW r \in Runners, UNCHANGED ispLock,
         at[r] \notin {"http", "save"}, at'[r] \notin {"http", "save"},
         at'[r] = "isp" => addr'[r] \in Addrs,
         \A q \in Runners : q # r => at'[q] = at[q] /\ addr'[q] = addr[q]
  PROVE  LockInv'
BY DEF BaseInv, LockInv

LEMMA LineBase ==
  ASSUME BaseInv, NEW r \in Runners, Line(r)
  PROVE  BaseInv'
<1>1. TypeOK
  BY DEF BaseInv
<1>2. calls' \in 0..MaxCalls /\ UNCHANGED <<ispVars, reporterVars, boots>>
  BY <1>1, ConstantFacts DEF Line, TypeOK
<1>3. CASE \E a \in Addrs : Goes(r, "idle", "isp") /\ addr' = [addr EXCEPT ![r] = a]
  <2>1. /\ at' \in [Runners -> Steps] /\ at[r] = "idle" /\ at'[r] = "isp"
        /\ \A q \in Runners : q # r => at'[q] = at[q]
    BY <1>1, <1>3, GoesTyped DEF Steps
  <2>2. /\ addr' \in [Runners -> Addrs \union {Nobody}] /\ addr'[r] \in Addrs
        /\ \A q \in Runners : q # r => addr'[q] = addr[q]
    BY <1>1, <1>3 DEF TypeOK
  <2>3. TypeOK'
    BY <1>1, <1>2, <2>1, <2>2 DEF TypeOK, Steps
  <2>4. LockInv'
    BY <1>2, <2>1, <2>2, LockElsewhere
  <2> QED BY <2>3, <2>4 DEF BaseInv
<1>4. CASE Goes(r, "idle", "post") /\ UNCHANGED addr
  <2>1. /\ at' \in [Runners -> Steps] /\ at[r] = "idle" /\ at'[r] = "post"
        /\ \A q \in Runners : q # r => at'[q] = at[q]
    BY <1>1, <1>4, GoesTyped DEF Steps
  <2>2. TypeOK'
    BY <1>1, <1>2, <1>4, <2>1 DEF TypeOK, Steps
  <2>3. LockInv'
    BY <1>2, <1>4, <2>1, LockElsewhere
  <2> QED BY <2>2, <2>3 DEF BaseInv
<1> QED BY <1>3, <1>4 DEF Line

LEMMA LookupBase ==
  ASSUME BaseInv, NEW r \in Runners, Lookup(r)
  PROVE  BaseInv'
<1>1. TypeOK /\ LockInv /\ at[r] = "isp" /\ ispLock = Nobody /\ addr[r] \in Addrs
  BY DEF BaseInv, LockInv, Lookup
<1>2. UNCHANGED <<cache, cacheFile, asked, tears, reporterVars, calls, boots>>
  BY DEF Lookup
<1>3. CASE EndsLine(r, "isp") /\ UNCHANGED ispLock
  <2>1. TypeOK'
    BY <1>1, <1>2, <1>3, EndsTyped DEF TypeOK, Steps
  <2>2. LockInv'
    BY <1>1, <1>3, EndsTyped, LockElsewhere
  <2> QED BY <2>1, <2>2 DEF BaseInv
<1>4. CASE Goes(r, "isp", "http") /\ ispLock' = r /\ UNCHANGED addr
  <2>1. /\ at' \in [Runners -> Steps] /\ at'[r] = "http"
        /\ \A q \in Runners : q # r => at'[q] = at[q]
    BY <1>1, <1>4, GoesTyped DEF Steps
  <2>2. TypeOK'
    BY <1>1, <1>2, <1>4, <2>1 DEF TypeOK, Steps
  <2>3. LockInv'
    <3>1. \A q \in Runners : at[q] \notin {"http", "save"}
      BY <1>1, ConstantFacts DEF LockInv
    <3> QED BY <1>1, <1>4, <2>1, <3>1 DEF LockInv
  <2> QED BY <2>2, <2>3 DEF BaseInv
<1> QED BY <1>3, <1>4 DEF Lookup

(* The lock goes back with the end of the line.                            *)
LEMMA LockReturned ==
  ASSUME BaseInv, NEW r \in Runners, NEW from \in {"http", "save"}, EndsLine(r, from), ispLock' = Nobody
  PROVE  LockInv'
<1>1. ispLock = r /\ at'[r] = "idle"
  BY EndsTyped DEF BaseInv, LockInv
<1>2. \A q \in Runners : at'[q] \notin {"http", "save"}
  BY <1>1, EndsTyped DEF BaseInv, LockInv
<1> QED BY <1>1, <1>2, EndsTyped, ConstantFacts DEF BaseInv, LockInv

(* An answer is remembered and counted.                                    *)
LEMMA AnsweredFacts ==
  ASSUME BaseInv, NEW r \in Runners, Answered(r)
  PROVE  /\ at[r] = "http" /\ ispLock = r /\ addr[r] \in Addrs
         /\ at' \in [Runners -> Steps] /\ at'[r] = "save"
         /\ \A q \in Runners : q # r => at'[q] = at[q]
         /\ cache' \in [Addrs -> Verdicts] /\ asked' \in [Addrs -> Nat]
         /\ cache'[addr[r]] # "none" /\ asked'[addr[r]] = asked[addr[r]] + 1
         /\ \A a \in Addrs : a # addr[r] => cache'[a] = cache[a] /\ asked'[a] = asked[a]
         /\ UNCHANGED <<addr, ispLock>>
<1>1. TypeOK /\ LockInv
  BY DEF BaseInv
<1>2. PICK v \in Verdicts \ {"none"} :
        /\ Goes(r, "http", "save") /\ cache' = [cache EXCEPT ![addr[r]] = v]
        /\ asked' = [asked EXCEPT ![addr[r]] = asked[addr[r]] + 1] /\ UNCHANGED <<addr, ispLock>>
  BY DEF Answered
<1>3. /\ at[r] = "http" /\ at' \in [Runners -> Steps] /\ at'[r] = "save"
      /\ \A q \in Runners : q # r => at'[q] = at[q]
  BY <1>1, <1>2, GoesTyped DEF Steps
<1>4. ispLock = r /\ addr[r] \in Addrs
  BY <1>1, <1>3 DEF LockInv
<1>5. /\ cache' \in [Addrs -> Verdicts] /\ cache'[addr[r]] # "none"
      /\ \A a \in Addrs : a # addr[r] => cache'[a] = cache[a]
  BY <1>1, <1>2, <1>4 DEF TypeOK
<1>6. asked[addr[r]] + 1 \in Nat
  BY <1>1, <1>4 DEF TypeOK
<1>7. /\ asked' \in [Addrs -> Nat] /\ asked'[addr[r]] = asked[addr[r]] + 1
      /\ \A a \in Addrs : a # addr[r] => asked'[a] = asked[a]
  BY <1>1, <1>2, <1>4, <1>6 DEF TypeOK
<1> QED BY <1>2, <1>3, <1>4, <1>5, <1>7

LEMMA AskBase ==
  ASSUME BaseInv, NEW r \in Runners, lookup(r)
  PROVE  BaseInv'
<1>1. TypeOK /\ LockInv
  BY DEF BaseInv
<1>2. UNCHANGED <<cacheFile, tears, reporterVars, calls, boots>>
  BY DEF lookup
<1>3. CASE Answered(r)
  <2>1. TypeOK'
    BY <1>1, <1>2, <1>3, AnsweredFacts DEF TypeOK, Steps
  <2>2. LockInv'
    BY <1>1, <1>3, AnsweredFacts DEF LockInv
  <2> QED BY <2>1, <2>2 DEF BaseInv
<1>4. CASE EndsLine(r, "http") /\ ispLock' = Nobody /\ UNCHANGED <<cache, asked>>
  <2>1. TypeOK'
    BY <1>1, <1>2, <1>4, EndsTyped DEF TypeOK, Steps
  <2>2. LockInv'
    BY <1>4, LockReturned
  <2> QED BY <2>1, <2>2 DEF BaseInv
<1> QED BY <1>3, <1>4 DEF lookup

LEMMA SaveBase ==
  ASSUME BaseInv, NEW r \in Runners, saveCache(r)
  PROVE  BaseInv'
<1>1. TypeOK
  BY DEF BaseInv
<1>2. EndsLine(r, "save") /\ ispLock' = Nobody /\ UNCHANGED <<cache, asked, reporterVars, calls, boots>>
  BY DEF saveCache
<1>3. tears' \in Nat /\ (cacheFile' \in [Addrs -> Verdicts] \/ cacheFile' = Torn)
  <2>1. CASE cacheFile' = cache /\ UNCHANGED tears
    BY <1>1, <2>1 DEF TypeOK
  <2>2. CASE cacheFile' \in {cacheFile, Torn} /\ tears' = tears + 1
    BY <1>1, <2>2 DEF TypeOK
  <2> QED BY <2>1, <2>2 DEF saveCache
<1>4. TypeOK'
  BY <1>1, <1>2, <1>3, EndsTyped DEF TypeOK, Steps
<1>5. LockInv'
  BY <1>2, LockReturned
<1> QED BY <1>4, <1>5 DEF BaseInv

LEMMA ReporterBase ==
  ASSUME BaseInv, (\E r \in Runners : discordPostError(r)) \/ Reporter
  PROVE  BaseInv'
<1>1. TypeOK
  BY DEF BaseInv
<1>2. ASSUME NEW r \in Runners, discordPostError(r) PROVE BaseInv'
  <2>1. EndsLine(r, "post") /\ UNCHANGED <<ispVars, aggregate, sending, calls, boots>>
    BY <1>2 DEF discordPostError
  <2>2. posts' \in 0..PostCap
    BY <1>1, <1>2, ConstantFacts DEF discordPostError, TypeOK
  <2>3. TypeOK'
    BY <1>1, <2>1, <2>2, EndsTyped DEF TypeOK, Steps
  <2>4. LockInv'
    BY <1>1, <2>1, EndsTyped, LockElsewhere
  <2> QED BY <2>3, <2>4 DEF BaseInv
<1>3. CASE Reporter
  <2>1. UNCHANGED <<lineVars, ispVars, calls, boots>>
    BY <1>3 DEF Reporter, Collect, Flush, discordSendError
  <2>2. posts' \in 0..PostCap
    BY <1>1, <1>3, ConstantFacts DEF Reporter, Collect, Flush, discordSendError, TypeOK
  <2>3. aggregate' \in BOOLEAN /\ sending' \in BOOLEAN
    BY <1>1, <1>3, Zenon DEF Reporter, Collect, Flush, discordSendError, TypeOK
  <2>4. TypeOK'
    BY <1>1, <2>1, <2>2, <2>3 DEF TypeOK
  <2>5. LockInv'
    BY <2>1 DEF BaseInv, LockInv
  <2> QED BY <2>4, <2>5 DEF BaseInv
<1> QED BY <1>2, <1>3

LEMMA RestartFile ==
  ASSUME TypeOK, Restart
  PROVE  /\ tears' \in Nat /\ tears' >= tears
         /\ cacheFile' \in [Addrs -> Verdicts] \/ cacheFile' = Torn
         /\ UNCHANGED <<cacheFile, tears>> \/ tears' = tears + 1
<1>1. CASE UNCHANGED <<cacheFile, tears>>
  BY <1>1 DEF TypeOK
<1>2. CASE cacheFile' \in {cacheFile, cache, Torn} /\ tears' = tears + 1
  BY <1>2 DEF TypeOK
<1> QED BY <1>1, <1>2 DEF Restart

LEMMA RestartBase ==
  ASSUME BaseInv, Restart
  PROVE  BaseInv'
<1>1. TypeOK
  BY DEF BaseInv
<1>2. cache' \in [Addrs -> Verdicts]
  BY <1>1, RestartFile, CacheTyped DEF Restart
<1>3. boots' \in Nat \ {0} /\ posts' \in 0..PostCap
  BY <1>1, ConstantFacts DEF Restart, TypeOK
<1>4. TypeOK'
  BY <1>1, <1>2, <1>3, RestartFile DEF Restart, TypeOK
<1>5. LockInv'
  BY ConstantFacts DEF Restart, LockInv
<1> QED BY <1>4, <1>5 DEF BaseInv

LEMMA BaseNext == BaseInv /\ [Next]_vars => BaseInv'
<1>1. CASE UNCHANGED vars
  BY <1>1 DEF BaseInv, TypeOK, LockInv
<1> QED BY <1>1, LineBase, LookupBase, AskBase, SaveBase, ReporterBase, RestartBase DEF Next, Step

(* Every variable has its type.                                            *)
THEOREM TypeCorrect == Spec => []TypeOK
<1>1. BaseInv => TypeOK
  BY DEF BaseInv
<1> QED BY BaseInit, BaseNext, <1>1, PTL DEF Spec

(* Whoever holds the lock of the ISP checker works on a lookup.            *)
THEOREM LockIsReturned == Spec => []LockIsWorkedWith
<1>1. BaseInv => LockIsWorkedWith
  BY DEF BaseInv, TypeOK, LockInv, LockIsWorkedWith
<1> QED BY BaseInit, BaseNext, <1>1, PTL DEF Spec

-----------------------------------------------------------------------------
(* How often the service answers.  An answer is paid for by the entry in   *)
(* the cache; after a save by the entry in the file, or by the save that   *)
(* failed; and while the file is behind the cache a kill is one that cuts  *)
(* a save short.                                                           *)
Excused == tears + (IF Readable THEN 0 ELSE boots - 1)

InFile(a) == cacheFile[a] \in {"fine", "refused"}

AskInv ==
  /\ \A r \in Runners : at[r] = "http" => cache[addr[r]] = "none"
  /\ \A a \in Addrs :
       /\ asked[a] <= Excused + 1
       /\ cache[a] = "none" => asked[a] <= Excused
       /\ (\A r \in Runners : at[r] # "save") /\ ~InFile(a) => asked[a] <= Excused

LEMMA AskInit == Init => AskInv
<1> SUFFICES ASSUME Init PROVE AskInv
  OBVIOUS
<1>1. Excused \in Nat
  BY DEF Init, Excused
<1> QED BY <1>1 DEF Init, AskInv

LEMMA ExcusedTyped ==
  ASSUME TypeOK
  PROVE  Excused \in Nat /\ \A a \in Addrs : asked[a] \in Nat
BY DEF TypeOK, Excused

(* The steps that leave cache, file and counts alone, and end no save.     *)
LEMMA AskElsewhere ==
  ASSUME AskInv, UNCHANGED <<cache, cacheFile, asked, tears, boots>>,
         \A r \in Runners : at[r] = "save" => at'[r] = "save",
         \A r \in Runners : at'[r] = "http" => cache[addr'[r]] = "none"
  PROVE  AskInv'
<1>1. Excused' = Excused
  BY DEF Excused
<1> QED BY <1>1 DEF AskInv, InFile

LEMMA AnswerAsk ==
  ASSUME BaseInv, AskInv, NEW r \in Runners, Answered(r), UNCHANGED <<cacheFile, tears, boots>>
  PROVE  AskInv'
<1>1. TypeOK /\ LockInv /\ Excused' = Excused
  BY DEF BaseInv, Excused
<1>2. asked[addr[r]] <= Excused
  BY AnsweredFacts DEF AskInv
<1>3. \A q \in Runners : at'[q] # "http"
  BY <1>1, AnsweredFacts, ConstantFacts DEF LockInv
<1>4. \A a \in Addrs : asked'[a] <= Excused + 1 /\ (cache'[a] = "none" => asked'[a] <= Excused)
  BY <1>1, <1>2, AnsweredFacts, ExcusedTyped DEF AskInv
<1>5. at'[r] = "save"
  BY AnsweredFacts
<1> QED BY <1>1, <1>3, <1>4, <1>5 DEF AskInv

LEMMA SaveAsk ==
  ASSUME BaseInv, AskInv, NEW r \in Runners, saveCache(r)
  PROVE  AskInv'
<1>1. TypeOK /\ LockInv
  BY DEF BaseInv
<1>2. EndsLine(r, "save") /\ UNCHANGED <<cache, asked, boots>>
  BY DEF saveCache
<1>3. at[r] = "save" /\ \A q \in Runners : at'[q] \notin {"http", "save"}
  BY <1>1, <1>2, EndsTyped, ConstantFacts DEF LockInv
<1>4. CASE cacheFile' = cache /\ UNCHANGED tears
  <2>1. Excused' = Excused
    BY <1>2, <1>4 DEF Excused
  <2>2. \A a \in Addrs : cache[a] = "none" \/ cache[a] \in {"fine", "refused"}
    BY <1>1 DEF TypeOK, Verdicts
  <2> QED BY <1>2, <1>3, <1>4, <2>1, <2>2 DEF AskInv, InFile
<1>5. CASE tears' = tears + 1
  <2>1. Excused' = Excused + 1
    BY <1>1, <1>2, <1>5 DEF Excused, TypeOK
  <2> QED BY <1>1, <1>2, <1>3, <2>1, ExcusedTyped DEF AskInv
<1> QED BY <1>4, <1>5 DEF saveCache

LEMMA RestartAsk ==
  ASSUME BaseInv, AskInv, Restart
  PROVE  AskInv'
<1>1. TypeOK
  BY DEF BaseInv
<1>2. /\ boots' = boots + 1 /\ UNCHANGED asked /\ cache' = loadCache(cacheFile')
      /\ \A r \in Runners : at'[r] = "idle"
  BY DEF Restart
<1>3. Excused \in Nat /\ \A a \in Addrs : asked[a] \in Nat
  BY <1>1, ExcusedTyped
<1>4. ASSUME Excused' >= Excused + 1 PROVE AskInv'
  <2>1. Excused' \in Nat
    BY <1>1, <1>2, RestartFile DEF Excused, TypeOK
  <2>2. \A a \in Addrs : asked'[a] <= Excused'
    BY <1>2, <1>3, <1>4, <2>1 DEF AskInv
  <2> QED BY <1>2, <1>3, <2>1, <2>2 DEF AskInv
<1>5. CASE ~Readable
  <2>1. Excused' >= Excused + 1
    BY <1>1, <1>2, <1>5, RestartFile DEF Excused, TypeOK
  <2> QED BY <1>4, <2>1
<1>6. CASE Readable /\ \E r \in Runners : at[r] = "save"
  <2>1. Excused' >= Excused + 1
    BY <1>1, <1>6 DEF Restart, Excused, TypeOK
  <2> QED BY <1>4, <2>1
<1>7. CASE Readable /\ \A r \in Runners : at[r] # "save"
  <2>1. UNCHANGED <<cacheFile, tears>> /\ Excused' = Excused
    BY <1>7 DEF Restart, Excused
  <2>2. \A a \in Addrs : cache'[a] = "none" => ~InFile(a)
    BY <1>2, <2>1, <1>7 DEF loadCache, Empty, Torn, InFile
  <2> QED BY <1>2, <1>7, <2>1, <2>2 DEF AskInv, InFile
<1> QED BY <1>5, <1>6, <1>7

LEMMA AskNext == BaseInv /\ AskInv /\ [Next]_vars => AskInv'
<1> SUFFICES ASSUME BaseInv, AskInv, [Next]_vars PROVE AskInv'
  OBVIOUS
<1>1. TypeOK /\ LockInv
  BY DEF BaseInv
<1>2. ASSUME NEW r \in Runners, Line(r) PROVE AskInv'
  <2>1. UNCHANGED <<cache, cacheFile, asked, tears, boots>>
    BY <1>2 DEF Line
  <2>2. /\ at[r] = "idle" /\ at'[r] \in {"isp", "post"}
        /\ \A q \in Runners : q # r => at'[q] = at[q]
    BY <1>1, <1>2, GoesTyped DEF Line, Steps
  <2>3. \A q \in Runners : q # r => addr'[q] = addr[q]
    BY <1>1, <1>2 DEF Line, TypeOK
  <2> QED BY <2>1, <2>2, <2>3, AskElsewhere DEF AskInv
<1>3. ASSUME NEW r \in Runners, Lookup(r) PROVE AskInv'
  <2>1. at[r] = "isp" /\ UNCHANGED <<cache, cacheFile, asked, tears, boots>>
    BY <1>3 DEF Lookup
  <2>2. CASE EndsLine(r, "isp")
    BY <1>1, <2>1, <2>2, EndsTyped, AskElsewhere DEF AskInv
  <2>3. CASE cache[addr[r]] = "none" /\ Goes(r, "isp", "http") /\ UNCHANGED addr
    <3>1. at'[r] = "http" /\ \A q \in Runners : q # r => at'[q] = at[q]
      BY <1>1, <2>3, GoesTyped DEF Steps
    <3> QED BY <2>1, <2>3, <3>1, AskElsewhere DEF AskInv
  <2> QED BY <1>3, <2>2, <2>3 DEF Lookup
<1>4. ASSUME NEW r \in Runners, lookup(r) PROVE AskInv'
  <2>1. UNCHANGED <<cacheFile, tears, boots>>
    BY <1>4 DEF lookup
  <2>2. CASE EndsLine(r, "http") /\ UNCHANGED <<cache, asked>>
    BY <1>1, <2>1, <2>2, EndsTyped, AskElsewhere DEF AskInv
  <2> QED BY <1>4, <2>1, <2>2, AnswerAsk DEF lookup
<1>5. ASSUME NEW r \in Runners, discordPostError(r) PROVE AskInv'
  <2>1. EndsLine(r, "post") /\ UNCHANGED <<cache, cacheFile, asked, tears, boots>>
    BY <1>5 DEF discordPostError
  <2> QED BY <1>1, <2>1, EndsTyped, AskElsewhere DEF AskInv
<1>6. CASE Reporter \/ UNCHANGED vars
  <2>1. UNCHANGED <<lineVars, ispVars, boots>>
    BY <1>6 DEF Reporter, Collect, Flush, discordSendError
  <2> QED BY <2>1, AskElsewhere DEF AskInv
<1> QED BY <1>2, <1>3, <1>4, <1>5, <1>6, SaveAsk, RestartAsk DEF Next, Step

(* The ISP service gives an answer for an address once, and once more for  *)
(* every save of the cache that failed or was cut short.                   *)
THEOREM AddressesAreLookedUpOnce == Spec => []LookedUpOnce
<1>1. TypeOK /\ AskInv => LookedUpOnce
  <2> SUFFICES ASSUME TypeOK, AskInv, NEW a \in Addrs
               PROVE  asked[a] <= 1 + tears + (IF Readable THEN 0 ELSE boots - 1)
    BY DEF LookedUpOnce
  <2> QED BY DEF AskInv, Excused, TypeOK
<1>2. BaseInv => TypeOK
  BY DEF BaseInv
<1> QED BY BaseInit, BaseNext, AskInit, AskNext, <1>1, <1>2, PTL DEF Spec
=============================================================================
