--------------------------- MODULE JoinFilterProofs ---------------------------
(***************************************************************************)
(* Proofs about JoinFilter: type correctness, the right to chat, the       *)
(* refinement of MovedOut, and what an answer to a join respects.          *)
(***************************************************************************)
EXTENDS JoinFilter, TLAPS

USE DEF lobbyVars, tableVars, runnerVars, roomVars, fileVars, vars

LEMMA ConstantFacts ==
  /\ Nobody \notin Players /\ Bans \subseteq BanType
  /\ MaxTime \in Nat /\ MaxEvents \in Nat /\ MaxMoves \in Nat \ {0}
BY JoinFilterAssumption DEF JoinFilterAssumption

Steps == Checking \union {"idle"}
Rooms == {"out", "in", "ban"} \union Approved

-----------------------------------------------------------------------------
(* Types.  The player of a check is one while the check goes on.           *)
PlayerInv == \A i \in Insts : at[i] \in Checking => check[i].player \in Players

BaseInv == TypeOK /\ PlayerInv

LEMMA GoesTyped ==
  ASSUME TypeOK, NEW i \in Insts, NEW from, NEW to \in Steps, Goes(i, from, to)
  PROVE  /\ at' \in [Insts -> Steps] /\ at[i] = from /\ at'[i] = to
         /\ \A j \in Insts : j # i => at'[j] = at[j]
BY DEF TypeOK, Goes, Steps

LEMMA CheckTyped ==
  ASSUME TypeOK, NEW i \in Insts, NEW c \in Checks, check' = [check EXCEPT ![i] = c]
  PROVE  /\ check' \in [Insts -> Checks] /\ check'[i] = c
         /\ \A j \in Insts : j # i => check'[j] = check[j]
<1> HIDE DEF Checks
<1> QED BY DEF TypeOK

LEMMA NoCheckTyped ==
  /\ NoCheck \in Checks
  /\ \A p \in Players : [NoCheck EXCEPT !.player = p] \in Checks
  /\ NoDispatch \in [Players -> {"none", "mute", "chat"}]
BY DEF NoCheck, Checks, NoDispatch

(* The maps of moved players.                                              *)
LEMMA MovesTyped ==
  ASSUME NEW m \in [Players -> [Insts -> Nat]], NEW p \in Players, NEW i \in Insts
  PROVE  /\ cleanup(m) \in [Players -> [Insts -> Nat]]
         /\ \A n \in Nat : [m EXCEPT ![p][i] = n] \in [Players -> [Insts -> Nat]]
         /\ [cleanup(m) EXCEPT ![p][i] = @ + 1] \in [Players -> [Insts -> Nat]]
<1>1. cleanup(m) \in [Players -> [Insts -> Nat]]
  BY DEF cleanup
<1>2. ASSUME NEW f \in [Players -> [Insts -> Nat]], NEW n \in Nat
      PROVE  [f EXCEPT ![p][i] = n] \in [Players -> [Insts -> Nat]]
  <2>1. [f[p] EXCEPT ![i] = n] \in [Insts -> Nat]
    OBVIOUS
  <2> QED BY <2>1
<1>3. cleanup(m)[p][i] + 1 \in Nat
  BY <1>1
<1> QED BY <1>1, <1>2, <1>3

(* A change of one room and one player.                                    *)
LEMMA RoomTyped ==
  ASSUME NEW S, NEW f \in [Insts -> [Players -> S]], NEW i \in Insts, NEW p \in Players, NEW v \in S
  PROVE  /\ [f EXCEPT ![i][p] = v] \in [Insts -> [Players -> S]]
         /\ [f EXCEPT ![i][p] = v][i][p] = v
         /\ \A j \in Insts, q \in Players : j # i \/ q # p => [f EXCEPT ![i][p] = v][j][q] = f[j][q]
<1>1. [f[i] EXCEPT ![p] = v] \in [Players -> S]
  OBVIOUS
<1> QED BY <1>1

LEMMA BaseInit == Init => BaseInv
<1> SUFFICES ASSUME Init PROVE BaseInv
  OBVIOUS
<1>1. now \in 0..MaxTime /\ events \in 0..MaxEvents
  BY ConstantFacts DEF Init
<1>2. check \in [Insts -> Checks] /\ dispatch \in [Insts -> [Players -> {"none", "mute", "chat"}]]
  BY NoCheckTyped DEF Init
<1>3. at \in [Insts -> Checking \union {"idle"}] /\ \A i \in Insts : at[i] \notin Checking
  BY DEF Init, Checking
<1>4. /\ movedOut \in [Players -> [Insts -> Nat]] /\ bans \in [Players -> SUBSET Bans]
      /\ room \in [Insts -> [Players -> {"out", "in", "ban"} \union Approved]]
      /\ chat \in [Insts -> SUBSET Players] /\ allowed \in [Insts -> SUBSET Players]
  BY DEF Init
<1>5. lobby \subseteq Insts /\ linked \subseteq Players /\ terminated \subseteq Players
      /\ limited \subseteq Players /\ pkeys \subseteq Players
  BY DEF Init
<1>6. /\ saved \in [Insts -> [Players -> {"none", "mute", "chat"}]]
      /\ revived \in [Insts -> SUBSET Players]
  BY <1>2 DEF Init
<1>7. TypeOK
  BY <1>1, <1>2, <1>3, <1>4, <1>5, <1>6 DEF TypeOK
<1> QED BY <1>3, <1>7 DEF BaseInv, PlayerInv

(* A runner goes from one step to another with new locals.                 *)
LEMMA RunnerGoes ==
  ASSUME BaseInv, NEW i \in Insts, NEW from, NEW to \in Steps, Goes(i, from, to),
         NEW c \in Checks, check' = [check EXCEPT ![i] = c], to # "idle" => c.player \in Players
  PROVE  /\ at' \in [Insts -> Steps] /\ check' \in [Insts -> Checks]
         /\ at[i] = from /\ at'[i] = to /\ check'[i] = c
         /\ \A j \in Insts : j # i => at'[j] = at[j] /\ check'[j] = check[j]
         /\ PlayerInv'
<1>1. TypeOK /\ PlayerInv
  BY DEF BaseInv
<1>2. /\ at' \in [Insts -> Steps] /\ at[i] = from /\ at'[i] = to
      /\ \A j \in Insts : j # i => at'[j] = at[j]
  BY <1>1, GoesTyped
<1>3. /\ check' \in [Insts -> Checks] /\ check'[i] = c
      /\ \A j \in Insts : j # i => check'[j] = check[j]
  BY <1>1, CheckTyped
<1>4. "idle" \notin Checking
  BY DEF Checking
<1> QED BY <1>1, <1>2, <1>3, <1>4 DEF PlayerInv

(* What KnownBy and the later stages make of the locals.                   *)
LEMMA RefinedCheck ==
  ASSUME NEW c \in Checks, NEW a \in BOOLEAN, NEW s \in BOOLEAN, NEW m \in BOOLEAN,
         NEW f \in SUBSET FaultPoints
  PROVE  /\ Refined(c, a, s, m, f) \in Checks
         /\ Refined(c, a, s, m, f).player = c.player
         /\ Refined(c, a, s, m, f).account = a /\ Refined(c, a, s, m, f).spec = s
         /\ Refined(c, a, s, m, f).chat = m
         /\ Refined(c, a, s, m, f).failed = c.failed \union f
         /\ Refined(c, a, s, m, f).wasMoved = c.wasMoved
BY DEF Checks, Refined

LEMMA RefinedFields ==
  ASSUME NEW c \in Checks, NEW a, NEW s, NEW m, NEW f
  PROVE  /\ Refined(c, a, s, m, f).player = c.player
         /\ Refined(c, a, s, m, f).wasMoved = c.wasMoved
         /\ Refined(c, a, s, m, f).failed = c.failed \union f
BY DEF Checks, Refined

(* The account is left as it was.                                          *)
LEMMA RefinedTyped ==
  ASSUME NEW c \in Checks, NEW s \in BOOLEAN, NEW m \in BOOLEAN, NEW f \in SUBSET FaultPoints
  PROVE  Refined(c, c.account, s, m, f) \in Checks
BY DEF Checks, Refined

LEMMA RefinedLimit ==
  ASSUME NEW c \in Checks, NEW s \in BOOLEAN, NEW m \in BOOLEAN, NEW f \in SUBSET FaultPoints
  PROVE  LET d == Refined(c, c.account, s, m, f)
         IN (d.account <=> c.account) /\ (d.spec <=> s) /\ (d.chat <=> m)
BY DEF Checks, Refined

LEMMA ChecksFields ==
  ASSUME NEW c \in Checks
  PROVE  /\ c.player \in Players \union {Nobody} /\ c.account \in BOOLEAN /\ c.spec \in BOOLEAN
         /\ c.chat \in BOOLEAN /\ c.failed \subseteq FaultPoints
         /\ c.wasMoved \in {"none", "yes", "no"}
BY DEF Checks

(* What all steps leave of the types but for the steps of a runner.        *)
LEMMA RoomsTyped ==
  ASSUME TypeOK, NEW i \in Insts, NEW p \in Players, NEW v \in Rooms
  PROVE  [room EXCEPT ![i][p] = v] \in [Insts -> [Players -> Rooms]]
<1>1. room \in [Insts -> [Players -> Rooms]]
  BY DEF TypeOK, Rooms
<1> HIDE DEF Rooms
<1> QED BY <1>1, RoomTyped

LEMMA DispatchTyped ==
  ASSUME TypeOK, NEW i \in Insts, NEW p \in Players, NEW v \in {"none", "mute", "chat"}
  PROVE  [dispatch EXCEPT ![i][p] = v] \in [Insts -> [Players -> {"none", "mute", "chat"}]]
<1> DEFINE S == {"none", "mute", "chat"}
<1>1. dispatch \in [Insts -> [Players -> S]] /\ v \in S
  BY DEF TypeOK
<1> HIDE DEF S
<1>2. [dispatch EXCEPT ![i][p] = v] \in [Insts -> [Players -> S]]
  BY <1>1, RoomTyped
<1> QED BY <1>2 DEF S

(* The answers of a check.                                                 *)
LEMMA AnswerBase ==
  ASSUME BaseInv, NEW i \in Insts, at[i] \in Checking, Goes(i, at[i], "idle"),
         Reject(i) \/ \E spec, mayChat \in BOOLEAN : Approve(i, spec, mayChat),
         UNCHANGED <<lobbyVars, tableVars, pkeys, events>>
  PROVE  BaseInv'
<1> DEFINE p == check[i].player
<1>1. TypeOK /\ p \in Players
  BY DEF BaseInv, PlayerInv
<1>2. check' = [check EXCEPT ![i] = NoCheck]
  BY DEF Reject, Approve
<1>3. at' \in [Insts -> Steps] /\ check' \in [Insts -> Checks] /\ PlayerInv'
  BY <1>2, NoCheckTyped, RunnerGoes DEF Steps
<1>4. room' \in [Insts -> [Players -> Rooms]]
  <2>1. \E v \in Rooms : room' = [room EXCEPT ![i][p] = v]
    BY DEF Reject, Approve, Rooms, Approved
  <2> QED BY <1>1, <2>1, RoomsTyped
<1>5. /\ dispatch' \in [Insts -> [Players -> {"none", "mute", "chat"}]]
      /\ chat' \in [Insts -> SUBSET Players] /\ allowed' \in [Insts -> SUBSET Players]
  <2>1. CASE Reject(i)
    BY <1>1, <2>1 DEF Reject, TypeOK
  <2>2. ASSUME NEW spec \in BOOLEAN, NEW mayChat \in BOOLEAN, Approve(i, spec, mayChat)
        PROVE  /\ dispatch' \in [Insts -> [Players -> {"none", "mute", "chat"}]]
               /\ chat' \in [Insts -> SUBSET Players] /\ allowed' \in [Insts -> SUBSET Players]
    <3>1. dispatch' = [dispatch EXCEPT ![i][p] = "chat"] \/ dispatch' = [dispatch EXCEPT ![i][p] = "mute"]
      BY <2>2 DEF Approve
    <3>2. dispatch' \in [Insts -> [Players -> {"none", "mute", "chat"}]]
      <4>1. "mute" \in {"none", "mute", "chat"} /\ "chat" \in {"none", "mute", "chat"}
        OBVIOUS
      <4>2. CASE dispatch' = [dispatch EXCEPT ![i][p] = "chat"]
        BY <1>1, <4>1, <4>2, DispatchTyped
      <4>3. CASE dispatch' = [dispatch EXCEPT ![i][p] = "mute"]
        BY <1>1, <4>1, <4>3, DispatchTyped
      <4> QED BY <3>1, <4>2, <4>3
    <3>3. allowed' \in [Insts -> SUBSET Players]
      <4>1. allowed \in [Insts -> SUBSET Players] /\ allowed[i] \subseteq Players
        BY <1>1 DEF TypeOK
      <4>2. CASE mayChat
        <5>1. allowed' = [allowed EXCEPT ![i] = allowed[i] \union {p}]
          BY <2>2, <4>2 DEF Approve
        <5> QED BY <1>1, <4>1, <5>1
      <4>3. CASE ~mayChat
        <5>1. allowed' = [allowed EXCEPT ![i] = allowed[i] \ {p}]
          BY <2>2, <4>3 DEF Approve
        <5> QED BY <4>1, <5>1
      <4> QED BY <4>2, <4>3
    <3>4. chat' = chat
      BY <2>2 DEF Approve
    <3> QED BY <1>1, <3>2, <3>3, <3>4 DEF TypeOK
  <2> QED BY <2>1, <2>2
<1>6. /\ saved' \in [Insts -> [Players -> {"none", "mute", "chat"}]]
      /\ revived' \in [Insts -> SUBSET Players]
  <2>1. UNCHANGED saved /\ (UNCHANGED revived \/ revived' = [revived EXCEPT ![i] = revived[i] \ {p}])
    BY DEF Reject, Approve
  <2>2. revived \in [Insts -> SUBSET Players] /\ revived[i] \subseteq Players
    BY <1>1 DEF TypeOK
  <2>3. revived' \in [Insts -> SUBSET Players]
    BY <2>1, <2>2
  <2> QED BY <1>1, <2>1, <2>3 DEF TypeOK
<1>7. TypeOK'
  BY <1>1, <1>3, <1>4, <1>5, <1>6 DEF TypeOK, Steps, Rooms
<1> QED BY <1>3, <1>7 DEF BaseInv

(* A check that goes on, with locals c.                                    *)
LEMMA OnwardBase ==
  ASSUME BaseInv, NEW i \in Insts, at[i] \in Checking, NEW to \in Checking, Goes(i, at[i], to),
         NEW c \in Checks, check' = [check EXCEPT ![i] = c], c.player = check[i].player,
         movedOut' \in [Players -> [Insts -> Nat]],
         UNCHANGED <<lobby, tableVars, pkeys, roomVars, events>>
  PROVE  BaseInv'
<1>1. TypeOK /\ c.player \in Players /\ to \in Steps
  BY DEF BaseInv, PlayerInv, Steps
<1>2. at' \in [Insts -> Steps] /\ check' \in [Insts -> Checks] /\ PlayerInv'
  BY <1>1, RunnerGoes
<1>3. TypeOK'
  BY <1>1, <1>2 DEF TypeOK, Steps
<1> QED BY <1>2, <1>3 DEF BaseInv

LEMMA BanTyped ==
  ASSUME TypeOK, NEW p \in Players
  PROVE  \A b \in bans[p] : b \in BanType /\ b.ends \in Nat /\ b.joining \in BOOLEAN
                            /\ b.playing \in BOOLEAN /\ b.chatting \in BOOLEAN
<1>1. bans[p] \subseteq BanType
  BY ConstantFacts DEF TypeOK
<1> QED BY <1>1 DEF BanType

LEMMA KnownFacts ==
  ASSUME NEW i \in Insts, NEW a \in BOOLEAN, NEW s \in BOOLEAN, NEW m \in BOOLEAN,
         NEW f \in SUBSET FaultPoints, KnownBy(i, a, s, m, f)
  PROVE  /\ Goes(i, "bans", AfterBans(i, a))
         /\ check' = [check EXCEPT ![i] = Refined(check[i], a, s, m, f)]
         /\ UNCHANGED roomVars
BY DEF KnownBy

(* A check goes on as KnownBy and the other stages let it.                 *)
LEMMA KnownShape ==
  ASSUME BaseInv, NEW i \in Insts, NEW a \in BOOLEAN, NEW s \in BOOLEAN,
         NEW m \in BOOLEAN, NEW f \in SUBSET FaultPoints, KnownBy(i, a, s, m, f)
  PROVE  /\ UNCHANGED roomVars
         /\ \E to \in Checking, c \in Checks :
              /\ Goes(i, "bans", to) /\ check' = [check EXCEPT ![i] = c] /\ c.player = check[i].player
              /\ c.wasMoved = check[i].wasMoved
<1> DEFINE c == Refined(check[i], a, s, m, f)
<1>1. c \in Checks /\ c.player = check[i].player /\ c.wasMoved = check[i].wasMoved
  BY RefinedCheck DEF BaseInv, TypeOK
<1>2. AfterBans(i, a) \in Checking
  BY DEF AfterBans, Checking
<1>3. Goes(i, "bans", AfterBans(i, a)) /\ check' = [check EXCEPT ![i] = c] /\ UNCHANGED roomVars
  BY KnownFacts
<1> HIDE DEF c
<1> QED BY <1>1, <1>2, <1>3

(* What ReadBans does: the player is refused for a ban of his in force, or *)
(* his account and his bans are known, or the query failed.                *)
LEMMA ReadBansCases ==
  ASSUME BaseInv, NEW i \in Insts, ReadBans(i)
  PROVE  /\ at[i] = "bans" /\ UNCHANGED <<lobbyVars, tableVars, pkeys, events>>
         /\ \/ Goes(i, "bans", "idle") /\ Reject(i)
            \/ \E a, s, m \in BOOLEAN, f \in SUBSET FaultPoints :
                 /\ KnownBy(i, a, s, m, f)
                 /\ a => check[i].player \in linked
                 /\ \/ "bans" \in f
                    \/ bans[check[i].player] = {}
                    \/ \E b \in Longest(check[i].player) :
                         Expired(b) \/ (~b.joining /\ (b.playing => s) /\ (b.chatting => ~m))
<1> DEFINE p == check[i].player
<1>1. TypeOK /\ p \in Players /\ at[i] = "bans" /\ UNCHANGED <<lobbyVars, tableVars, pkeys, events>>
  BY DEF BaseInv, PlayerInv, ReadBans, Checking
<1>2. \A b \in Longest(p) : b.playing \in BOOLEAN /\ b.chatting \in BOOLEAN
  BY <1>1, BanTyped DEF Longest
<1>3. PICK a \in BOOLEAN : a <=> (p \in linked)
  OBVIOUS
<1>4. {} \in SUBSET FaultPoints /\ {"bans"} \in SUBSET FaultPoints
  BY DEF FaultPoints
<1>5. CASE bans[p] = {} /\ KnownBy(i, p \in linked, FALSE, TRUE, {})
  <2>1. KnownBy(i, a, FALSE, TRUE, {})
    BY <1>3, <1>5
  <2> QED BY <1>1, <1>3, <1>4, <1>5, <2>1
<1>6. ASSUME NEW b \in Longest(p), Expired(b), KnownBy(i, p \in linked, FALSE, TRUE, {})
      PROVE  \E m \in BOOLEAN, f \in SUBSET FaultPoints : KnownBy(i, a, FALSE, m, f)
  <2>1. KnownBy(i, a, FALSE, TRUE, {})
    BY <1>3, <1>6
  <2> QED BY <1>4, <2>1
<1>7. ASSUME NEW b \in Longest(p), KnownBy(i, p \in linked, b.playing, ~b.chatting, {})
      PROVE  \E s, m \in BOOLEAN, f \in SUBSET FaultPoints :
               KnownBy(i, a, s, m, f) /\ (b.playing => s) /\ (b.chatting => ~m)
  <2>1. PICK m \in BOOLEAN : m <=> ~b.chatting
    OBVIOUS
  <2>2. KnownBy(i, a, b.playing, m, {})
    BY <1>3, <1>7, <2>1
  <2> QED BY <1>2, <1>4, <2>1, <2>2
<1>8. CASE KnownBy(i, FALSE, FALSE, TRUE, {"bans"})
  BY <1>1, <1>4, <1>8
<1> QED BY <1>1, <1>3, <1>5, <1>6, <1>7, <1>8 DEF ReadBans

(* ReadIsp: the player is refused, or his address is none of a proxy's, or *)
(* the query failed.                                                       *)
LEMMA ReadIspCases ==
  ASSUME BaseInv, NEW i \in Insts, ReadIsp(i)
  PROVE  /\ at[i] = "isp" /\ UNCHANGED <<lobbyVars, tableVars, pkeys, events>>
         /\ \/ Goes(i, "isp", "idle") /\ Reject(i)
            \/ /\ Goes(i, "isp", "prefs") /\ UNCHANGED roomVars
               /\ \E f \in SUBSET FaultPoints :
                    /\ check' = [check EXCEPT ![i] = Refined(check[i], check[i].account,
                                                             check[i].spec, check[i].chat, f)]
                    /\ "isp" \in f \/ check[i].player \notin Proxies
<1> DEFINE c == check[i]
<1>1. c \in Checks /\ check \in [Insts -> Checks]
  BY DEF BaseInv, TypeOK
<1>2. {} \in SUBSET FaultPoints /\ {"isp"} \in SUBSET FaultPoints
  BY DEF FaultPoints
<1>3. Refined(c, c.account, c.spec, c.chat, {}) = c
  BY <1>1 DEF Refined, Checks
<1>4. CASE c \in Checks /\ c.player \notin Proxies
  <2>1. Goes(i, "isp", "prefs") /\ UNCHANGED roomVars /\ check' = check
    BY <1>4 DEF ReadIsp
  <2>2. check' = [check EXCEPT ![i] = c]
    <3> HIDE DEF c
    <3>1. \A f \in [Insts -> Checks] : f = [f EXCEPT ![i] = f[i]]
      OBVIOUS
    <3> QED BY <1>1, <2>1, <3>1 DEF c
  <2> QED BY <1>2, <1>3, <1>4, <2>1, <2>2 DEF ReadIsp
<1>5. CASE c.player \in Proxies
  <2>1. CASE Goes(i, "isp", "idle") /\ Reject(i)
    BY <2>1 DEF ReadIsp
  <2>2. CASE /\ Goes(i, "isp", "prefs") /\ UNCHANGED roomVars
             /\ check' = [check EXCEPT ![i] = Refined(c, c.account, c.spec, c.chat, {"isp"})]
    BY <1>2, <2>2 DEF ReadIsp
  <2> QED BY <1>5, <2>1, <2>2 DEF ReadIsp
<1> QED BY <1>1, <1>4, <1>5

(* ReadLimit: the player is refused for he has no account, or the          *)
(* preferences of the room and his games left early are in the locals.     *)
LEMMA ReadLimitCases ==
  ASSUME BaseInv, NEW i \in Insts, ReadLimit(i)
  PROVE  /\ at[i] = "prefs" /\ UNCHANGED <<lobbyVars, tableVars, pkeys, events>>
         /\ \/ Goes(i, "prefs", "idle") /\ Reject(i)
            \/ /\ Goes(i, "prefs", "moved") /\ UNCHANGED roomVars
               /\ \E s, m \in BOOLEAN, f \in SUBSET FaultPoints :
                    /\ check' = [check EXCEPT ![i] = Refined(check[i], check[i].account, s, m, f)]
                    /\ (check[i].spec => s) /\ (m => check[i].chat)
                    /\ ~check[i].account =>
                         Prefs[i].join /\ (~Prefs[i].play => s) /\ (~Prefs[i].chat => ~m)
                    /\ \/ "limited" \in f
                       \/ check[i].player \in limited \intersect pkeys => s
<1> DEFINE c        == check[i]
           unlinked == ~c.account
           found    == c.player \in limited /\ (c.player \in pkeys \/ c.account)
<1>1. c \in Checks
  BY DEF BaseInv, TypeOK
<1>2. {} \in SUBSET FaultPoints /\ {"limited"} \in SUBSET FaultPoints
  BY DEF FaultPoints
<1>3. PICK m \in BOOLEAN : m <=> (c.chat /\ ~(unlinked /\ ~Prefs[i].chat))
  OBVIOUS
<1>4. at[i] = "prefs" /\ UNCHANGED <<lobbyVars, tableVars, pkeys, events>>
  BY DEF ReadLimit, Goes
<1>5. ASSUME NEW limit \in BOOLEAN, NEW f \in SUBSET FaultPoints, c.account \/ Prefs[i].join,
             Goes(i, "prefs", "moved"), UNCHANGED roomVars,
             limit \/ "limited" \in f \/ ~found,
             check' = [check EXCEPT ![i] =
                         Refined(c, c.account, c.spec \/ (unlinked /\ ~Prefs[i].play) \/ limit,
                                 c.chat /\ ~(unlinked /\ ~Prefs[i].chat), f)]
      PROVE  \E s \in BOOLEAN :
               /\ check' = [check EXCEPT ![i] = Refined(c, c.account, s, m, f)]
               /\ (c.spec => s) /\ (m => c.chat)
               /\ ~c.account => Prefs[i].join /\ (~Prefs[i].play => s) /\ (~Prefs[i].chat => ~m)
               /\ \/ "limited" \in f
                  \/ c.player \in limited \intersect pkeys => s
  <2>1. PICK s \in BOOLEAN : s <=> (c.spec \/ (unlinked /\ ~Prefs[i].play) \/ limit)
    OBVIOUS
  <2>2. check' = [check EXCEPT ![i] = Refined(c, c.account, s, m, f)]
    <3> HIDE DEF c, unlinked
    <3> QED BY <1>3, <1>5, <2>1
  <2>3. (c.spec => s) /\ (m => c.chat)
    BY <1>3, <2>1
  <2>4. ~c.account => Prefs[i].join /\ (~Prefs[i].play => s) /\ (~Prefs[i].chat => ~m)
    BY <1>3, <1>5, <2>1
  <2>5. "limited" \in f \/ (c.player \in limited \intersect pkeys => s)
    BY <1>5, <2>1
  <2> QED BY <2>2, <2>3, <2>4, <2>5
<1>6. CASE Goes(i, "prefs", "idle") /\ Reject(i)
  BY <1>4, <1>6
<1>7. ASSUME NEW limit \in BOOLEAN, NEW f \in SUBSET FaultPoints, c.account \/ Prefs[i].join,
             Goes(i, "prefs", "moved"), UNCHANGED roomVars,
             limit \/ "limited" \in f \/ ~found,
             check' = [check EXCEPT ![i] =
                         Refined(c, c.account, c.spec \/ (unlinked /\ ~Prefs[i].play) \/ limit,
                                 c.chat /\ ~(unlinked /\ ~Prefs[i].chat), f)]
      PROVE  /\ Goes(i, "prefs", "moved") /\ UNCHANGED roomVars
             /\ \E s \in BOOLEAN :
                  /\ check' = [check EXCEPT ![i] = Refined(c, c.account, s, m, f)]
                  /\ (c.spec => s) /\ (m => c.chat)
                  /\ ~c.account => Prefs[i].join /\ (~Prefs[i].play => s) /\ (~Prefs[i].chat => ~m)
                  /\ \/ "limited" \in f
                     \/ c.player \in limited \intersect pkeys => s
  BY <1>5, <1>7
<1>8. PICK limit \in BOOLEAN : limit <=> found
  OBVIOUS
<1>9. CASE /\ c.account \/ Prefs[i].join
           /\ Goes(i, "prefs", "moved") /\ UNCHANGED roomVars
           /\ check' = [check EXCEPT ![i] =
                          Refined(c, c.account, c.spec \/ (unlinked /\ ~Prefs[i].play) \/ found,
                                  c.chat /\ ~(unlinked /\ ~Prefs[i].chat), {})]
  <2>1. check' = [check EXCEPT ![i] =
                    Refined(c, c.account, c.spec \/ (unlinked /\ ~Prefs[i].play) \/ limit,
                            c.chat /\ ~(unlinked /\ ~Prefs[i].chat), {})]
    <3> HIDE DEF c, found, unlinked
    <3> QED BY <1>8, <1>9
  <2> QED BY <1>2, <1>4, <1>7, <1>8, <1>9, <2>1
<1>10. CASE /\ c.account \/ Prefs[i].join
            /\ Goes(i, "prefs", "moved") /\ UNCHANGED roomVars
            /\ check' = [check EXCEPT ![i] =
                           Refined(c, c.account, c.spec \/ (unlinked /\ ~Prefs[i].play) \/ FALSE,
                                   c.chat /\ ~(unlinked /\ ~Prefs[i].chat), {"limited"})]
  BY <1>2, <1>4, <1>7, <1>10
<1> QED BY <1>6, <1>9, <1>10 DEF ReadLimit

(* WasMovedOut: the answer of the map of moved players is in the locals.   *)
LEMMA WasMovedOutCases ==
  ASSUME BaseInv, NEW i \in Insts, WasMovedOut(i)
  PROVE  /\ Goes(i, "moved", "last") /\ at[i] = "moved" /\ movedOut' = cleanup(movedOut)
         /\ UNCHANGED <<lobby, tableVars, pkeys, roomVars, events>>
         /\ \E c \in Checks :
              /\ check' = [check EXCEPT ![i] = c]
              /\ c.player = check[i].player /\ c.account = check[i].account
              /\ c.chat = check[i].chat /\ c.failed = check[i].failed
              /\ c.spec <=> (check[i].spec \/ present(check[i].player, i))
              /\ c.wasMoved = IF present(check[i].player, i) THEN "yes" ELSE "no"
<1> DEFINE p == check[i].player
           c == Told(check[i], present(p, i))
<1>1. check[i] \in Checks
  BY DEF BaseInv, TypeOK
<1>2. /\ Goes(i, "moved", "last") /\ at[i] = "moved" /\ movedOut' = cleanup(movedOut)
      /\ UNCHANGED <<lobby, tableVars, pkeys, roomVars, events>>
      /\ check' = [check EXCEPT ![i] = c]
  BY DEF WasMovedOut, Goes
<1>3. PICK t \in BOOLEAN : t <=> present(p, i)
  OBVIOUS
<1>4. c \in Checks
  <2>1. (IF present(p, i) THEN "yes" ELSE "no") \in {"none", "yes", "no"}
    OBVIOUS
  <2>2. (check[i].spec \/ present(p, i)) \in BOOLEAN
    OBVIOUS
  <2> HIDE DEF p
  <2> QED BY <1>1, <2>1, <2>2 DEF Checks, Told
<1>5. /\ c.player = p /\ c.account = check[i].account /\ c.chat = check[i].chat
      /\ c.failed = check[i].failed /\ (c.spec <=> (check[i].spec \/ present(p, i)))
      /\ c.wasMoved = IF present(p, i) THEN "yes" ELSE "no"
  BY <1>1 DEF Checks, Told
<1> HIDE DEF c
<1> QED BY <1>2, <1>4, <1>5

(* ReadTerminated: the answer.                                             *)
LEMMA ReadTerminatedCases ==
  ASSUME BaseInv, NEW i \in Insts, ReadTerminated(i)
  PROVE  /\ Goes(i, "last", "idle") /\ at[i] = "last"
         /\ UNCHANGED <<lobbyVars, tableVars, pkeys, events>>
         /\ \E s, m \in BOOLEAN :
              /\ Approve(i, s, m)
              /\ (check[i].spec => s) /\ (m => check[i].chat)
              /\ ~check[i].account /\ check[i].player \in MutedIPs => ~m
              /\ \/ "terminated" \in Faults
                 \/ check[i].player \in linked \intersect terminated \intersect pkeys => s
<1> DEFINE c     == check[i]
           found == c.player \in linked \intersect terminated \intersect pkeys
           muted == ~c.account /\ checkIPmuted(c.player)
<1>1. /\ Goes(i, "last", "idle") /\ at[i] = "last"
      /\ UNCHANGED <<lobbyVars, tableVars, pkeys, events>>
  BY DEF ReadTerminated, Goes
<1>2. c.spec \in BOOLEAN
  <2>1. c \in Checks
    BY DEF BaseInv, TypeOK
  <2> QED BY <2>1 DEF Checks
<1>3. PICK m \in BOOLEAN : m <=> (c.chat /\ ~muted)
  OBVIOUS
<1>4. PICK s \in BOOLEAN : s <=> (c.spec \/ found)
  OBVIOUS
<1>5. CASE Approve(i, c.spec \/ found, c.chat /\ ~muted)
  <2>1. Approve(i, s, m)
    <3> HIDE DEF c, found, muted
    <3> QED BY <1>3, <1>4, <1>5
  <2> QED BY <1>1, <1>3, <1>4, <2>1 DEF checkIPmuted
<1>6. CASE "terminated" \in Faults /\ Approve(i, c.spec, c.chat /\ ~muted)
  <2>1. Approve(i, c.spec, m)
    <3> HIDE DEF c, muted
    <3> QED BY <1>3, <1>6
  <2> QED BY <1>1, <1>2, <1>3, <1>6, <2>1 DEF checkIPmuted
<1> QED BY <1>5, <1>6 DEF ReadTerminated

(* A step of a runner: the answer, or the check goes on.                   *)
LEMMA StepShape ==
  ASSUME BaseInv, NEW i \in Insts, Step(i)
  PROVE  /\ at[i] \in Checking /\ UNCHANGED <<lobby, tableVars, pkeys, events>>
         /\ movedOut' \in {movedOut, cleanup(movedOut)}
         /\ \/ /\ Goes(i, at[i], "idle") /\ UNCHANGED movedOut
               /\ Reject(i) \/ \E s, m \in BOOLEAN : Approve(i, s, m)
            \/ /\ UNCHANGED roomVars
               /\ \E to \in Checking, c \in Checks :
                    /\ Goes(i, at[i], to) /\ check' = [check EXCEPT ![i] = c]
                    /\ c.player = check[i].player
                    /\ WasMovedOut(i) \/ (c.wasMoved = check[i].wasMoved /\ UNCHANGED movedOut)
<1>1. check[i] \in Checks /\ {"bans", "isp", "prefs", "moved", "last"} \subseteq Checking
  BY DEF BaseInv, TypeOK, Checking
<1>2. check[i].account \in BOOLEAN /\ check[i].spec \in BOOLEAN /\ check[i].chat \in BOOLEAN
  BY <1>1, ChecksFields
<1>3. CASE ReadBans(i)
  <2>1. at[i] = "bans" /\ UNCHANGED <<lobbyVars, tableVars, pkeys, events>>
    BY <1>3, ReadBansCases
  <2>2. CASE Goes(i, "bans", "idle") /\ Reject(i)
    BY <1>1, <2>1, <2>2
  <2>3. ASSUME NEW a \in BOOLEAN, NEW s \in BOOLEAN, NEW m \in BOOLEAN, NEW f \in SUBSET FaultPoints,
               KnownBy(i, a, s, m, f)
        PROVE  /\ UNCHANGED roomVars
               /\ \E to \in Checking, c \in Checks :
                    /\ Goes(i, "bans", to) /\ check' = [check EXCEPT ![i] = c]
                    /\ c.player = check[i].player /\ c.wasMoved = check[i].wasMoved
    BY <2>3, KnownShape
  <2> QED BY <1>1, <1>3, <2>1, <2>2, <2>3, ReadBansCases
<1>4. CASE ReadIsp(i)
  <2>1. at[i] = "isp" /\ UNCHANGED <<lobbyVars, tableVars, pkeys, events>>
    BY <1>4, ReadIspCases
  <2>2. ASSUME NEW f \in SUBSET FaultPoints
        PROVE  LET c == Refined(check[i], check[i].account, check[i].spec, check[i].chat, f)
               IN c \in Checks /\ c.player = check[i].player /\ c.wasMoved = check[i].wasMoved
    BY <1>1, <1>2, RefinedCheck
  <2> QED BY <1>1, <1>4, <2>1, <2>2, ReadIspCases
<1>5. CASE ReadLimit(i)
  <2>1. at[i] = "prefs" /\ UNCHANGED <<lobbyVars, tableVars, pkeys, events>>
    BY <1>5, ReadLimitCases
  <2>2. ASSUME NEW s \in BOOLEAN, NEW m \in BOOLEAN, NEW f \in SUBSET FaultPoints
        PROVE  LET c == Refined(check[i], check[i].account, s, m, f)
               IN c \in Checks /\ c.player = check[i].player /\ c.wasMoved = check[i].wasMoved
    <3> DEFINE c == Refined(check[i], check[i].account, s, m, f)
    <3>1. c \in Checks
      BY <1>1, RefinedTyped
    <3>2. c.player = check[i].player /\ c.wasMoved = check[i].wasMoved
      BY <1>1, RefinedFields
    <3> QED BY <3>1, <3>2
  <2> QED BY <1>1, <1>5, <2>1, <2>2, ReadLimitCases
<1>6. CASE WasMovedOut(i)
  BY <1>1, <1>6, WasMovedOutCases
<1>7. CASE ReadTerminated(i)
  BY <1>1, <1>7, ReadTerminatedCases
<1> QED BY <1>3, <1>4, <1>5, <1>6, <1>7 DEF Step

LEMMA StepBase ==
  ASSUME BaseInv, NEW i \in Insts, Step(i)
  PROVE  BaseInv'
<1>1. /\ at[i] \in Checking /\ UNCHANGED <<lobby, tableVars, pkeys, events>>
      /\ movedOut' \in [Players -> [Insts -> Nat]]
  BY StepShape DEF BaseInv, TypeOK, cleanup
<1> QED BY <1>1, StepShape, AnswerBase, OnwardBase

(* What may change of a room when no check is touched.                     *)
LEMMA RoomBase ==
  ASSUME BaseInv, UNCHANGED <<lobby, tableVars, pkeys, runnerVars, events>>,
         movedOut' \in [Players -> [Insts -> Nat]],
         room' \in [Insts -> [Players -> Rooms]], chat' \in [Insts -> SUBSET Players],
         dispatch' \in [Insts -> [Players -> {"none", "mute", "chat"}]],
         saved' \in [Insts -> [Players -> {"none", "mute", "chat"}]], UNCHANGED <<allowed, revived>>
  PROVE  BaseInv'
<1>1. TypeOK'
  BY DEF BaseInv, TypeOK, Rooms
<1>2. PlayerInv'
  BY DEF BaseInv, PlayerInv
<1> QED BY <1>1, <1>2 DEF BaseInv

LEMMA SaveBase ==
  ASSUME BaseInv, NEW i \in Insts, HandleLobbyId(i) \/ LeaveLobby(i)
  PROVE  BaseInv'
<1>1. /\ dispatch \in [Insts -> [Players -> {"none", "mute", "chat"}]]
      /\ saved \in [Insts -> [Players -> {"none", "mute", "chat"}]]
  BY DEF BaseInv, TypeOK
<1>2. saved' = [saved EXCEPT ![i] = dispatch[i]]
  BY DEF HandleLobbyId, LeaveLobby, recoverSave
<1>3. saved' \in [Insts -> [Players -> {"none", "mute", "chat"}]]
  BY <1>1, <1>2
<1>4. /\ UNCHANGED <<movedOut, tableVars, pkeys, runnerVars, events, room, chat, dispatch, allowed, revived>>
      /\ lobby' = lobby \union {i} \/ lobby' = lobby \ {i}
  BY DEF HandleLobbyId, LeaveLobby, recoverSave
<1>5. TypeOK'
  BY <1>3, <1>4 DEF BaseInv, TypeOK
<1>6. PlayerInv'
  BY <1>4 DEF BaseInv, PlayerInv
<1> QED BY <1>5, <1>6 DEF BaseInv

LEMMA JoinApprovalBase ==
  ASSUME BaseInv, NEW i \in Insts, NEW p \in Players, JoinApproval(i, p)
  PROVE  BaseInv'
<1>1. TypeOK /\ "idle" \in Steps /\ "bans" \in Steps /\ "ban" \in Rooms
  BY DEF BaseInv, Steps, Rooms, Checking
<1>2. pkeys' \subseteq Players /\ UNCHANGED <<lobbyVars, tableVars, events>>
  BY <1>1 DEF JoinApproval, pubkeyDiscovery, TypeOK
<1>3. CASE /\ Goes(i, "idle", "bans") /\ UNCHANGED roomVars
           /\ check' = [check EXCEPT ![i] = [NoCheck EXCEPT !.player = p]]
  <2>1. [NoCheck EXCEPT !.player = p] \in Checks /\ [NoCheck EXCEPT !.player = p].player = p
    BY NoCheckTyped DEF NoCheck
  <2>2. at' \in [Insts -> Steps] /\ check' \in [Insts -> Checks] /\ PlayerInv'
    BY <1>1, <1>3, <2>1, RunnerGoes
  <2>3. TypeOK'
    BY <1>1, <1>2, <1>3, <2>2 DEF TypeOK, Steps
  <2> QED BY <2>2, <2>3 DEF BaseInv
<1>4. CASE /\ Goes(i, "idle", "idle") /\ room' = [room EXCEPT ![i][p] = "ban"]
           /\ UNCHANGED <<check, chat, dispatch, allowed, fileVars>>
  <2>1. room' \in [Insts -> [Players -> Rooms]]
    BY <1>1, <1>4, RoomsTyped
  <2>2. at' = at
    BY <1>1, <1>4 DEF Goes, TypeOK
  <2>3. TypeOK'
    BY <1>1, <1>2, <1>4, <2>1, <2>2 DEF TypeOK, Rooms
  <2>4. PlayerInv'
    BY <1>4, <2>2 DEF BaseInv, PlayerInv
  <2> QED BY <2>3, <2>4 DEF BaseInv
<1> QED BY <1>3, <1>4 DEF JoinApproval

LEMMA PlayerJoinsBase ==
  ASSUME BaseInv, NEW i \in Insts, NEW p \in Players, PlayerJoins(i, p)
  PROVE  BaseInv'
<1>1. TypeOK /\ "in" \in Rooms
  BY DEF BaseInv, Rooms
<1>2. room' \in [Insts -> [Players -> Rooms]]
  <2>1. room' = [room EXCEPT ![i][p] = "in"]
    BY DEF PlayerJoins
  <2> QED BY <1>1, <2>1, RoomsTyped
<1>3. chat' \in [Insts -> SUBSET Players]
  <2>1. chat' = chat \/ chat' = [chat EXCEPT ![i] = chat[i] \union {p}]
    BY DEF PlayerJoins
  <2>2. chat \in [Insts -> SUBSET Players]
    BY <1>1 DEF TypeOK
  <2> QED BY <2>1, <2>2
<1>4. dispatch' \in [Insts -> [Players -> {"none", "mute", "chat"}]]
  <2>1. PICK old \in SUBSET Players : dispatch' = [dispatch EXCEPT ![i] =
          [q \in Players |-> IF q = p \/ q \in old THEN "none" ELSE dispatch[i][q]]]
    BY DEF PlayerJoins
  <2>2. dispatch \in [Insts -> [Players -> {"none", "mute", "chat"}]]
    BY <1>1 DEF TypeOK
  <2>3. [q \in Players |-> IF q = p \/ q \in old THEN "none" ELSE dispatch[i][q]]
          \in [Players -> {"none", "mute", "chat"}]
    BY <2>2
  <2> QED BY <2>1, <2>2, <2>3
<1>5. /\ movedOut' \in [Players -> [Insts -> Nat]] /\ UNCHANGED <<allowed, revived>>
      /\ UNCHANGED <<lobby, tableVars, pkeys, runnerVars, events>>
      /\ saved' \in [Insts -> [Players -> {"none", "mute", "chat"}]]
  BY <1>1 DEF PlayerJoins, TypeOK
<1> QED BY <1>2, <1>3, <1>4, <1>5, RoomBase

LEMMA RoomActionsBase ==
  ASSUME BaseInv, NEW i \in Insts, NEW p \in Players, Blacklisted(i, p) \/ PlayerLeaves(i, p)
  PROVE  BaseInv'
<1>1. TypeOK /\ "out" \in Rooms /\ "ban" \in Rooms
  BY DEF BaseInv, Rooms
<1>2. room' \in [Insts -> [Players -> Rooms]]
  <2>1. room' = [room EXCEPT ![i][p] = "ban"] \/ room' = [room EXCEPT ![i][p] = "out"]
    BY DEF Blacklisted, PlayerLeaves
  <2> QED BY <1>1, <2>1, RoomsTyped
<1>3. /\ chat' \in [Insts -> SUBSET Players]
      /\ dispatch' \in [Insts -> [Players -> {"none", "mute", "chat"}]]
      /\ movedOut' \in [Players -> [Insts -> Nat]]
      /\ UNCHANGED <<lobby, tableVars, pkeys, runnerVars, events, allowed, revived>>
      /\ saved' \in [Insts -> [Players -> {"none", "mute", "chat"}]]
  <2>1. chat' = [chat EXCEPT ![i] = chat[i] \ {p}]
    BY DEF Blacklisted, PlayerLeaves
  <2>2. chat \in [Insts -> SUBSET Players]
    BY <1>1 DEF TypeOK
  <2>3. chat' \in [Insts -> SUBSET Players]
    BY <2>1, <2>2
  <2> QED BY <1>1, <2>3 DEF Blacklisted, PlayerLeaves, TypeOK
<1> QED BY <1>2, <1>3, RoomBase

LEMMA MovesBase ==
  ASSUME BaseInv, NEW i \in Insts, NEW p \in Players,
         MovedPlayerToSpec(i, p) \/ MovedSpecToPlayer(i, p)
  PROVE  BaseInv'
<1>1. TypeOK /\ movedOut \in [Players -> [Insts -> Nat]]
  BY DEF BaseInv, TypeOK
<1>2. movedOut' \in [Players -> [Insts -> Nat]]
  <2>1. add(p, i) \in [Players -> [Insts -> Nat]]
    BY <1>1, MovesTyped DEF add
  <2>2. cleanup(movedOut) \in [Players -> [Insts -> Nat]]
    BY <1>1, MovesTyped
  <2>3. [cleanup(movedOut) EXCEPT ![p][i] = 0] \in [Players -> [Insts -> Nat]]
    BY <2>2, MovesTyped
  <2>4. remove(p, i) \in {cleanup(movedOut), [cleanup(movedOut) EXCEPT ![p][i] = 0]}
    BY DEF remove
  <2> QED BY <2>1, <2>2, <2>3, <2>4 DEF MovedPlayerToSpec, MovedSpecToPlayer
<1>3. /\ room' \in [Insts -> [Players -> Rooms]] /\ chat' \in [Insts -> SUBSET Players]
      /\ dispatch' \in [Insts -> [Players -> {"none", "mute", "chat"}]]
      /\ UNCHANGED <<lobby, tableVars, pkeys, runnerVars, events, allowed, revived>>
      /\ saved' \in [Insts -> [Players -> {"none", "mute", "chat"}]]
  BY <1>1 DEF MovedPlayerToSpec, MovedSpecToPlayer, TypeOK, Rooms
<1> QED BY <1>2, <1>3, RoomBase

LEMMA OthersBase ==
  ASSUME BaseInv, TableChange \/ Tick \/ Restart
  PROVE  BaseInv'
<1>1. TypeOK /\ PlayerInv
  BY DEF BaseInv
<1>2. CASE TableChange
  <2>1. events' \in 0..MaxEvents
    BY <1>1, <1>2, ConstantFacts DEF TableChange, TypeOK
  <2>2. bans' \in [Players -> SUBSET Bans] /\ linked' \subseteq Players
        /\ terminated' \subseteq Players /\ limited' \subseteq Players
    BY <1>1, <1>2 DEF TableChange, TypeOK
  <2>3. TypeOK'
    BY <1>1, <1>2, <2>1, <2>2 DEF TableChange, TypeOK
  <2>4. PlayerInv'
    BY <1>1, <1>2 DEF TableChange, PlayerInv
  <2> QED BY <2>3, <2>4 DEF BaseInv
<1>3. CASE Tick
  <2>1. now' \in 0..MaxTime
    BY <1>1, <1>3, ConstantFacts DEF Tick, TypeOK
  <2>2. TypeOK'
    BY <1>1, <1>3, <2>1 DEF Tick, TypeOK
  <2>3. PlayerInv'
    BY <1>1, <1>3 DEF Tick, PlayerInv
  <2> QED BY <2>2, <2>3 DEF BaseInv
<1>4. CASE Restart
  <2>1. events' \in 0..MaxEvents
    BY <1>1, <1>4, ConstantFacts DEF Restart, TypeOK
  <2>2. /\ check' \in [Insts -> Checks] /\ at' \in [Insts -> Checking \union {"idle"}]
        /\ dispatch' \in [Insts -> [Players -> {"none", "mute", "chat"}]]
        /\ movedOut' \in [Players -> [Insts -> Nat]] /\ revived' \in [Insts -> SUBSET Players]
    <3>1. /\ saved \in [Insts -> [Players -> {"none", "mute", "chat"}]] /\ dispatch' = saved
          /\ revived \in [Insts -> SUBSET Players]
      BY <1>1, <1>4 DEF Restart, TypeOK
    <3>2. revived' \in [Insts -> SUBSET Players]
      BY <1>4, <3>1 DEF Restart
    <3> QED BY <1>4, <3>1, <3>2, NoCheckTyped DEF Restart
  <2>3. TypeOK'
    BY <1>1, <1>4, <2>1, <2>2 DEF Restart, TypeOK
  <2>4. PlayerInv'
    BY <1>4 DEF Restart, PlayerInv, Checking
  <2> QED BY <2>3, <2>4 DEF BaseInv
<1> QED BY <1>2, <1>3, <1>4

LEMMA BaseStep ==
  ASSUME BaseInv, [Next]_vars
  PROVE  BaseInv'
<1>1. ASSUME NEW i \in Insts, Step(i) PROVE BaseInv'
  BY <1>1, StepBase
<1>2. ASSUME NEW i \in Insts, Line(i) PROVE BaseInv'
  BY <1>2, SaveBase, JoinApprovalBase, PlayerJoinsBase, RoomActionsBase, MovesBase DEF Line
<1>3. CASE TableChange \/ Tick \/ Restart
  BY <1>3, OthersBase
<1>4. CASE UNCHANGED vars
  BY <1>4 DEF BaseInv, TypeOK, PlayerInv
<1> QED BY <1>1, <1>2, <1>3, <1>4 DEF Next

LEMMA BaseAlways == Spec => []BaseInv
BY BaseInit, BaseStep, PTL DEF Spec

(* Every variable of the join filter keeps its type.                       *)
THEOREM TypeCorrect == Spec => []TypeOK
<1>1. BaseInv => TypeOK
  BY DEF BaseInv
<1> QED BY <1>1, BaseAlways, PTL

-----------------------------------------------------------------------------
(* The right to chat.  Who may chat is in the room, so he is not one whose *)
(* join is being checked, and a new approval does not concern him; and a   *)
(* dispatch that grants the chat is that of the last approval, unless it   *)
(* came back from the file.                                                *)
ChatInv ==
  \A i \in Insts :
    /\ chat[i] \subseteq allowed[i] \union revived[i]
    /\ \A p \in chat[i] : room[i][p] = "in"
    /\ \A p \in Players : dispatch[i][p] = "chat" => p \in allowed[i] \union revived[i]
    /\ at[i] \in Checking => room[i][check[i].player] # "in"

LEMMA ChatInit == Init => ChatInv
<1>1. "idle" \notin Checking
  BY DEF Checking
<1>2. ASSUME Init, NEW i \in Insts
      PROVE  /\ chat[i] = {} /\ allowed[i] = {} /\ at[i] = "idle"
             /\ \A p \in Players : dispatch[i][p] = "none"
  <2>1. dispatch[i] = NoDispatch
    BY <1>2 DEF Init
  <2>2. \A p \in Players : NoDispatch[p] = "none"
    BY DEF NoDispatch
  <2> QED BY <1>2, <2>1, <2>2 DEF Init
<1> QED BY <1>1, <1>2 DEF ChatInv

LEMMA RoomIsTyped == TypeOK => room \in [Insts -> [Players -> Rooms]]
BY DEF TypeOK, Rooms

LEMMA ChatAnswer ==
  ASSUME BaseInv, ChatInv, NEW i \in Insts, at[i] \in Checking, Goes(i, at[i], "idle"),
         Reject(i) \/ \E s, m \in BOOLEAN : Approve(i, s, m)
  PROVE  ChatInv'
<1> DEFINE p == check[i].player
<1>1. TypeOK /\ p \in Players
  BY DEF BaseInv, PlayerInv
<1>2. /\ chat \in [Insts -> SUBSET Players] /\ allowed \in [Insts -> SUBSET Players]
      /\ dispatch \in [Insts -> [Players -> {"none", "mute", "chat"}]]
      /\ check \in [Insts -> Checks] /\ at \in [Insts -> Steps]
  BY <1>1 DEF TypeOK, Steps
<1>3. PICK v \in Rooms : v # "in" /\ room' = [room EXCEPT ![i][p] = v]
  BY DEF Reject, Approve, Rooms, Approved
<1>4. /\ chat' = chat /\ check' = [check EXCEPT ![i] = NoCheck] /\ p \notin chat[i]
      /\ \A q \in chat[i] : q # p
  BY DEF Reject, Approve, ChatInv
<1>5. /\ \A j \in Insts : j # i => room'[j] = room[j] /\ at'[j] = at[j] /\ check'[j] = check[j]
      /\ at'[i] = "idle"
      /\ \A q \in Players : q # p => room'[i][q] = room[i][q]
  <2>1. at' = [at EXCEPT ![i] = "idle"] /\ room \in [Insts -> [Players -> Rooms]]
    BY <1>1, RoomIsTyped DEF Goes
  <2> QED BY <1>1, <1>2, <1>3, <1>4, <2>1
<1>6. /\ \A j \in Insts : j # i => allowed'[j] = allowed[j] /\ dispatch'[j] = dispatch[j]
                                     /\ revived'[j] = revived[j]
      /\ \A q \in Players : q # p => (q \in allowed'[i] <=> q \in allowed[i])
                                     /\ dispatch'[i][q] = dispatch[i][q]
                                     /\ (q \in revived'[i] <=> q \in revived[i])
      /\ dispatch'[i][p] = "chat" => p \in allowed'[i] \union revived'[i]
  <2>1. CASE Reject(i)
    BY <1>1, <2>1 DEF Reject, ChatInv
  <2>6. revived \in [Insts -> SUBSET Players]
    BY <1>1 DEF TypeOK
  <2>7. ASSUME NEW s \in BOOLEAN, NEW m \in BOOLEAN, Approve(i, s, m)
        PROVE  revived' = [revived EXCEPT ![i] = revived[i] \ {p}]
    BY <2>7 DEF Approve
  <2>2. ASSUME NEW s \in BOOLEAN, Approve(i, s, TRUE)
        PROVE  dispatch' = [dispatch EXCEPT ![i][p] = "chat"]
               /\ allowed' = [allowed EXCEPT ![i] = allowed[i] \union {p}]
    BY <2>2 DEF Approve
  <2>3. ASSUME NEW s \in BOOLEAN, Approve(i, s, FALSE)
        PROVE  dispatch' = [dispatch EXCEPT ![i][p] = "mute"]
               /\ allowed' = [allowed EXCEPT ![i] = allowed[i] \ {p}]
    BY <2>3 DEF Approve
  <2>4. CASE \E s \in BOOLEAN : Approve(i, s, TRUE)
    <3>1. dispatch' = [dispatch EXCEPT ![i][p] = "chat"]
          /\ allowed' = [allowed EXCEPT ![i] = allowed[i] \union {p}]
      BY <2>2, <2>4
    <3>2. revived' = [revived EXCEPT ![i] = revived[i] \ {p}]
      BY <2>4, <2>7
    <3> QED BY <1>1, <1>2, <2>6, <3>1, <3>2
  <2>5. CASE \E s \in BOOLEAN : Approve(i, s, FALSE)
    <3>1. dispatch' = [dispatch EXCEPT ![i][p] = "mute"]
          /\ allowed' = [allowed EXCEPT ![i] = allowed[i] \ {p}]
      BY <2>3, <2>5
    <3>2. revived' = [revived EXCEPT ![i] = revived[i] \ {p}]
      BY <2>5, <2>7
    <3> QED BY <1>1, <1>2, <2>6, <3>1, <3>2
  <2> QED BY <2>1, <2>4, <2>5
<1>7. "idle" \notin Checking /\ chat[i] \subseteq Players
  BY <1>2 DEF Checking
<1> QED BY <1>1, <1>4, <1>5, <1>6, <1>7 DEF ChatInv

LEMMA ChatStep ==
  ASSUME BaseInv, ChatInv, NEW i \in Insts, Step(i)
  PROVE  ChatInv'
<1>1. at[i] \in Checking /\ TypeOK
  BY StepShape DEF BaseInv
<1>2. ASSUME UNCHANGED roomVars, NEW to \in Checking, NEW c \in Checks, Goes(i, at[i], to),
             check' = [check EXCEPT ![i] = c], c.player = check[i].player
      PROVE  ChatInv'
  <2>1. /\ check'[i].player = check[i].player
        /\ \A j \in Insts : j # i => at'[j] = at[j] /\ check'[j] = check[j]
    BY <1>1, <1>2, GoesTyped, CheckTyped DEF Steps
  <2> QED BY <1>1, <1>2, <2>1 DEF ChatInv
<1> QED BY <1>1, <1>2, StepShape, ChatAnswer

LEMMA ChatJoins ==
  ASSUME BaseInv, ChatInv, NEW i \in Insts, NEW p \in Players, PlayerJoins(i, p)
  PROVE  ChatInv'
<1>1. /\ TypeOK /\ chat \in [Insts -> SUBSET Players]
      /\ dispatch \in [Insts -> [Players -> {"none", "mute", "chat"}]]
  BY DEF BaseInv, TypeOK
<1>2. /\ room' = [room EXCEPT ![i][p] = "in"] /\ at[i] = "idle" /\ UNCHANGED <<at, check, allowed, revived>>
      /\ chat' = IF dispatch[i][p] = "chat" THEN [chat EXCEPT ![i] = @ \union {p}] ELSE chat
  BY DEF PlayerJoins
<1>3. /\ room'[i][p] = "in" /\ \A q \in Players : q # p => room'[i][q] = room[i][q]
      /\ \A j \in Insts : j # i => room'[j] = room[j]
  <2>1. room \in [Insts -> [Players -> Rooms]]
    BY <1>1, RoomIsTyped
  <2> QED BY <1>2, <2>1
<1>4. /\ \A q \in chat'[i] : q \in chat[i] \/ (q = p /\ dispatch[i][p] = "chat")
      /\ \A j \in Insts : j # i => chat'[j] = chat[j]
      /\ chat[i] \subseteq Players
  BY <1>1, <1>2
<1>5. \A j \in Insts, q \in Players : dispatch'[j][q] = "chat" => dispatch[j][q] = "chat"
  <2>1. PICK old \in SUBSET Players : dispatch' = [dispatch EXCEPT ![i] =
          [q \in Players |-> IF q = p \/ q \in old THEN "none" ELSE dispatch[i][q]]]
    BY DEF PlayerJoins
  <2> QED BY <1>1, <2>1
<1>6. "idle" \notin Checking
  BY DEF Checking
<1> QED BY <1>2, <1>3, <1>4, <1>5, <1>6 DEF ChatInv

LEMMA ChatGone ==
  ASSUME BaseInv, ChatInv, NEW i \in Insts, NEW p \in Players, Blacklisted(i, p) \/ PlayerLeaves(i, p)
  PROVE  ChatInv'
<1>1. TypeOK /\ chat \in [Insts -> SUBSET Players]
  BY DEF BaseInv, TypeOK
<1>2. /\ UNCHANGED <<at, check, dispatch, allowed, revived>>
      /\ chat' = [chat EXCEPT ![i] = chat[i] \ {p}]
  BY DEF Blacklisted, PlayerLeaves
<1>3. PICK v \in Rooms : v # "in" /\ room' = [room EXCEPT ![i][p] = v]
  BY DEF Blacklisted, PlayerLeaves, Rooms
<1>4. /\ room'[i][p] # "in" /\ \A q \in Players : q # p => room'[i][q] = room[i][q]
      /\ \A j \in Insts : j # i => room'[j] = room[j]
  <2>1. room \in [Insts -> [Players -> Rooms]]
    BY <1>1, RoomIsTyped
  <2> QED BY <1>3, <2>1
<1>5. /\ \A j \in Insts : chat'[j] \subseteq chat[j] /\ (j # i => chat'[j] = chat[j])
      /\ p \notin chat'[i] /\ chat[i] \subseteq Players
  BY <1>1, <1>2
<1>6. \A j \in Insts : at[j] \in Checking => check[j].player \in Players
  BY DEF BaseInv, PlayerInv
<1> QED BY <1>2, <1>4, <1>5, <1>6 DEF ChatInv

LEMMA ChatApproval ==
  ASSUME BaseInv, ChatInv, NEW i \in Insts, NEW p \in Players, JoinApproval(i, p)
  PROVE  ChatInv'
<1>1. TypeOK /\ "idle" \notin Checking /\ room[i][p] # "in"
  BY DEF BaseInv, Checking, JoinApproval
<1>2. CASE /\ Goes(i, "idle", "bans") /\ UNCHANGED roomVars
           /\ check' = [check EXCEPT ![i] = [NoCheck EXCEPT !.player = p]]
  <2>1. [NoCheck EXCEPT !.player = p] \in Checks /\ [NoCheck EXCEPT !.player = p].player = p
    BY NoCheckTyped DEF NoCheck
  <2>2. /\ check'[i].player = p
        /\ \A j \in Insts : j # i => at'[j] = at[j] /\ check'[j] = check[j]
    BY <1>1, <1>2, <2>1, GoesTyped, CheckTyped DEF Steps, Checking
  <2> QED BY <1>1, <1>2, <2>2 DEF ChatInv
<1>3. CASE /\ Goes(i, "idle", "idle") /\ room' = [room EXCEPT ![i][p] = "ban"]
           /\ UNCHANGED <<check, chat, dispatch, allowed, fileVars>>
  <2>1. at' = at
    BY <1>1, <1>3 DEF Goes, TypeOK
  <2>2. /\ room'[i][p] = "ban" /\ \A q \in Players : q # p => room'[i][q] = room[i][q]
        /\ \A j \in Insts : j # i => room'[j] = room[j]
    <3>1. room \in [Insts -> [Players -> Rooms]]
      BY <1>1, RoomIsTyped
    <3> QED BY <1>3, <3>1
  <2>3. chat[i] \subseteq Players /\ p \notin chat[i]
    BY <1>1 DEF TypeOK, ChatInv
  <2>4. \A j \in Insts : at[j] \in Checking => check[j].player \in Players
    BY DEF BaseInv, PlayerInv
  <2> QED BY <1>3, <2>1, <2>2, <2>3, <2>4 DEF ChatInv
<1> QED BY <1>2, <1>3 DEF JoinApproval

LEMMA ChatNext ==
  ASSUME BaseInv, ChatInv, [Next]_vars
  PROVE  ChatInv'
<1>1. ASSUME NEW i \in Insts, Step(i) PROVE ChatInv'
  BY <1>1, ChatStep
<1>2. ASSUME NEW i \in Insts, NEW p \in Players, MovedPlayerToSpec(i, p) \/ MovedSpecToPlayer(i, p)
      PROVE  ChatInv'
  BY <1>2 DEF MovedPlayerToSpec, MovedSpecToPlayer, ChatInv
<1>3. ASSUME NEW i \in Insts, HandleLobbyId(i) \/ LeaveLobby(i) PROVE ChatInv'
  BY <1>3 DEF HandleLobbyId, LeaveLobby, recoverSave, ChatInv
<1>4. ASSUME NEW i \in Insts, Line(i) PROVE ChatInv'
  BY <1>2, <1>3, <1>4, ChatJoins, ChatGone, ChatApproval DEF Line
<1>5. CASE TableChange \/ Tick \/ UNCHANGED vars
  BY <1>5 DEF TableChange, Tick, ChatInv
<1>6. CASE Restart
  <2>1. /\ UNCHANGED <<room, chat, allowed>>
        /\ \A i \in Insts :
             /\ at'[i] = "idle" /\ dispatch'[i] = saved[i]
             /\ revived'[i] = revived[i] \union ({p \in Players : saved[i][p] = "chat"} \ allowed[i])
    BY <1>6 DEF Restart
  <2>2. "idle" \notin Checking
    BY DEF Checking
  <2> QED BY <2>1, <2>2 DEF ChatInv
<1> QED BY <1>1, <1>4, <1>5, <1>6 DEF Next

(* Nobody chats who was not allowed to by his last approval, but for those *)
(* whose older dispatch came back, in any number of rooms and with kills of*)
(* the backend at any moment.                                              *)
THEOREM GrantsAreFresh == Spec => []NoStaleGrant
<1>1. BaseInv /\ ChatInv /\ [Next]_vars => (BaseInv /\ ChatInv)'
  BY BaseStep, ChatNext
<1>2. ChatInv => NoStaleGrant
  BY DEF ChatInv, NoStaleGrant
<1> QED BY <1>1, <1>2, BaseInit, ChatInit, PTL DEF Spec

-----------------------------------------------------------------------------
(* What an answer respects.  A stage that is over has put what held since  *)
(* the check began into the locals, unless its query failed; and no later  *)
(* stage takes it out again.                                               *)
BansKnown(c, h) ==
  \/ "bans" \in c.failed
  \/ "joining" \notin h /\ ("playing" \in h => c.spec) /\ ("chatting" \in h => ~c.chat)

IspKnown(i, c, h) == "isp" \in h => Prefs[i].hide \/ "isp" \in c.failed

LimitKnown(i, c, h) ==
  /\ "unlinked" \in h => Prefs[i].join /\ (~Prefs[i].play => c.spec) /\ (~Prefs[i].chat => ~c.chat)
  /\ "limited" \in h => "limited" \in c.failed \/ c.spec

Stages(i, c, h, stage) ==
  /\ c.account => c.player \in linked
  /\ stage # "bans" => BansKnown(c, h)
  /\ stage \notin {"bans", "isp"} => IspKnown(i, c, h)
  /\ stage \in {"moved", "last"} => LimitKnown(i, c, h)
  /\ stage = "last" /\ "moved" \in h => c.spec

StageInv ==
  \A i \in Insts : at[i] \in Checking =>
    held[i] \subseteq Restrictions(i) /\ Stages(i, check[i], held[i], at[i])

(* Less is in force, and more is known.                                    *)
LEMMA StagesHold ==
  ASSUME NEW i, NEW c, NEW d, NEW h, NEW g, NEW stage, g \subseteq h, Stages(i, c, h, stage),
         c.spec => d.spec, d.chat => c.chat, c.failed \subseteq d.failed
  PROVE  /\ stage # "bans" => BansKnown(d, g)
         /\ stage \notin {"bans", "isp"} => IspKnown(i, d, g)
         /\ stage \in {"moved", "last"} => LimitKnown(i, d, g)
         /\ stage = "last" /\ "moved" \in g => d.spec
BY DEF Stages, BansKnown, IspKnown, LimitKnown

(* What the restrictions mean.                                             *)
LEMMA RestrictionFacts ==
  ASSUME NEW i \in Insts
  PROVE  LET p == check[i].player R == Restrictions(i)
         IN /\ "joining" \in R => AllForbid(p, "joining")
            /\ "playing" \in R => AllForbid(p, "playing")
            /\ "chatting" \in R => AllForbid(p, "chatting")
            /\ "unlinked" \in R => p \notin linked
            /\ "isp" \in R => p \notin linked /\ p \in Proxies
            /\ "limited" \in R => p \in limited \intersect pkeys
            /\ "moved" \in R => i \in lobby /\ movedOut[p][i] > 0
            /\ "terminated" \in R => p \in linked \intersect terminated \intersect pkeys
<1> HIDE DEF AllForbid
<1> QED BY DEF Restrictions, BanKinds

LEMMA WatchFacts ==
  ASSUME Watch, NEW i \in Insts, at'[i] \in Checking
  PROVE  /\ held'[i] \subseteq Restrictions(i)'
         /\ at[i] \in Checking => held'[i] \subseteq held[i]
<1>1. held'[i] = IF at[i] \in Checking THEN held[i] \intersect Restrictions(i)' ELSE Restrictions(i)'
  BY DEF Watch
<1> HIDE DEF Restrictions
<1> QED BY <1>1

(* A runner that does nothing.                                             *)
LEMMA StageSame ==
  ASSUME StageInv, Watch, NEW i \in Insts, at'[i] = at[i], check'[i] = check[i], linked \subseteq linked'
  PROVE  at'[i] \in Checking => /\ held'[i] \subseteq Restrictions(i)'
                                /\ Stages(i, check[i], held[i], at[i])'
<1> SUFFICES ASSUME at'[i] \in Checking
             PROVE  held'[i] \subseteq Restrictions(i)' /\ Stages(i, check[i], held[i], at[i])'
  OBVIOUS
<1>1. held'[i] \subseteq Restrictions(i)' /\ held'[i] \subseteq held[i]
  BY WatchFacts
<1>2. Stages(i, check[i], held[i], at[i])
  BY DEF StageInv
<1>3. check[i].account => check[i].player \in linked'
  BY <1>2 DEF Stages
<1>4. /\ at[i] # "bans" => BansKnown(check[i], held'[i])
      /\ at[i] \notin {"bans", "isp"} => IspKnown(i, check[i], held'[i])
      /\ at[i] \in {"moved", "last"} => LimitKnown(i, check[i], held'[i])
      /\ at[i] = "last" /\ "moved" \in held'[i] => check[i].spec
  BY <1>1, <1>2, StagesHold
<1> HIDE DEF Restrictions
<1>5. Stages(i, check[i], held[i], at[i])'
  BY <1>3, <1>4 DEF Stages, BansKnown, IspKnown, LimitKnown
<1> QED BY <1>1, <1>5

(* The bans: the one that is read ends last, so if it expired they all     *)
(* did, and what they all forbid it forbids.                               *)
LEMMA LongestFacts ==
  ASSUME TypeOK, NEW p \in Players, NEW b \in Longest(p)
  PROVE  /\ Expired(b) => InForce(p) = {}
         /\ ~Expired(b) => \A what : AllForbid(p, what) => b[what]
<1>1. b \in bans[p] /\ \A c \in bans[p] : c.ends <= b.ends
  BY DEF Longest
<1>2. now \in Nat /\ b.ends \in Nat /\ \A c \in bans[p] : c.ends \in Nat
  BY <1>1, BanTyped DEF TypeOK
<1>3. Expired(b) => \A c \in bans[p] : c.ends < now
  BY <1>1, <1>2 DEF Expired
<1> QED BY <1>1, <1>3 DEF InForce, AllForbid, Expired

LEMMA BansRead ==
  ASSUME BaseInv, NEW i \in Insts, at[i] = "bans", NEW h, h \subseteq Restrictions(i),
         NEW c \in Checks, NEW a \in BOOLEAN, NEW s \in BOOLEAN, NEW m \in BOOLEAN,
         NEW f \in SUBSET FaultPoints,
         \/ "bans" \in f
         \/ bans[check[i].player] = {}
         \/ \E b \in Longest(check[i].player) :
              Expired(b) \/ (~b.joining /\ (b.playing => s) /\ (b.chatting => ~m))
  PROVE  BansKnown(Refined(c, a, s, m, f), h)
<1> DEFINE p == check[i].player
           d == Refined(c, a, s, m, f)
<1>1. p \in Players /\ TypeOK
  BY DEF BaseInv, PlayerInv, Checking
<1>2. d.spec = s /\ d.chat = m /\ d.failed = c.failed \union f
  BY RefinedCheck
<1> SUFFICES BansKnown(d, h)
  OBVIOUS
<1> HIDE DEF d, p
<1>3. CASE "bans" \in f
  <2>1. "bans" \in d.failed
    BY <1>2, <1>3
  <2> QED BY <2>1 DEF BansKnown
<1>4. /\ "joining" \in h => AllForbid(p, "joining")
      /\ "playing" \in h => AllForbid(p, "playing")
      /\ "chatting" \in h => AllForbid(p, "chatting")
  BY RestrictionFacts DEF p
<1>5. CASE InForce(p) = {}
  BY <1>2, <1>4, <1>5 DEF BansKnown, AllForbid
<1>6. CASE bans[p] = {}
  BY <1>5, <1>6 DEF InForce
<1>7. ASSUME NEW b \in Longest(p), ~Expired(b), ~b.joining, b.playing => s, b.chatting => ~m
      PROVE  BansKnown(d, h)
  <2>1. \A what : AllForbid(p, what) => b[what]
    BY <1>1, <1>7, LongestFacts
  <2>2. "joining" \notin h /\ ("playing" \in h => s) /\ ("chatting" \in h => ~m)
    BY <1>4, <1>7, <2>1
  <2> QED BY <1>2, <2>2 DEF BansKnown
<1>8. ASSUME NEW b \in Longest(p), Expired(b) PROVE BansKnown(d, h)
  <2>1. InForce(p) = {}
    BY <1>1, <1>8, LongestFacts
  <2> QED BY <1>5, <2>1
<1> QED BY <1>3, <1>6, <1>7, <1>8 DEF p

(* A runner whose next stage is "to".                                      *)
LEMMA StageGoesOn ==
  ASSUME BaseInv, StageInv, Watch, NEW i \in Insts, at[i] \in Checking, NEW to \in Checking,
         Goes(i, at[i], to), NEW c \in Checks, check' = [check EXCEPT ![i] = c], UNCHANGED linked,
         Stages(i, c, held[i], to)
  PROVE  StageInv'
<1>1. TypeOK
  BY DEF BaseInv
<1>2. at'[i] = to /\ \A j \in Insts : j # i => at'[j] = at[j]
  BY <1>1, GoesTyped DEF Steps
<1>3. check'[i] = c /\ \A j \in Insts : j # i => check'[j] = check[j]
  BY <1>1, CheckTyped
<1>4. held'[i] \subseteq Restrictions(i)' /\ held'[i] \subseteq held[i]
  BY <1>2, WatchFacts
<1>5. Stages(i, check[i], held[i], at[i])'
  <2>1. /\ to # "bans" => BansKnown(c, held'[i])
        /\ to \notin {"bans", "isp"} => IspKnown(i, c, held'[i])
        /\ to \in {"moved", "last"} => LimitKnown(i, c, held'[i])
        /\ to = "last" /\ "moved" \in held'[i] => c.spec
    BY <1>4 DEF Stages, BansKnown, IspKnown, LimitKnown
  <2>2. c.account => c.player \in linked
    BY DEF Stages
  <2> QED BY <1>2, <1>3, <2>1, <2>2 DEF Stages, BansKnown, IspKnown, LimitKnown
<1>6. ASSUME NEW j \in Insts, j # i, at'[j] \in Checking
      PROVE  held'[j] \subseteq Restrictions(j)' /\ Stages(j, check[j], held[j], at[j])'
  BY <1>2, <1>3, <1>6, StageSame
<1> HIDE DEF Restrictions, Stages
<1> QED BY <1>4, <1>5, <1>6 DEF StageInv

(* A runner that answers, or has nothing to check.                         *)
LEMMA StageEnds ==
  ASSUME BaseInv, StageInv, Watch, NEW i \in Insts, at'[i] = "idle", linked \subseteq linked',
         \A j \in Insts : j # i => at'[j] = at[j] /\ check'[j] = check[j]
  PROVE  StageInv'
<1>1. "idle" \notin Checking
  BY DEF Checking
<1>2. ASSUME NEW j \in Insts, j # i, at'[j] \in Checking
      PROVE  held'[j] \subseteq Restrictions(j)' /\ Stages(j, check[j], held[j], at[j])'
  BY <1>2, StageSame
<1> HIDE DEF Restrictions, Stages
<1> QED BY <1>1, <1>2 DEF StageInv

LEMMA StageAnswers ==
  ASSUME BaseInv, StageInv, Watch, NEW i \in Insts, at[i] \in Checking, Goes(i, at[i], "idle"),
         check' = [check EXCEPT ![i] = NoCheck], UNCHANGED linked
  PROVE  StageInv'
<1>1. TypeOK /\ NoCheck \in Checks
  BY NoCheckTyped DEF BaseInv
<1>2. at'[i] = "idle" /\ \A j \in Insts : j # i => at'[j] = at[j]
  BY <1>1, GoesTyped DEF Steps
<1>3. \A j \in Insts : j # i => check'[j] = check[j]
  BY <1>1, CheckTyped
<1> QED BY <1>2, <1>3, StageEnds

LEMMA StageStep ==
  ASSUME BaseInv, StageInv, Watch, NEW i \in Insts, Step(i)
  PROVE  StageInv'
<1> DEFINE c == check[i]
           h == held[i]
<1>1. c \in Checks /\ at[i] \in Checking /\ UNCHANGED linked
  BY StepShape DEF BaseInv, TypeOK
<1>2. c.account \in BOOLEAN /\ c.spec \in BOOLEAN /\ c.chat \in BOOLEAN
  BY <1>1, ChecksFields
<1>3. h \subseteq Restrictions(i) /\ Stages(i, c, h, at[i])
  BY <1>1 DEF StageInv
<1>4. {"bans", "isp", "prefs", "moved", "last"} = Checking
  BY DEF Checking
<1>5. ASSUME Goes(i, at[i], "idle"), Reject(i) \/ \E s, m \in BOOLEAN : Approve(i, s, m)
      PROVE  StageInv'
  BY <1>1, <1>5, StageAnswers DEF Reject, Approve
<1>6. CASE ReadBans(i)
  <2>1. CASE Goes(i, "bans", "idle") /\ Reject(i)
    BY <1>5, <1>6, <2>1, ReadBansCases
  <2>2. ASSUME NEW a \in BOOLEAN, NEW s \in BOOLEAN, NEW m \in BOOLEAN, NEW f \in SUBSET FaultPoints,
               KnownBy(i, a, s, m, f), a => c.player \in linked,
               \/ "bans" \in f
               \/ bans[c.player] = {}
               \/ \E b \in Longest(c.player) :
                    Expired(b) \/ (~b.joining /\ (b.playing => s) /\ (b.chatting => ~m))
        PROVE  StageInv'
    <3> DEFINE d == Refined(c, a, s, m, f)
    <3>1. /\ d \in Checks /\ d.player = c.player /\ (d.account <=> a)
          /\ Goes(i, "bans", AfterBans(i, a)) /\ check' = [check EXCEPT ![i] = d]
      BY <1>1, <2>2, RefinedCheck, KnownFacts
    <3>2. at[i] = "bans" /\ AfterBans(i, a) \in {"isp", "prefs"}
      BY <1>6 DEF ReadBans, AfterBans
    <3>3. BansKnown(d, h)
      BY <1>1, <1>3, <2>2, <3>2, BansRead
    <3>4. AfterBans(i, a) = "prefs" => IspKnown(i, d, h)
      <4>1. "isp" \in h => c.player \notin linked
        BY <1>3, RestrictionFacts
      <4> HIDE DEF d
      <4> QED BY <2>2, <4>1 DEF IspKnown, AfterBans
    <3> HIDE DEF d
    <3>5. Stages(i, d, h, AfterBans(i, a))
      BY <2>2, <3>1, <3>2, <3>3, <3>4 DEF Stages
    <3> QED BY <1>1, <1>4, <3>1, <3>2, <3>5, StageGoesOn
  <2> QED BY <1>6, <2>1, <2>2, ReadBansCases
<1>7. CASE ReadIsp(i)
  <2>1. CASE Goes(i, "isp", "idle") /\ Reject(i)
    BY <1>5, <1>7, <2>1, ReadIspCases
  <2>2. ASSUME NEW f \in SUBSET FaultPoints, at[i] = "isp", Goes(i, "isp", "prefs"),
               check' = [check EXCEPT ![i] = Refined(c, c.account, c.spec, c.chat, f)],
               "isp" \in f \/ c.player \notin Proxies
        PROVE  StageInv'
    <3> DEFINE d == Refined(c, c.account, c.spec, c.chat, f)
    <3>1. /\ d \in Checks /\ d.player = c.player /\ (d.account <=> c.account)
          /\ (d.spec <=> c.spec) /\ (d.chat <=> c.chat) /\ d.failed = c.failed \union f
      BY <1>1, <1>2, RefinedCheck
    <3>2. "isp" \in h => c.player \in Proxies
      BY <1>3, RestrictionFacts
    <3> HIDE DEF d
    <3>3. IspKnown(i, d, h)
      BY <2>2, <3>1, <3>2 DEF IspKnown
    <3>4. BansKnown(d, h)
      BY <1>3, <2>2, <3>1, StagesHold
    <3>5. Stages(i, d, h, "prefs")
      BY <1>3, <3>1, <3>3, <3>4 DEF Stages
    <3> QED BY <1>1, <1>4, <2>2, <3>1, <3>5, StageGoesOn DEF d
  <2> QED BY <1>7, <2>1, <2>2, ReadIspCases
<1>8. CASE ReadLimit(i)
  <2>1. CASE Goes(i, "prefs", "idle") /\ Reject(i)
    BY <1>5, <1>8, <2>1, ReadLimitCases
  <2>2. ASSUME NEW s \in BOOLEAN, NEW m \in BOOLEAN, NEW f \in SUBSET FaultPoints,
               at[i] = "prefs", Goes(i, "prefs", "moved"),
               check' = [check EXCEPT ![i] = Refined(c, c.account, s, m, f)],
               c.spec => s, m => c.chat,
               ~c.account => Prefs[i].join /\ (~Prefs[i].play => s) /\ (~Prefs[i].chat => ~m),
               "limited" \in f \/ (c.player \in limited \intersect pkeys => s)
        PROVE  StageInv'
    <3> DEFINE d == Refined(c, c.account, s, m, f)
    <3>1. /\ d \in Checks /\ d.player = c.player /\ (d.account <=> c.account)
          /\ (d.spec <=> s) /\ (d.chat <=> m) /\ d.failed = c.failed \union f
      <4>1. d \in Checks
        BY <1>1, RefinedTyped
      <4>2. d.player = c.player
        BY <1>1, RefinedFields
      <4>3. d.failed = c.failed \union f
        BY <1>1, RefinedFields
      <4>4. d.account <=> c.account
        BY <1>1, RefinedLimit
      <4>5. d.spec <=> s
        BY <1>1, RefinedLimit
      <4>6. d.chat <=> m
        BY <1>1, RefinedLimit
      <4> QED BY <4>1, <4>2, <4>3, <4>4, <4>5, <4>6
    <3>2. /\ "unlinked" \in h => c.player \notin linked
          /\ "limited" \in h => c.player \in limited \intersect pkeys
      BY <1>3, RestrictionFacts
    <3>3. c.account => c.player \in linked
      BY <1>3 DEF Stages
    <3> HIDE DEF d
    <3>4. LimitKnown(i, d, h)
      BY <2>2, <3>1, <3>2, <3>3 DEF LimitKnown
    <3>5. BansKnown(d, h) /\ IspKnown(i, d, h)
      BY <1>3, <2>2, <3>1, StagesHold
    <3>6. Stages(i, d, h, "moved")
      BY <3>1, <3>3, <3>4, <3>5 DEF Stages
    <3> QED BY <1>1, <1>4, <2>2, <3>1, <3>6, StageGoesOn DEF d
  <2> QED BY <1>8, <2>1, <2>2, ReadLimitCases
<1>9. CASE WasMovedOut(i)
  <2>1. Goes(i, "moved", "last") /\ at[i] = "moved"
    BY <1>9, WasMovedOutCases
  <2>2. PICK d \in Checks :
          /\ check' = [check EXCEPT ![i] = d]
          /\ d.player = c.player /\ d.account = c.account /\ d.chat = c.chat /\ d.failed = c.failed
          /\ d.spec <=> (c.spec \/ present(c.player, i))
    BY <1>9, WasMovedOutCases
  <2>3. "moved" \in h => d.spec
    <3>1. "moved" \in h => i \in lobby /\ movedOut[c.player][i] > 0
      BY <1>3, RestrictionFacts
    <3>2. c.player \in Players
      BY <1>1 DEF BaseInv, PlayerInv
    <3> QED BY <2>2, <3>1, <3>2 DEF present, cleanup
  <2>4. BansKnown(d, h) /\ IspKnown(i, d, h) /\ LimitKnown(i, d, h)
    BY <1>3, <2>1, <2>2, StagesHold
  <2>5. Stages(i, d, h, "last")
    BY <1>3, <2>2, <2>3, <2>4 DEF Stages
  <2> QED BY <1>1, <1>4, <2>1, <2>2, <2>5, StageGoesOn
<1>10. CASE ReadTerminated(i)
  BY <1>5, <1>10, ReadTerminatedCases
<1> QED BY <1>6, <1>7, <1>8, <1>9, <1>10 DEF Step

LEMMA StageInit == Init => StageInv
BY DEF Init, StageInv, Checking

LEMMA StageApproval ==
  ASSUME BaseInv, StageInv, Watch, NEW i \in Insts, NEW p \in Players, JoinApproval(i, p)
  PROVE  StageInv'
<1>1. TypeOK /\ UNCHANGED linked
  BY DEF BaseInv, JoinApproval
<1>2. CASE /\ Goes(i, "idle", "bans")
           /\ check' = [check EXCEPT ![i] = [NoCheck EXCEPT !.player = p]]
  <2> DEFINE c == [NoCheck EXCEPT !.player = p]
  <2>1. c \in Checks /\ ~c.account
    BY NoCheckTyped DEF NoCheck
  <2> HIDE DEF c
  <2>2. at'[i] = "bans" /\ \A j \in Insts : j # i => at'[j] = at[j]
    BY <1>1, <1>2, GoesTyped DEF Steps, Checking
  <2>3. check'[i] = c /\ \A j \in Insts : j # i => check'[j] = check[j]
    BY <1>1, <1>2, <2>1, CheckTyped DEF c
  <2>4. held'[i] \subseteq Restrictions(i)'
    BY <2>2, WatchFacts DEF Checking
  <2>5. Stages(i, check[i], held[i], at[i])'
    BY <2>1, <2>2, <2>3 DEF Stages
  <2>6. ASSUME NEW j \in Insts, j # i, at'[j] \in Checking
        PROVE  held'[j] \subseteq Restrictions(j)' /\ Stages(j, check[j], held[j], at[j])'
    BY <1>1, <2>2, <2>3, <2>6, StageSame
  <2> HIDE DEF Restrictions, Stages
  <2> QED BY <2>4, <2>5, <2>6 DEF StageInv
<1>3. CASE Goes(i, "idle", "idle") /\ UNCHANGED check
  <2>1. at'[i] = "idle" /\ \A j \in Insts : j # i => at'[j] = at[j]
    BY <1>1, <1>3, GoesTyped DEF Steps
  <2> QED BY <1>1, <1>3, <2>1, StageEnds
<1> QED BY <1>2, <1>3 DEF JoinApproval

LEMMA StageNext ==
  ASSUME BaseInv, StageInv, [Next]_vars
  PROVE  StageInv'
<1>1. ASSUME Watch, UNCHANGED runnerVars, linked \subseteq linked'
      PROVE  StageInv'
  <2>1. ASSUME NEW i \in Insts, at'[i] \in Checking
        PROVE  held'[i] \subseteq Restrictions(i)' /\ Stages(i, check[i], held[i], at[i])'
    BY <1>1, <2>1, StageSame
  <2> HIDE DEF Restrictions, Stages
  <2> QED BY <2>1 DEF StageInv
<1>2. ASSUME Watch, NEW i \in Insts, Line(i) PROVE StageInv'
  <2>1. ASSUME NEW p \in Players,
               \/ PlayerJoins(i, p) \/ Blacklisted(i, p) \/ PlayerLeaves(i, p)
               \/ MovedPlayerToSpec(i, p) \/ MovedSpecToPlayer(i, p) \/ HandleLobbyId(i) \/ LeaveLobby(i)
        PROVE  UNCHANGED <<runnerVars, linked>>
    BY <2>1 DEF PlayerJoins, Blacklisted, PlayerLeaves, MovedPlayerToSpec, MovedSpecToPlayer, HandleLobbyId, LeaveLobby
  <2>2. HandleLobbyId(i) \/ LeaveLobby(i) => UNCHANGED <<runnerVars, linked>>
    BY DEF HandleLobbyId, LeaveLobby
  <2> QED BY <1>1, <1>2, <2>1, <2>2, StageApproval DEF Line
<1>3. ASSUME Watch, TableChange \/ Tick PROVE StageInv'
  <2>1. UNCHANGED runnerVars /\ linked \subseteq linked'
    BY <1>3 DEF TableChange, Tick
  <2> QED BY <1>1, <1>3, <2>1
<1>4. ASSUME Restart PROVE StageInv'
  <2>1. \A i \in Insts : at'[i] \notin Checking
    BY <1>4 DEF Restart, Checking
  <2> QED BY <2>1 DEF StageInv
<1>5. ASSUME UNCHANGED vars PROVE StageInv'
  BY <1>5 DEF StageInv, Stages, BansKnown, IspKnown, LimitKnown, Restrictions, AllForbid, InForce, Expired
<1> QED BY <1>2, <1>3, <1>4, <1>5, StageStep DEF Next

(* The answer of the last stage.                                           *)
LEMMA ApprovalRespects ==
  ASSUME BaseInv, StageInv, NEW i \in Insts, ReadTerminated(i)
  PROVE  Respects(i)
<1> DEFINE c      == check[i]
           h      == held[i]
           failed == c.failed
           in     == h \ (failed \union (IF "bans" \in failed THEN BanKinds ELSE {})
                          \union (Faults \intersect {"terminated"}))
<1>1. at[i] = "last" /\ at[i] \in Checking
  BY ReadTerminatedCases DEF Checking
<1>2. PICK s \in BOOLEAN, m \in BOOLEAN :
        /\ Approve(i, s, m)
        /\ (c.spec => s) /\ (m => c.chat) /\ (~c.account /\ c.player \in MutedIPs => ~m)
        /\ \/ "terminated" \in Faults
           \/ c.player \in linked \intersect terminated \intersect pkeys => s
  BY ReadTerminatedCases
<1>3. /\ s => room'[i][c.player] = "approvespec"
      /\ ~m => dispatch'[i][c.player] = "mute"
  <2>1. /\ room \in [Insts -> [Players -> Rooms]] /\ c.player \in Players
        /\ dispatch \in [Insts -> [Players -> {"none", "mute", "chat"}]]
    BY <1>1, RoomIsTyped DEF BaseInv, TypeOK, PlayerInv
  <2>2. ASSUME s PROVE room'[i][c.player] = "approvespec"
    <3>1. room' = [room EXCEPT ![i][c.player] = "approvespec"]
      BY <1>2, <2>2 DEF Approve
    <3> QED BY <2>1, <3>1
  <2>3. ASSUME ~m PROVE dispatch'[i][c.player] = "mute"
    <3>1. dispatch' = [dispatch EXCEPT ![i][c.player] = "mute"]
      BY <1>2, <2>3 DEF Approve
    <3> QED BY <2>1, <3>1
  <2> QED BY <2>2, <2>3
<1>4. h \subseteq Restrictions(i) /\ Stages(i, c, h, "last")
  BY <1>1 DEF StageInv
<1>5. BansKnown(c, h) /\ IspKnown(i, c, h) /\ LimitKnown(i, c, h) /\ ("moved" \in h => c.spec)
  BY <1>4 DEF Stages
<1>6. /\ in \subseteq h /\ in \intersect failed = {}
      /\ "bans" \in failed => in \intersect BanKinds = {}
      /\ "terminated" \in Faults => "terminated" \notin in
  OBVIOUS
<1>7. "unlinked" \in h => ~c.account
  BY <1>4, RestrictionFacts DEF Stages
<1>8. "terminated" \in h => c.player \in linked \intersect terminated \intersect pkeys
  BY <1>4, RestrictionFacts
<1> HIDE DEF in, failed, h
<1>9. /\ "joining" \notin in /\ ("isp" \in in => Prefs[i].hide) /\ ("unlinked" \in in => Prefs[i].join)
  <2>1. failed = c.failed
    BY DEF failed
  <2> QED BY <1>5, <1>6, <2>1 DEF BansKnown, IspKnown, LimitKnown, BanKinds
<1>10. \/ in \intersect {"playing", "limited", "moved", "terminated"} # {}
       \/ "unlinked" \in in /\ ~Prefs[i].play
       => s
  <2>1. failed = c.failed
    BY DEF failed
  <2>2. "playing" \in in => s
    BY <1>2, <1>5, <1>6, <2>1 DEF BansKnown, BanKinds
  <2>3. "limited" \in in \/ ("unlinked" \in in /\ ~Prefs[i].play) => s
    BY <1>2, <1>5, <1>6, <2>1 DEF LimitKnown
  <2>4. "moved" \in in => s
    BY <1>2, <1>5, <1>6
  <2>5. "terminated" \in in => s
    BY <1>2, <1>6, <1>8
  <2> QED BY <2>2, <2>3, <2>4, <2>5
<1>11. \/ "chatting" \in in
       \/ "unlinked" \in in /\ (~Prefs[i].chat \/ c.player \in MutedIPs)
       => ~m
  <2>1. failed = c.failed
    BY DEF failed
  <2>2. "chatting" \in in => ~m
    BY <1>2, <1>5, <1>6, <2>1 DEF BansKnown, BanKinds
  <2>3. "unlinked" \in in /\ ~Prefs[i].chat => ~m
    BY <1>2, <1>5, <1>6 DEF LimitKnown
  <2>4. "unlinked" \in in /\ c.player \in MutedIPs => ~m
    BY <1>2, <1>6, <1>7
  <2> QED BY <2>2, <2>3, <2>4
<1> QED BY <1>3, <1>9, <1>10, <1>11 DEF Respects, in, failed, h

LEMMA AnswerRespects ==
  ASSUME BaseInv, StageInv, [Next]_vars, NEW i \in Insts, Answers(i)
  PROVE  Respects(i)
<1>1. /\ TypeOK /\ at[i] \in Checking /\ at[i] # "idle" /\ at'[i] = "idle" /\ events' = events
      /\ check[i].player \in Players
  BY DEF Answers, Checking, BaseInv, PlayerInv
<1>2. ASSUME Reject(i) PROVE Respects(i)
  <2>1. room' = [room EXCEPT ![i][check[i].player] = "out"]
    BY <1>2 DEF Reject
  <2>2. room \in [Insts -> [Players -> Rooms]]
    BY <1>1, RoomIsTyped
  <2>3. room'[i][check[i].player] = "out"
    BY <1>1, <2>1, <2>2
  <2> QED BY <2>3 DEF Respects, Approved
<1>3. ASSUME NEW j \in Insts, j # i, NEW from, NEW to, Goes(j, from, to) PROVE FALSE
  BY <1>1, <1>3 DEF Goes, TypeOK
<1>4. ASSUME NEW j \in Insts, Step(j) PROVE Respects(i)
  <2>1. j = i
    <3>1. \E to : Goes(j, at[j], to)
      BY <1>4, StepShape
    <3> QED BY <1>3, <3>1
  <2>2. ASSUME NEW from, NEW to \in Checking, Goes(i, from, to) PROVE FALSE
    <3>1. at'[i] = to
      BY <1>1, <2>2 DEF Goes, TypeOK
    <3> QED BY <1>1, <3>1 DEF Checking
  <2>3. CASE ReadTerminated(i)
    BY <2>3, ApprovalRespects
  <2>4. CASE ReadBans(i)
    <3>1. ASSUME NEW a \in BOOLEAN, NEW v \in BOOLEAN, NEW m \in BOOLEAN, NEW f \in SUBSET FaultPoints,
                 KnownBy(i, a, v, m, f)
          PROVE  FALSE
      <4>1. Goes(i, "bans", AfterBans(i, a)) /\ AfterBans(i, a) \in Checking
        BY <3>1, KnownFacts DEF AfterBans, Checking
      <4> QED BY <2>2, <4>1
    <3> QED BY <1>2, <2>4, <3>1, ReadBansCases
  <2>5. CASE ReadIsp(i)
    BY <1>2, <2>2, <2>5, ReadIspCases DEF Checking
  <2>6. CASE ReadLimit(i)
    BY <1>2, <2>2, <2>6, ReadLimitCases DEF Checking
  <2>7. CASE WasMovedOut(i)
    BY <2>2, <2>7, WasMovedOutCases DEF Checking
  <2> QED BY <1>4, <2>1, <2>3, <2>4, <2>5, <2>6, <2>7 DEF Step
<1>5. ASSUME at' = at PROVE FALSE
  BY <1>1, <1>5
<1>6. ASSUME NEW j \in Insts, Line(j) PROVE FALSE
  <2>1. ASSUME NEW p \in Players, JoinApproval(j, p) PROVE FALSE
    <3>1. \E to : Goes(j, "idle", to)
      BY <2>1 DEF JoinApproval
    <3>2. j = i
      BY <1>3, <3>1
    <3> QED BY <1>1, <3>1, <3>2 DEF Goes
  <2>2. ASSUME NEW p \in Players,
               \/ PlayerJoins(j, p) \/ Blacklisted(j, p) \/ PlayerLeaves(j, p)
               \/ MovedPlayerToSpec(j, p) \/ MovedSpecToPlayer(j, p)
        PROVE  at' = at
    BY <2>2 DEF PlayerJoins, Blacklisted, PlayerLeaves, MovedPlayerToSpec, MovedSpecToPlayer
  <2>3. HandleLobbyId(j) \/ LeaveLobby(j) => at' = at
    BY DEF HandleLobbyId, LeaveLobby
  <2> QED BY <1>5, <1>6, <2>1, <2>2, <2>3 DEF Line
<1>7. ASSUME TableChange \/ Tick \/ Restart \/ UNCHANGED vars PROVE FALSE
  <2>1. CASE Restart \/ TableChange
    BY <1>1, <2>1 DEF Restart, TableChange, TypeOK
  <2>2. CASE Tick \/ UNCHANGED vars
    BY <1>5, <2>2 DEF Tick
  <2> QED BY <1>7, <2>1, <2>2
<1> QED BY <1>4, <1>6, <1>7 DEF Next

(* Every answer to a join respects what was in force all the while, for    *)
(* any number of rooms, players, bans and writers of the tables.           *)
THEOREM DecisionsRespect == Spec => DecisionRespects
<1>1. BaseInv /\ StageInv /\ [Next]_vars => (BaseInv /\ StageInv)'
  BY BaseStep, StageNext
<1>2. BaseInv /\ StageInv /\ [Next]_vars => [\A i \in Insts : Answers(i) => Respects(i)]_vars
  BY AnswerRespects
<1> QED BY <1>1, <1>2, BaseInit, StageInit, PTL DEF Spec, DecisionRespects

-----------------------------------------------------------------------------
(* The refinement of MovedOut.  The order and the number of a room's       *)
(* entries are invisible in it.                                            *)
Mv == {m \in Players \X Insts : movedOut[m[1]][m[2]] > 0}
An == [i \in Insts |-> check[i].wasMoved]

(* What a use of the map has to leave.                                     *)
LEMMA MapKeeps ==
  ASSUME NEW S \in SUBSET (Players \X Insts),
         \A p \in Players, i \in Insts :
           /\ movedOut'[p][i] > 0 => <<p, i>> \in S
           /\ <<p, i>> \in S /\ i \in lobby => movedOut'[p][i] > 0
  PROVE  Mv' \subseteq S /\ {m \in S : m[2] \in lobby} \subseteq Mv'
<1>1. \A m \in Players \X Insts : m = <<m[1], m[2]>> /\ m[1] \in Players /\ m[2] \in Insts
  OBVIOUS
<1>2. \A m \in Mv' : m \in S
  BY <1>1 DEF Mv
<1>3. ASSUME NEW m \in S, m[2] \in lobby PROVE m \in Mv'
  BY <1>1, <1>3 DEF Mv
<1> QED BY <1>2, <1>3

(* Nothing is kept of a room that is not in the lobby, all of the others.  *)
LEMMA CleanupFacts ==
  ASSUME BaseInv
  PROVE  /\ cleanup(movedOut) \in [Players -> [Insts -> Nat]]
         /\ \A p \in Players, i \in Insts :
              cleanup(movedOut)[p][i] = IF i \in lobby THEN movedOut[p][i] ELSE 0
         /\ Mv \in SUBSET (Players \X Insts)
         /\ \A p \in Players, i \in Insts : <<p, i>> \in Mv <=> movedOut[p][i] > 0
<1>1. movedOut \in [Players -> [Insts -> Nat]]
  BY DEF BaseInv, TypeOK
<1> QED BY <1>1 DEF cleanup, Mv

LEMMA MapAnswers ==
  ASSUME BaseInv, NEW i \in Insts, NEW c \in Checks, check' = [check EXCEPT ![i] = c]
  PROVE  An' = [An EXCEPT ![i] = c.wasMoved]
<1>1. check'[i] = c /\ \A j \in Insts : j # i => check'[j] = check[j]
  BY CheckTyped DEF BaseInv
<1>2. \A j \in Insts : check'[j].wasMoved = IF j = i THEN c.wasMoved ELSE check[j].wasMoved
  BY <1>1
<1> QED BY <1>2 DEF An

LEMMA MapInit == Init => Moves!Init
<1> SUFFICES ASSUME Init PROVE Moves!Init
  OBVIOUS
<1>1. Mv = {}
  <2>1. \A p \in Players, i \in Insts : movedOut[p][i] = 0
    BY DEF Init
  <2>2. \A m \in Players \X Insts : movedOut[m[1]][m[2]] = 0
    BY <2>1
  <2> QED BY <2>2 DEF Mv
<1>2. An = [i \in Insts |-> "none"]
  BY DEF Init, An, NoCheck
<1> QED BY <1>1, <1>2 DEF Moves!Init, Mv, An, Init

LEMMA MapStep ==
  ASSUME BaseInv, NEW i \in Insts, Step(i)
  PROVE  Moves!Next \/ UNCHANGED <<Mv, lobby, An>>
<1>1. /\ UNCHANGED lobby
      /\ at[i] \in Checking /\ check[i].player \in Players /\ An[i] = check[i].wasMoved
  BY StepShape DEF BaseInv, PlayerInv, An
<1>2. UNCHANGED movedOut => Mv' = Mv
  BY DEF Mv
<1>3. CASE check' = [check EXCEPT ![i] = NoCheck] /\ UNCHANGED movedOut
  <2>1. An' = [An EXCEPT ![i] = "none"]
    BY <1>3, NoCheckTyped, MapAnswers DEF NoCheck
  <2>2. Moves!Done(i)
    BY <1>1, <1>2, <1>3, <2>1 DEF Moves!Done, Mv, An
  <2> QED BY <2>2 DEF Moves!Next
<1>4. CASE WasMovedOut(i)
  <2> DEFINE p == check[i].player
  <2>1. PICK c \in Checks : /\ check' = [check EXCEPT ![i] = c]
                            /\ c.wasMoved = IF present(p, i) THEN "yes" ELSE "no"
    BY <1>4, WasMovedOutCases
  <2>2. present(p, i) <=> i \in lobby /\ <<p, i>> \in Mv
    BY <1>1, CleanupFacts DEF present
  <2>3. An' = [An EXCEPT ![i] = IF i \in lobby /\ <<p, i>> \in Mv THEN "yes" ELSE "no"]
    BY <2>1, <2>2, MapAnswers
  <2>4. Mv' \subseteq Mv /\ {m \in Mv : m[2] \in lobby} \subseteq Mv'
    <3>1. \A q \in Players, j \in Insts : movedOut'[q][j] = IF j \in lobby THEN movedOut[q][j] ELSE 0
      BY <1>4, WasMovedOutCases, CleanupFacts
    <3>2. Mv \in SUBSET (Players \X Insts)
      BY CleanupFacts
    <3>3. \A q \in Players, j \in Insts :
            /\ movedOut'[q][j] > 0 => <<q, j>> \in Mv
            /\ <<q, j>> \in Mv /\ j \in lobby => movedOut'[q][j] > 0
      <4>1. \A q \in Players, j \in Insts : <<q, j>> \in Mv <=> movedOut[q][j] > 0
        BY CleanupFacts
      <4> HIDE DEF Mv
      <4> TAKE q \in Players, j \in Insts
      <4>2. movedOut'[q][j] = IF j \in lobby THEN movedOut[q][j] ELSE 0
        BY <3>1
      <4> QED BY <4>1, <4>2
    <3> HIDE DEF Mv
    <3> QED BY <3>2, <3>3, MapKeeps
  <2>5. Moves!Ask(p, i)
    BY <1>1, <2>3, <2>4 DEF Moves!Ask, Moves!Keeps, Mv, An
  <2> QED BY <1>1, <2>5 DEF Moves!Next
<1>5. ASSUME NEW c \in Checks, check' = [check EXCEPT ![i] = c], c.wasMoved = check[i].wasMoved,
             UNCHANGED movedOut
      PROVE  UNCHANGED <<Mv, lobby, An>>
  <2>1. An' = [An EXCEPT ![i] = An[i]]
    BY <1>1, <1>5, MapAnswers
  <2>2. An' = An
    BY <2>1 DEF An
  <2> QED BY <1>1, <1>2, <1>5, <2>2
<1>6. Reject(i) \/ (\E s, m \in BOOLEAN : Approve(i, s, m)) => check' = [check EXCEPT ![i] = NoCheck]
  BY DEF Reject, Approve
<1> QED BY <1>3, <1>4, <1>5, <1>6, StepShape

LEMMA MapMoves ==
  ASSUME BaseInv, NEW p \in Players, NEW i \in Insts,
         MovedPlayerToSpec(i, p) \/ MovedSpecToPlayer(i, p)
  PROVE  Moves!Next
<1> DEFINE m == cleanup(movedOut)
<1>1. UNCHANGED <<lobby, check>> /\ Mv \in SUBSET (Players \X Insts)
  BY CleanupFacts DEF MovedPlayerToSpec, MovedSpecToPlayer
<1>2. /\ m \in [Players -> [Insts -> Nat]]
      /\ \A q \in Players, j \in Insts : m[q][j] = IF j \in lobby THEN movedOut[q][j] ELSE 0
  BY CleanupFacts
<1>3. An' = An
  BY <1>1 DEF An
<1> HIDE DEF m
<1>4. CASE MovedPlayerToSpec(i, p)
  <2>1. movedOut' = [m EXCEPT ![p][i] = m[p][i] + 1]
    BY <1>4 DEF MovedPlayerToSpec, add, m
  <2>2. /\ movedOut'[p][i] > 0
        /\ \A q \in Players, j \in Insts : q # p \/ j # i => movedOut'[q][j] = m[q][j]
    BY <1>2, <2>1
  <2>3. /\ Mv' \subseteq Mv \union {<<p, i>>}
        /\ {x \in Mv \union {<<p, i>>} : x[2] \in lobby} \subseteq Mv'
    <3> DEFINE S == Mv \union {<<p, i>>}
    <3>1. S \in SUBSET (Players \X Insts)
      BY <1>1
    <3>2. \A q \in Players, j \in Insts : <<q, j>> \in S <=> movedOut[q][j] > 0 \/ (q = p /\ j = i)
      BY CleanupFacts
    <3> HIDE DEF S
    <3>3. \A q \in Players, j \in Insts :
            /\ movedOut'[q][j] > 0 => <<q, j>> \in S
            /\ <<q, j>> \in S /\ j \in lobby => movedOut'[q][j] > 0
      <4> TAKE q \in Players, j \in Insts
      <4>1. CASE q = p /\ j = i
        BY <2>2, <3>2, <4>1
      <4>2. CASE ~(q = p /\ j = i)
        <5>1. movedOut'[q][j] = IF j \in lobby THEN movedOut[q][j] ELSE 0
          BY <1>2, <2>2, <4>2
        <5> QED BY <3>2, <4>2, <5>1
      <4> QED BY <4>1, <4>2
    <3>4. Mv' \subseteq S /\ {x \in S : x[2] \in lobby} \subseteq Mv'
      BY <3>1, <3>3, MapKeeps
    <3> QED BY <3>4 DEF S
  <2>4. Moves!Move(p, i)
    BY <1>1, <1>3, <2>3 DEF Moves!Move, Moves!Keeps, Mv, An
  <2> QED BY <2>4 DEF Moves!Next
<1>5. CASE MovedSpecToPlayer(i, p)
  <2>1. \A q \in Players, j \in Insts :
          movedOut'[q][j] = IF q = p /\ j = i THEN 0 ELSE m[q][j]
    <3>1. CASE \E j \in Insts \ {i} : OnlyEntry(m, p, j)
      <4>1. movedOut' = m
        BY <1>5, <3>1 DEF MovedSpecToPlayer, remove, m
      <4>2. m[p][i] = 0
        BY <3>1 DEF OnlyEntry
      <4> QED BY <4>1, <4>2
    <3>2. CASE ~\E j \in Insts \ {i} : OnlyEntry(m, p, j)
      <4>1. movedOut' = [m EXCEPT ![p][i] = 0]
        BY <1>5, <3>2 DEF MovedSpecToPlayer, remove, m
      <4> QED BY <1>2, <4>1
    <3> QED BY <3>1, <3>2
  <2>2. /\ Mv' \subseteq Mv \ {<<p, i>>}
        /\ {x \in Mv \ {<<p, i>>} : x[2] \in lobby} \subseteq Mv'
    <3> DEFINE S == Mv \ {<<p, i>>}
    <3>1. S \in SUBSET (Players \X Insts)
      BY <1>1
    <3>2. \A q \in Players, j \in Insts :
            <<q, j>> \in S <=> movedOut[q][j] > 0 /\ ~(q = p /\ j = i)
      BY CleanupFacts
    <3> HIDE DEF S
    <3>3. \A q \in Players, j \in Insts :
            /\ movedOut'[q][j] > 0 => <<q, j>> \in S
            /\ <<q, j>> \in S /\ j \in lobby => movedOut'[q][j] > 0
      <4> TAKE q \in Players, j \in Insts
      <4>1. CASE q = p /\ j = i
        <5>1. movedOut'[q][j] = 0
          BY <2>1, <4>1
        <5> QED BY <3>2, <4>1, <5>1
      <4>2. CASE ~(q = p /\ j = i)
        <5>1. movedOut'[q][j] = IF j \in lobby THEN movedOut[q][j] ELSE 0
          BY <1>2, <2>1, <4>2
        <5> QED BY <3>2, <4>2, <5>1
      <4> QED BY <4>1, <4>2
    <3>4. Mv' \subseteq S /\ {x \in S : x[2] \in lobby} \subseteq Mv'
      BY <3>1, <3>3, MapKeeps
    <3> QED BY <3>4 DEF S
  <2>3. Moves!MoveBack(p, i)
    BY <1>1, <1>3, <2>2 DEF Moves!MoveBack, Moves!Keeps, Mv, An
  <2> QED BY <2>3 DEF Moves!Next
<1> QED BY <1>4, <1>5

LEMMA MapNext ==
  ASSUME BaseInv, [Next]_vars
  PROVE  Moves!Next \/ UNCHANGED <<Mv, lobby, An>>
<1>1. ASSUME NEW i \in Insts, HandleLobbyId(i) \/ LeaveLobby(i) PROVE Moves!Next
  <2>1. UNCHANGED <<movedOut, check>>
    BY <1>1 DEF HandleLobbyId, LeaveLobby
  <2>2. Mv' = Mv /\ An' = An
    BY <2>1 DEF Mv, An
  <2>3. CASE HandleLobbyId(i)
    <3>1. Moves!EnterLobby(i)
      BY <2>2, <2>3 DEF HandleLobbyId, Moves!EnterLobby, Mv, An
    <3> QED BY <3>1 DEF Moves!Next
  <2>4. CASE LeaveLobby(i)
    <3>1. Moves!LeaveLobby(i)
      BY <2>2, <2>4 DEF LeaveLobby, Moves!LeaveLobby, Mv, An
    <3> QED BY <3>1 DEF Moves!Next
  <2> QED BY <1>1, <2>3, <2>4
<1>2. ASSUME NEW i \in Insts, NEW p \in Players, JoinApproval(i, p)
      PROVE  Moves!Next \/ UNCHANGED <<Mv, lobby, An>>
  <2>1. UNCHANGED <<lobby, movedOut>>
    BY <1>2 DEF JoinApproval
  <2>2. Mv' = Mv
    BY <2>1 DEF Mv
  <2>3. CASE check' = [check EXCEPT ![i] = [NoCheck EXCEPT !.player = p]]
    <3>1. An' = [An EXCEPT ![i] = "none"]
      <4> DEFINE c == [NoCheck EXCEPT !.player = p]
      <4>1. c.wasMoved = "none" /\ c \in Checks
        BY NoCheckTyped DEF NoCheck
      <4>2. check' = [check EXCEPT ![i] = c]
        BY <2>3
      <4> HIDE DEF c
      <4> QED BY <4>1, <4>2, MapAnswers
    <3>2. Moves!Done(i)
      BY <2>1, <2>2, <3>1 DEF Moves!Done, Mv, An
    <3> QED BY <3>2 DEF Moves!Next
  <2>4. CASE check' = check
    BY <2>1, <2>2, <2>4 DEF An
  <2> QED BY <1>2, <2>3, <2>4 DEF JoinApproval
<1>3. ASSUME NEW i \in Insts, NEW p \in Players,
             PlayerJoins(i, p) \/ Blacklisted(i, p) \/ PlayerLeaves(i, p)
      PROVE  UNCHANGED <<Mv, lobby, An>>
  <2>1. UNCHANGED <<lobby, movedOut, check>>
    BY <1>3 DEF PlayerJoins, Blacklisted, PlayerLeaves
  <2> QED BY <2>1 DEF Mv, An
<1>4. CASE TableChange \/ Tick \/ UNCHANGED vars
  <2>1. UNCHANGED <<lobby, movedOut, check>>
    BY <1>4 DEF TableChange, Tick
  <2> QED BY <2>1 DEF Mv, An
<1>5. CASE Restart
  <2>1. /\ UNCHANGED lobby /\ \A p \in Players, i \in Insts : movedOut'[p][i] = 0
        /\ An' = [i \in Insts |-> "none"]
    BY <1>5 DEF Restart, An, NoCheck
  <2>2. Mv' = {}
    BY <2>1 DEF Mv
  <2>3. Moves!Restart
    BY <2>1, <2>2 DEF Moves!Restart, Mv, An
  <2> QED BY <2>3 DEF Moves!Next
<1> QED BY <1>1, <1>2, <1>3, <1>4, <1>5, MapStep, MapMoves DEF Next, Line

(* The map of moved players implements the relation it is meant to be,     *)
(* whatever the number of rooms and players, and however often a room      *)
(* leaves the lobby and comes back.                                        *)
THEOREM MovesImplement == Spec => ImplementsMovedOut
<1>1. BaseInv /\ [Next]_vars => [Moves!Next]_(Moves!vars)
  BY MapNext DEF Moves!vars, Mv, An
<1> QED BY <1>1, MapInit, BaseAlways, PTL DEF Spec, ImplementsMovedOut, Moves!Spec
=============================================================================
