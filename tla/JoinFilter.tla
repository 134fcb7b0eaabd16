------------------------------ MODULE JoinFilter ------------------------------
(***************************************************************************)
(* What the runners do with the lines about players: the decision whether  *)
(* a player may join (joinCheck in connfilter.go), the right to chat he    *)
(* gets when he is in (the handlers of messageProcessor.go) and the        *)
(* moderators' moves.                                                      *)
(*                                                                         *)
(* A runner handles one line at a time, but the runners share the map of   *)
(* moved players and the database, which others write to between two       *)
(* queries of one check.  A player has one address and one identity.  What *)
(* the ISP checker says of an address is taken from RunnerServices as one  *)
(* call that may fail.                                                     *)
(***************************************************************************)
EXTENDS Naturals

CONSTANTS
  Insts,      \* the rooms, each with its runner
  Players,
  Nobody,     \* no player
  Bans,       \* the bans an administrator may give, records of BanType
  MaxTime,    \* bound: how often the clock moves on
  MaxEvents,  \* bound: how often the tables change or the backend is killed
  MaxMoves,   \* bound: how often a player is in the list of a room
  Prefs,      \* per room, its allowNonLinked... settings
  MutedIPs,   \* the players whose address is in the "ipmute" setting
  Proxies,    \* those whose address is a proxy's, or one of a banned ASN
  Relists,    \* bound: the rooms that are listed again while there are players about
  Faults      \* the calls that may fail, a subset of FaultPoints

(* A ban that never expires ends after MaxTime.                            *)
BanType     == [ends : Nat, joining : BOOLEAN, playing : BOOLEAN, chatting : BOOLEAN]
PrefType    == [hide : BOOLEAN, join : BOOLEAN, play : BOOLEAN, chat : BOOLEAN]
FaultPoints == {"key", "bans", "isp", "limited", "terminated"}

ASSUME JoinFilterAssumption ==
  /\ Nobody \notin Players
  /\ Bans \subseteq BanType
  /\ {MaxTime, MaxEvents} \subseteq Nat /\ MaxMoves \in Nat \ {0}
  /\ Prefs \in [Insts -> PrefType]
  /\ MutedIPs \subseteq Players /\ Proxies \subseteq Players
  /\ Relists \subseteq Insts
  /\ Faults \subseteq FaultPoints

VARIABLES
  lobby,        \* the rooms whose instance is in the registry and in the lobby
  movedOut,     \* how often a room is in the list of a player; the order is never looked at
  bans, linked, terminated, limited, \* the tables: bans of a player; players with an
                \* account, with a terminated one, with too many games left early
  pkeys,        \* the players whose public key is in table identities
  now,          \* the clock
  events,       \* how often the tables changed or the backend was killed
  at, check,    \* where a runner is, and the locals of its joinCheck
  room,         \* per room and player, what the game last did with him
  chat,         \* per room, the players who may chat
  dispatch,     \* per room, OnJoinDispatch
  saved,        \* per room, OnJoinDispatch as it is in instance.json
  allowed,      \* per room, the players whose last approval included the chat
  revived,      \* per room, those whose last approval did not, and whose older dispatch was
                \* loaded from instance.json since
  held          \* per room, the restrictions in force since its check began

lobbyVars    == <<lobby, movedOut>>
tableVars    == <<bans, linked, terminated, limited, now>>
runnerVars   == <<at, check>>
fileVars     == <<saved, revived>>
roomVars     == <<room, chat, dispatch, allowed, fileVars>>
vars == <<lobbyVars, tableVars, pkeys, runnerVars, roomVars, events, held>>

Checking   == {"bans", "isp", "prefs", "moved", "last"}
Approved   == {"approve", "approvespec"}
NoDispatch == [p \in Players |-> "none"]

Checks  == [player : Players \union {Nobody}, account : BOOLEAN, spec : BOOLEAN, chat : BOOLEAN,
            wasMoved : {"none", "yes", "no"}, failed : SUBSET FaultPoints]
NoCheck == [player |-> Nobody, account |-> FALSE, spec |-> FALSE, chat |-> TRUE,
            wasMoved |-> "none", failed |-> {}]

Goes(i, from, to) ==
  /\ at[i] = from
  /\ at' = [at EXCEPT ![i] = to]

-----------------------------------------------------------------------------
(* The map of moved players.  Each operation drops the rooms that are not  *)
(* in the lobby first.                                                     *)

cleanup(m) == [p \in Players |-> [i \in Insts |-> IF i \in lobby THEN m[p][i] ELSE 0]]

add(p, i) == [cleanup(movedOut) EXCEPT ![p][i] = @ + 1]

OnlyEntry(m, p, i) == m[p][i] = 1 /\ \A j \in Insts \ {i} : m[p][j] = 0

(* Mutant: one entry is taken away, whether there is one or not.           *)
removeOne(p, i) == [cleanup(movedOut) EXCEPT ![p][i] = @ - 1]

(* A list of one entry is dropped if it is this one, else every entry of   *)
(* the room is deleted.                                                    *)
remove(p, i) ==
  LET m == cleanup(movedOut)
  IN IF \E j \in Insts \ {i} : OnlyEntry(m, p, j) THEN m ELSE [m EXCEPT ![p][i] = 0]

(* Mutant: the entries of rooms that left the lobby are asked, too.        *)
presentAnywhere(p, i) == \E j \in Insts : movedOut[p][j] > 0

present(p, i) == cleanup(movedOut)[p][i] > 0

(* "WZEVENT: movedPlayerToSpec: "                                          *)
MovedPlayerToSpec(i, p) ==
  /\ at[i] = "idle" /\ room[i][p] = "in" /\ movedOut[p][i] < MaxMoves
  /\ movedOut' = add(p, i)
  /\ UNCHANGED <<lobby, tableVars, pkeys, runnerVars, roomVars, events>>

(* "WZEVENT: movedSpecToPlayer: "                                          *)
MovedSpecToPlayer(i, p) ==
  /\ at[i] = "idle" /\ room[i][p] = "in"
  /\ movedOut' = remove(p, i)
  /\ UNCHANGED <<lobby, tableVars, pkeys, runnerVars, roomVars, events>>

(* recoverSave writes OnJoinDispatch with the rest of the instance.        *)
recoverSave(i) ==
  /\ saved' = [saved EXCEPT ![i] = dispatch[i]]
  /\ UNCHANGED <<room, chat, dispatch, allowed, revived>>

(* "WZEVENT: lobbyid: ": the game lists its room, for the first time or    *)
(* again.  The state is stored, not compared: a room that left the lobby   *)
(* is back in it.                                                          *)
HandleLobbyId(i) ==
  /\ at[i] = "idle" /\ i \in Relists
  /\ lobby' = lobby \union {i}
  /\ recoverSave(i)
  /\ UNCHANGED <<movedOut, tableVars, pkeys, runnerVars, events>>

(* The game starts, or is told to exit: isInstanceInLobby becomes false.   *)
LeaveLobby(i) ==
  /\ at[i] = "idle" /\ i \in lobby
  /\ lobby' = lobby \ {i}
  /\ recoverSave(i)
  /\ UNCHANGED <<movedOut, tableVars, pkeys, runnerVars, events>>

-----------------------------------------------------------------------------
(* joinCheck.                                                              *)

(* The answer is written to the game.                                      *)
Approve(i, spec, mayChat) ==
  LET p == check[i].player
  IN /\ room' = [room EXCEPT ![i][p] = IF spec THEN "approvespec" ELSE "approve"]
     /\ dispatch' = [dispatch EXCEPT ![i][p] = IF mayChat THEN "chat" ELSE "mute"]
     /\ allowed' = [allowed EXCEPT ![i] = IF mayChat THEN @ \union {p} ELSE @ \ {p}]
     /\ revived' = [revived EXCEPT ![i] = @ \ {p}]
     /\ check' = [check EXCEPT ![i] = NoCheck]
     /\ UNCHANGED <<chat, saved>>

Reject(i) ==
  /\ room' = [room EXCEPT ![i][check[i].player] = "out"]
  /\ check' = [check EXCEPT ![i] = NoCheck]
  /\ UNCHANGED <<chat, dispatch, allowed, fileVars>>

(* The key of a player who comes is put into table identities.             *)
pubkeyDiscovery(p) ==
  \/ pkeys' = pkeys \union {p}
  \/ "key" \in Faults /\ UNCHANGED pkeys

(* "WZEVENT: join approval needed: ": stage 1 are the blacklisted names.   *)
JoinApproval(i, p) ==
  /\ room[i][p] \notin {"in", "ban"}
  /\ pubkeyDiscovery(p)
  /\ \/ /\ Goes(i, "idle", "bans")
        /\ check' = [check EXCEPT ![i] = [NoCheck EXCEPT !.player = p]]
        /\ UNCHANGED roomVars
     \/ /\ Goes(i, "idle", "idle")
        /\ room' = [room EXCEPT ![i][p] = "ban"]
        /\ UNCHANGED <<check, chat, dispatch, allowed, fileVars>>
  /\ UNCHANGED <<lobbyVars, tableVars, events>>

(* Stage 2.  Of several bans the query returns one that ends last.         *)
Expired(b) == b.ends < now
Longest(p) == {b \in bans[p] : \A c \in bans[p] : c.ends <= b.ends}

(* Stage 3 is only for players without an account.                         *)
AfterBans(i, account) == IF account \/ Prefs[i].hide THEN "prefs" ELSE "isp"

Refined(c, account, spec, mayChat, failed) ==
  [c EXCEPT !.account = account, !.spec = spec, !.chat = mayChat, !.failed = @ \union failed]

KnownBy(i, account, spec, mayChat, failed) ==
  /\ Goes(i, "bans", AfterBans(i, account))
  /\ check' = [check EXCEPT ![i] = Refined(@, account, spec, mayChat, failed)]
  /\ UNCHANGED roomVars

(* Mutant: a ban that expired is the one the query returns.                *)
ReadOldBan(i) ==
  /\ at[i] = "bans"
  /\ LET p == check[i].player
     IN IF bans[p] = {} THEN KnownBy(i, p \in linked, FALSE, TRUE, {})
        ELSE \E b \in {c \in bans[p] : \A d \in bans[p] : c.ends <= d.ends} :
               \/ b.joining /\ ~Expired(b) /\ Goes(i, "bans", "idle") /\ Reject(i)
               \/ ~b.joining /\ ~Expired(b) /\ KnownBy(i, p \in linked, b.playing, ~b.chatting, {})
               \/ Expired(b) /\ KnownBy(i, p \in linked, FALSE, TRUE, {})
  /\ UNCHANGED <<lobbyVars, tableVars, pkeys, events>>

(* If the query fails the player has no bans and no account.               *)
ReadBans(i) ==
  /\ at[i] = "bans"
  /\ LET p == check[i].player
     IN \/ bans[p] = {} /\ KnownBy(i, p \in linked, FALSE, TRUE, {})
        \/ \E b \in Longest(p) :
             \/ Expired(b) /\ KnownBy(i, p \in linked, FALSE, TRUE, {})
             \/ ~Expired(b) /\ b.joining /\ Goes(i, "bans", "idle") /\ Reject(i)
             \/ /\ ~Expired(b) /\ ~b.joining
                /\ KnownBy(i, p \in linked, b.playing, ~b.chatting, {})
        \/ "bans" \in Faults /\ KnownBy(i, FALSE, FALSE, TRUE, {"bans"})
  /\ UNCHANGED <<lobbyVars, tableVars, pkeys, events>>

(* Stage 3: checkASNbanned and the verdict of the ISP checker.             *)
ReadIsp(i) ==
  /\ at[i] = "isp"
  /\ IF check[i].player \in Proxies
       THEN \/ Goes(i, "isp", "idle") /\ Reject(i)
            \/ /\ "isp" \in Faults /\ Goes(i, "isp", "prefs")
               /\ check' = [check EXCEPT ![i] = Refined(@, @.account, @.spec, @.chat, {"isp"})]
               /\ UNCHANGED roomVars
       ELSE Goes(i, "isp", "prefs") /\ UNCHANGED <<check, roomVars>>
  /\ UNCHANGED <<lobbyVars, tableVars, pkeys, events>>

(* Stages 4 and 5: the preferences of the room, then the games the player  *)
(* left early, found by his key or by the account known since stage 2.     *)
ReadLimit(i) ==
  /\ LET c        == check[i]
         unlinked == ~c.account
         found    == c.player \in limited /\ (c.player \in pkeys \/ c.account)
         Known(limit, failed) ==
           /\ Goes(i, "prefs", "moved")
           /\ check' = [check EXCEPT ![i] =
                          Refined(c, c.account, c.spec \/ (unlinked /\ ~Prefs[i].play) \/ limit,
                                  c.chat /\ ~(unlinked /\ ~Prefs[i].chat), failed)]
           /\ UNCHANGED roomVars
     IN \/ unlinked /\ ~Prefs[i].join /\ Goes(i, "prefs", "idle") /\ Reject(i)
        \/ /\ c.account \/ Prefs[i].join
           /\ Known(found, {}) \/ ("limited" \in Faults /\ Known(FALSE, {"limited"}))
  /\ UNCHANGED <<lobbyVars, tableVars, pkeys, events>>

(* Stage 6: was he moved out of this room?                                 *)
Told(c, there) ==
  [c EXCEPT !.wasMoved = IF there THEN "yes" ELSE "no", !.spec = @ \/ there]

WasMovedOut(i) ==
  /\ Goes(i, "moved", "last")
  /\ check' = [check EXCEPT ![i] = Told(@, present(@.player, i))]
  /\ movedOut' = cleanup(movedOut)
  /\ UNCHANGED <<lobby, tableVars, pkeys, roomVars, events>>

checkIPmuted(p) == p \in MutedIPs

(* Stage 7 and the terminated accounts, found by the key; then the answer. *)
ReadTerminated(i) ==
  /\ Goes(i, "last", "idle")
  /\ LET c     == check[i]
         found == c.player \in linked \intersect terminated \intersect pkeys
         muted == ~c.account /\ checkIPmuted(c.player)
     IN \/ Approve(i, c.spec \/ found, c.chat /\ ~muted)
        \/ "terminated" \in Faults /\ Approve(i, c.spec, c.chat /\ ~muted)
  /\ UNCHANGED <<lobbyVars, tableVars, pkeys, events>>

-----------------------------------------------------------------------------
(* The other lines about players.                                          *)

(* Mutant: a player without a dispatch may chat.                           *)
JoinsUnlessMuted(i, p) ==
  /\ at[i] = "idle" /\ room[i][p] \in Approved \union {"in"}
  /\ room' = [room EXCEPT ![i][p] = "in"]
  /\ chat' = IF dispatch[i][p] # "mute" THEN [chat EXCEPT ![i] = @ \union {p}] ELSE chat
  /\ dispatch' = [dispatch EXCEPT ![i][p] = "none"]
  /\ UNCHANGED <<lobbyVars, tableVars, pkeys, runnerVars, allowed, fileVars, events>>

(* messageHandlerProcessIdentityJoin, on "player join: " and on "player    *)
(* identity VERIFIED: ": the dispatch is used up, and those of other       *)
(* players are purged when they are older than 15 seconds.                 *)
PlayerJoins(i, p) ==
  /\ at[i] = "idle" /\ room[i][p] \in Approved \union {"in"}
  /\ room' = [room EXCEPT ![i][p] = "in"]
  /\ chat' = IF dispatch[i][p] = "chat" THEN [chat EXCEPT ![i] = @ \union {p}] ELSE chat
  /\ \E old \in SUBSET Players :
       dispatch' = [dispatch EXCEPT ![i] =
                      [q \in Players |-> IF q = p \/ q \in old THEN "none" ELSE dispatch[i][q]]]
  /\ UNCHANGED <<lobbyVars, tableVars, pkeys, runnerVars, allowed, fileVars, events>>

(* A blacklisted name or message, in a chat line or in "player identity    *)
(* UNVERIFIED: ".                                                          *)
Blacklisted(i, p) ==
  /\ at[i] = "idle" /\ room[i][p] = "in"
  /\ room' = [room EXCEPT ![i][p] = "ban"]
  /\ chat' = [chat EXCEPT ![i] = @ \ {p}]
  /\ UNCHANGED <<lobbyVars, tableVars, pkeys, runnerVars, dispatch, allowed, fileVars, events>>

(* The player goes, or gives up before he is in.  The next time he starts  *)
(* without the right to chat.                                              *)
PlayerLeaves(i, p) ==
  /\ room[i][p] \in Approved \union {"in"}
  /\ room' = [room EXCEPT ![i][p] = "out"]
  /\ chat' = [chat EXCEPT ![i] = @ \ {p}]
  /\ UNCHANGED <<lobbyVars, tableVars, pkeys, runnerVars, dispatch, allowed, fileVars, events>>

(* Everybody else: administrators, the website, time, a kill.              *)

TableChange ==
  /\ events < MaxEvents /\ events' = events + 1
  /\ \/ \E p \in Players, b \in Bans :
          /\ bans' = [bans EXCEPT ![p] = @ \union {b}]
          /\ UNCHANGED <<linked, terminated, limited>>
     \/ \E p \in Players : linked' = linked \union {p} /\ UNCHANGED <<bans, terminated, limited>>
     \/ \E p \in Players : terminated' = terminated \union {p} /\ UNCHANGED <<bans, linked, limited>>
     \/ \E p \in Players : limited' = limited \union {p} /\ UNCHANGED <<bans, linked, terminated>>
  /\ UNCHANGED <<lobbyVars, now, pkeys, runnerVars, roomVars>>

Tick ==
  /\ now < MaxTime /\ now' = now + 1
  /\ UNCHANGED <<lobbyVars, bans, linked, terminated, limited, pkeys, runnerVars, roomVars, events>>

(* A kill and the next boot: the games stay, and recoverLoad takes         *)
(* OnJoinDispatch from the file.                                           *)
Restart ==
  /\ events < MaxEvents /\ events' = events + 1
  /\ movedOut' = [p \in Players |-> [i \in Insts |-> 0]]
  /\ dispatch' = saved
  /\ revived' = [i \in Insts |-> revived[i] \union ({p \in Players : saved[i][p] = "chat"} \ allowed[i])]
  /\ at' = [i \in Insts |-> "idle"] /\ check' = [i \in Insts |-> NoCheck]
  /\ UNCHANGED <<lobby, tableVars, pkeys, room, chat, allowed, saved>>

-----------------------------------------------------------------------------
(* What holds of a player whose join is being checked, in other words than *)
(* the queries: every ban in force says so, whatever the order of the      *)
(* bans.                                                                   *)
BanKinds           == {"joining", "playing", "chatting"}
InForce(p)         == {b \in bans[p] : ~Expired(b)}
AllForbid(p, what) == InForce(p) # {} /\ \A b \in InForce(p) : b[what]

Restrictions(i) ==
  LET p == check[i].player
  IN {what \in BanKinds : p # Nobody /\ AllForbid(p, what)}
     \union (IF p \notin linked THEN {"unlinked"} ELSE {})
     \union (IF p \notin linked /\ p # Nobody /\ p \in Proxies THEN {"isp"} ELSE {})
     \union (IF p \in limited \intersect pkeys THEN {"limited"} ELSE {})
     \union (IF p # Nobody /\ i \in lobby /\ movedOut[p][i] > 0 THEN {"moved"} ELSE {})
     \union (IF p \in linked \intersect terminated \intersect pkeys THEN {"terminated"} ELSE {})

Watch ==
  held' = [i \in Insts |->
             IF at'[i] \notin Checking THEN {}
             ELSE IF at[i] \in Checking THEN held[i] \intersect Restrictions(i)'
             ELSE Restrictions(i)']

Init ==
  /\ lobby = Insts
  /\ movedOut = [p \in Players |-> [i \in Insts |-> 0]]
  /\ bans = [p \in Players |-> {}]
  /\ linked = {} /\ terminated = {} /\ limited = {} /\ pkeys = {}
  /\ now = 0 /\ events = 0
  /\ at = [i \in Insts |-> "idle"] /\ check = [i \in Insts |-> NoCheck]
  /\ room = [i \in Insts |-> [p \in Players |-> "out"]]
  /\ chat = [i \in Insts |-> {}] /\ allowed = [i \in Insts |-> {}]
  /\ dispatch = [i \in Insts |-> NoDispatch] /\ saved = dispatch
  /\ revived = [i \in Insts |-> {}]
  /\ held = [i \in Insts |-> {}]

(* A runner goes on with its line.                                         *)
Step(i) ==
  ReadBans(i) \/ ReadIsp(i) \/ ReadLimit(i) \/ WasMovedOut(i) \/ ReadTerminated(i)

Line(i) ==
  \/ HandleLobbyId(i) \/ LeaveLobby(i)
  \/ \E p \in Players :
       \/ JoinApproval(i, p) \/ PlayerJoins(i, p) \/ Blacklisted(i, p)
       \/ MovedPlayerToSpec(i, p) \/ MovedSpecToPlayer(i, p) \/ PlayerLeaves(i, p)

Next ==
  /\ (\E i \in Insts : Step(i) \/ Line(i)) \/ TableChange \/ Tick \/ Restart
  /\ Watch

Spec == Init /\ [][Next]_vars

-----------------------------------------------------------------------------
(* Properties.                                                             *)

(* Every variable has its type.                                            *)
TypeOK ==
  /\ lobby \subseteq Insts
  /\ movedOut \in [Players -> [Insts -> Nat]]
  /\ bans \in [Players -> SUBSET Bans]
  /\ linked \subseteq Players /\ terminated \subseteq Players /\ limited \subseteq Players
  /\ pkeys \subseteq Players
  /\ now \in 0..MaxTime /\ events \in 0..MaxEvents
  /\ at \in [Insts -> Checking \union {"idle"}]
  /\ check \in [Insts -> Checks]
  /\ room \in [Insts -> [Players -> {"out", "in", "ban"} \union Approved]]
  /\ chat \in [Insts -> SUBSET Players] /\ allowed \in [Insts -> SUBSET Players]
  /\ dispatch \in [Insts -> [Players -> {"none", "mute", "chat"}]]
  /\ saved \in [Insts -> [Players -> {"none", "mute", "chat"}]]
  /\ revived \in [Insts -> SUBSET Players]

(* What an answer has to look like.                                        *)
Answers(i) == at[i] \in Checking /\ at'[i] = "idle" /\ events' = events

Respects(i) ==
  LET p        == check[i].player
      failed   == check[i].failed
      in       == held[i] \ (failed \union (IF "bans" \in failed THEN BanKinds ELSE {})
                             \union (Faults \intersect {"terminated"}))
      unlinked == "unlinked" \in in
      refuse   == "joining" \in in \/ ("isp" \in in /\ ~Prefs[i].hide) \/ (unlinked /\ ~Prefs[i].join)
      spec     == in \intersect {"playing", "limited", "moved", "terminated"} # {}
                  \/ (unlinked /\ ~Prefs[i].play)
      mute     == "chatting" \in in \/ (unlinked /\ (~Prefs[i].chat \/ p \in MutedIPs))
  IN /\ refuse => room'[i][p] \notin Approved
     /\ spec => room'[i][p] # "approve"
     /\ mute /\ room'[i][p] \in Approved => dispatch'[i][p] = "mute"

(* The answer to a join respects every restriction that was in force all   *)
(* the while, although the check reads the tables and the map of moves     *)
(* one after the other while others write to them, and although its stages *)
(* return early or raise one another's result (joinCheck).  A ban counts   *)
(* if all bans in force agree, for only one is read; and a restriction     *)
(* counts only if its query did not fail, for the check then goes on.      *)
DecisionRespects == [][\A i \in Insts : Answers(i) => Respects(i)]_vars

(* Nobody chats who was not allowed to by his last approval: a dispatch is *)
(* replaced by the next one and used once (OnJoinDispatch).  The exception *)
(* are those whose older dispatch came back with a restart: such a player  *)
(* may chat although connfilter.go told him "You are banned from chatting  *)
(* in this room".                                                          *)
NoStaleGrant == \A i \in Insts : chat[i] \subseteq allowed[i] \union revived[i]

Moves == INSTANCE MovedOut WITH
  moved  <- {m \in Players \X Insts : movedOut[m[1]][m[2]] > 0},
  open   <- lobby,
  answer <- [i \in Insts |-> check[i].wasMoved]

(* The map of moved players (joincheckWasMovedOut), kept in lists that are *)
(* cleaned only when they are used and shared by the rooms, behaves as the *)
(* relation of MovedOut: nobody is taken for moved out of a room who was   *)
(* not, or who was moved back, and a room in the lobby forgets nobody,     *)
(* whatever the other rooms do, and when a room leaves and comes back.     *)
ImplementsMovedOut == Moves!Spec
=============================================================================
