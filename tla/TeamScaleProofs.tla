---------------------------- MODULE TeamScaleProofs ----------------------------
(***************************************************************************)
(* No worker is run by two panes, no live pane is lost from team.json, the *)
(* receipts form one chain, and a stopped team is quiet: for a team of any *)
(* size and view, any number of panes, generations, ended panes, faults    *)
(* and killed operations.                                                  *)
(* One fact about the program is needed for all but the chain of the       *)
(* receipts: a scale-up looks for the panes of an earlier attempt before   *)
(* it creates any, which it does in the legacy view only (the run          *)
(* ScaleOrphan shows what happens in the others).                          *)
(***************************************************************************)
EXTENDS TeamScale, FiniteSetTheorems, TLAPS

LooksFirst == AddViews \subseteq {"legacy_windows"}

Adds == {"add", "relaunch"}

(* A pane that was launched for worker w by the operation of now.          *)
Fits(p, w) ==
  p # NoPane /\ panes[p].state # "absent" /\ panes[p].worker = w /\ panes[p].generation = Coming

Gone(w) == team.roster[w] \notin Live

(* The workers a scale-down whose receipt is written has to kill.          *)
Victims == {w \in Active : receipt[Coming].roster[w] = NoPane}

-----------------------------------------------------------------------------
(* Types.                                                                  *)
TeamType ==
  team \in [view : Views, own : BOOLEAN, generation : 0..MaxGeneration, roster : Roster,
            next : 1..(MaxWorkers + 1), stop : StopState, stopped : BOOLEAN]

PanesType ==
  panes \in [Panes -> [state : {"absent", "live", "ended"}, worker : 0..MaxWorkers,
                       generation : 0..MaxGeneration]]

FilesType ==
  /\ wal \in [Generations -> [op : Operation, who : SUBSET Workers]]
  /\ receipt \in [0..MaxGeneration -> [op : Operation \cup {"launch"}, roster : Roster]]

OpType ==
  op \in [pc : Pc, kind : Operation \cup {"stop"}, todo : SUBSET Workers, bound : Roster,
          retry : BOOLEAN, failed : BOOLEAN]

RestType ==
  /\ transport \in {"up", "gone"}
  /\ spent \in [ends : 0..MaxEnds, faults : 0..MaxFaults, kills : 0..MaxKills]

Types == TeamType /\ PanesType /\ FilesType /\ OpType /\ RestType

(* A row names a pane of its own worker, of a committed generation.        *)
RosterInv ==
  \A w \in Workers :
    /\ w >= team.next => team.roster[w] = NoPane
    /\ team.roster[w] # NoPane =>
         /\ panes[team.roster[w]].state # "absent"
         /\ panes[team.roster[w]].worker = w
         /\ panes[team.roster[w]].generation <= team.generation

(* A pane is launched only for a worker of a log that was published        *)
(* before. A live pane is the one of its row, or the only one its pending  *)
(* operation launched for the worker.                                      *)
PaneInv ==
  /\ \A p \in Panes : panes[p].state # "absent" =>
       /\ panes[p].worker \in Workers /\ panes[p].generation <= Coming
       /\ panes[p].generation = Coming => panes[p].worker \in wal[Coming].who
  /\ \A p \in Live : panes[p].generation <= team.generation => team.roster[panes[p].worker] = p
  /\ \A p, q \in Live :
       panes[p].generation = Coming /\ panes[q].generation = Coming
         /\ panes[p].worker = panes[q].worker => p = q
  /\ team.stopped => Live = {}

(* A log adds workers above every row, or relaunches rows whose pane is    *)
(* gone: it never launches beside a live pane.                             *)
WalInv ==
  Coming \in Generations =>
    /\ wal[Coming].op \in Adds \cup {"none"}
    /\ wal[Coming].op = "none" => wal[Coming].who = {}
    /\ wal[Coming].op = "add" =>
         Legacy /\ \E m \in team.next..MaxWorkers : wal[Coming].who = team.next..m
    /\ wal[Coming].op = "relaunch" => \A w \in wal[Coming].who : w \in Active /\ Gone(w)

(* A receipt that waits for its commit names every live pane of its        *)
(* operation, and keeps the rows that it is not about.                     *)
ReceiptInv ==
  Coming \in Generations =>
    /\ receipt[Coming].op \in Adds \cup {"none", "remove"}
    /\ receipt[Coming].op = "remove" =>
         wal[Coming].op = "none" /\ \A w \in Workers : receipt[Coming].roster[w] \in {team.roster[w], NoPane}
    /\ receipt[Coming].op \in Adds =>
         /\ wal[Coming].op = receipt[Coming].op
         /\ \A w \in Workers :
              IF w \in wal[Coming].who THEN Fits(receipt[Coming].roster[w], w)
              ELSE receipt[Coming].roster[w] = team.roster[w]
         /\ \A p \in Live : panes[p].generation = Coming => receipt[Coming].roster[panes[p].worker] = p

(* One generation is ahead of team.json, and none of a stopped team.       *)
ChainInv ==
  /\ receipt[team.generation].roster = team.roster
  /\ \A g \in Generations :
       /\ g > Coming => receipt[g] = NoReceipt /\ wal[g] = NoWal
       /\ wal[g].op # "none" /\ receipt[g].op # "none" => wal[g].op = receipt[g].op
  /\ Pending => ~team.stopped

Files == RosterInv /\ PaneInv /\ WalInv /\ ReceiptInv /\ ChainInv

(* What the holder of the lock knows at each of its steps. Launching, it   *)
(* has bound the workers it is done with, each to its only live pane;      *)
(* killing, it has failed or the victims it is done with are gone.         *)
Launching == op.pc = "launch" \/ (op.pc = "receipt" /\ op.kind # "remove")

RequestInv ==
  op.pc = "wal" =>
    /\ ~Pending /\ op.kind \in Adds /\ op.bound = NoRoster
    /\ op.kind = "add" => Legacy /\ \E m \in team.next..MaxWorkers : op.todo = team.next..m
    /\ op.kind = "relaunch" => \A w \in op.todo : w \in Active /\ Gone(w)

LaunchInv ==
  Launching =>
    /\ op.kind \in Adds /\ op.kind = wal[Coming].op /\ receipt[Coming].op = "none"
    /\ op.todo \subseteq wal[Coming].who
    /\ \A w \in wal[Coming].who \ op.todo : op.bound[w] # NoPane
    /\ \A w \in Workers : op.bound[w] # NoPane =>
         /\ w \in wal[Coming].who \ op.todo /\ Fits(op.bound[w], w)
         /\ \A p \in Live : panes[p].worker = w /\ panes[p].generation = Coming => p = op.bound[w]

CommitInv ==
  /\ op.pc = "receipt" => IF op.kind = "remove" THEN ~Pending ELSE op.todo = {}
  /\ op.pc \in {"kill", "commit"} => receipt[Coming].op = op.kind /\ op.kind \in Adds \cup {"remove"}
  /\ op.pc = "kill" => op.kind = "remove" /\ \A w \in Victims \ op.todo : op.failed \/ Gone(w)
  /\ op.pc = "commit" /\ op.kind = "remove" => \A w \in Victims : Gone(w)

StopInv ==
  /\ op.pc \in {"verify", "signal", "teardown", "stopped"} => ~Pending
  /\ op.pc = "signal" => \A w \in Active \ op.todo : op.failed \/ Gone(w)
  /\ op.pc = "teardown" => \A w \in Active : Gone(w)
  /\ op.pc = "stopped" => Live = {}

OpInv ==
  /\ op.pc \in {"wal", "launch", "receipt", "kill", "commit"} => Coming \in Generations /\ ~team.stopped
  /\ RequestInv /\ LaunchInv /\ CommitInv /\ StopInv

ScaleInv == Types /\ Files /\ OpInv

-----------------------------------------------------------------------------
(* The steps that launch no pane and commit no generation.                 *)
Ends ==
  /\ panes' \in [Panes -> [state : {"absent", "live", "ended"}, worker : 0..MaxWorkers,
                           generation : 0..MaxGeneration]]
  /\ \A p \in Panes :
       /\ panes'[p].worker = panes[p].worker /\ panes'[p].generation = panes[p].generation
       /\ panes'[p].state = "absent" <=> panes[p].state = "absent"
       /\ panes'[p].state = "live" => panes[p].state = "live"

SameRows ==
  /\ team'.generation = team.generation /\ team'.roster = team.roster
  /\ team'.next = team.next /\ team'.view = team.view

Calm ==
  /\ UNCHANGED <<wal, receipt>> /\ SameRows /\ Ends
  /\ team'.stopped => team.stopped \/ (~Pending /\ Live' = {})

(* Ending panes that were created is calm, and ends just these.            *)
LEMMA EndIsCalm ==
  ASSUME PanesType, NEW S, \A p \in S \cap Panes : panes[p].state # "absent", End(S)
  PROVE  Ends /\ Live' = Live \ S
PROOF
<1>1. ASSUME NEW p \in Panes
      PROVE  /\ panes'[p] = IF p \in S THEN [panes[p] EXCEPT !.state = "ended"] ELSE panes[p]
             /\ panes'[p] \in [state : {"absent", "live", "ended"}, worker : 0..MaxWorkers,
                               generation : 0..MaxGeneration]
             /\ panes'[p].worker = panes[p].worker /\ panes'[p].generation = panes[p].generation
             /\ panes'[p].state = IF p \in S THEN "ended" ELSE panes[p].state
  BY DEF End, PanesType
<1>2. DOMAIN panes' = Panes /\ panes' = [p \in Panes |-> panes'[p]]
  BY DEF End
<1>3. panes' \in [Panes -> [state : {"absent", "live", "ended"}, worker : 0..MaxWorkers,
                            generation : 0..MaxGeneration]]
  BY <1>1, <1>2
<1>4. Ends
  BY <1>1, <1>3 DEF Ends
<1>5. Live' = Live \ S
  BY <1>1 DEF Live
<1> QED BY <1>4, <1>5

LEMMA NothingIsCalm == ASSUME PanesType, UNCHANGED panes PROVE Ends /\ Live' = Live
PROOF BY DEF PanesType, Ends, Live

(* Whatever panes are among the living after a step that ends panes were   *)
(* before.                                                                 *)
LEMMA EndsShrink == ASSUME Ends PROVE Live' \subseteq Live
PROOF BY DEF Ends, Live

-----------------------------------------------------------------------------
(* A calm step keeps what the files and the panes say of each other.       *)
LEMMA CalmKeepsFiles ==
  ASSUME Types, Files, Calm
  PROVE  Files' /\ Coming' = Coming /\ Pending' = Pending
PROOF
<1>1. /\ wal' = wal /\ receipt' = receipt
      /\ team'.generation = team.generation /\ team'.roster = team.roster
      /\ team'.next = team.next /\ team'.view = team.view
  BY DEF Calm, SameRows
<1>2. /\ Coming' = Coming /\ Pending' = Pending /\ Active' = Active /\ Legacy' = Legacy
  BY <1>1 DEF Coming, Pending, PendingWal, PendingReceipt, Active, Legacy
<1>3. /\ \A p \in Panes :
           /\ panes'[p].worker = panes[p].worker /\ panes'[p].generation = panes[p].generation
           /\ panes'[p].state = "absent" <=> panes[p].state = "absent"
      /\ Live' \subseteq Live /\ Live \subseteq Panes
  BY EndsShrink DEF Calm, Ends, Live
<1>4. RosterInv'
  <2>1. \A w \in Workers : team.roster[w] # NoPane => team.roster[w] \in Panes
    BY DEF Types, TeamType, Roster
  <2> QED BY <1>1, <1>3, <2>1 DEF Files, RosterInv
<1>5. PaneInv'
  <2>1. team'.stopped => Live' = {}
    BY <1>3 DEF Files, PaneInv, Calm
  <2>2. \A p \in Panes : panes'[p].state # "absent" =>
          /\ panes'[p].worker \in Workers /\ panes'[p].generation <= Coming'
          /\ panes'[p].generation = Coming' => panes'[p].worker \in wal'[Coming'].who
    BY <1>1, <1>2, <1>3 DEF Files, PaneInv
  <2>3. \A p \in Live' : panes'[p].generation <= team'.generation => team'.roster[panes'[p].worker] = p
    BY <1>1, <1>3 DEF Files, PaneInv
  <2>4. \A p, q \in Live' :
          panes'[p].generation = Coming' /\ panes'[q].generation = Coming'
            /\ panes'[p].worker = panes'[q].worker => p = q
    BY <1>2, <1>3 DEF Files, PaneInv
  <2> QED BY <2>1, <2>2, <2>3, <2>4 DEF PaneInv
<1>6. WalInv'
  <2>1. \A w : Gone(w) => Gone(w)'
    BY <1>1, <1>3 DEF Gone
  <2> QED BY <1>1, <1>2, <2>1 DEF Files, WalInv
<1>7. ReceiptInv'
  <2> SUFFICES ASSUME Coming \in Generations
               PROVE  /\ receipt[Coming].op \in Adds \cup {"none", "remove"}
                      /\ receipt[Coming].op = "remove" =>
                           /\ wal[Coming].op = "none"
                           /\ \A w \in Workers : receipt[Coming].roster[w] \in {team.roster[w], NoPane}
                      /\ receipt[Coming].op \in Adds =>
                           /\ wal[Coming].op = receipt[Coming].op
                           /\ \A w \in Workers :
                                IF w \in wal[Coming].who THEN Fits(receipt[Coming].roster[w], w)'
                                ELSE receipt[Coming].roster[w] = team.roster[w]
                           /\ \A p \in Live' : panes'[p].generation = Coming =>
                                receipt[Coming].roster[panes'[p].worker] = p
    BY <1>1, <1>2 DEF ReceiptInv, Fits
  <2>1. ReceiptInv
    BY DEF Files
  <2>2. \A w \in Workers : receipt[Coming].roster[w] \in Panes \cup {NoPane}
    BY DEF Types, FilesType, Roster, Generations
  <2>3. \A w \in Workers :
          Fits(receipt[Coming].roster[w], w) => Fits(receipt[Coming].roster[w], w)'
    BY <1>1, <1>2, <1>3, <2>2 DEF Fits
  <2> QED BY <1>3, <2>1, <2>3 DEF ReceiptInv
<1>8. ChainInv'
  BY <1>1, <1>2 DEF Files, ChainInv, Calm
<1> QED BY <1>2, <1>4, <1>5, <1>6, <1>7, <1>8 DEF Files

(* What the holder knows does not depend on panes staying alive.           *)
LEMMA EndsKeepOpInv ==
  ASSUME Types, OpInv, Ends, UNCHANGED <<team, wal, receipt, op>>
  PROVE  OpInv'
PROOF
<1>1. /\ Coming' = Coming /\ Pending' = Pending /\ Active' = Active /\ Legacy' = Legacy
      /\ Victims' = Victims /\ Launching' = Launching
  BY DEF Coming, Pending, PendingWal, PendingReceipt, Active, Legacy, Victims, Launching
<1>2. /\ \A p \in Panes :
           /\ panes'[p].worker = panes[p].worker /\ panes'[p].generation = panes[p].generation
           /\ panes'[p].state = "absent" <=> panes[p].state = "absent"
      /\ Live' \subseteq Live /\ Live \subseteq Panes
  BY EndsShrink DEF Ends, Live
<1>3. \A w : Gone(w) => Gone(w)'
  BY <1>2 DEF Gone
<1>4. RequestInv'
  BY <1>1, <1>3 DEF OpInv, RequestInv
<1>5. LaunchInv'
  <2>1. \A w \in Workers : op.bound[w] \in Panes \cup {NoPane}
    BY DEF Types, OpType, Roster
  <2>2. \A w \in Workers : Fits(op.bound[w], w) => Fits(op.bound[w], w)'
    BY <1>1, <1>2, <2>1 DEF Fits
  <2>3. \A w \in Workers :
          (\A p \in Live : panes[p].worker = w /\ panes[p].generation = Coming => p = op.bound[w])
            => (\A p \in Live' : panes'[p].worker = w /\ panes'[p].generation = Coming' => p = op'.bound[w])
    BY <1>1, <1>2
  <2> SUFFICES ASSUME Launching
               PROVE  /\ op.kind \in Adds /\ op.kind = wal[Coming].op /\ receipt[Coming].op = "none"
                      /\ op.todo \subseteq wal[Coming].who
                      /\ \A w \in wal[Coming].who \ op.todo : op.bound[w] # NoPane
                      /\ \A w \in Workers : op.bound[w] # NoPane =>
                           /\ w \in wal[Coming].who \ op.todo /\ Fits(op.bound[w], w)'
                           /\ \A p \in Live' : panes'[p].worker = w /\ panes'[p].generation = Coming' =>
                                p = op'.bound[w]
    BY <1>1 DEF LaunchInv, Fits
  <2> QED BY <2>2, <2>3 DEF OpInv, LaunchInv
<1>6. CommitInv'
  BY <1>1, <1>3 DEF OpInv, CommitInv
<1>7. StopInv'
  BY <1>1, <1>2, <1>3 DEF OpInv, StopInv
<1> QED BY <1>1, <1>4, <1>5, <1>6, <1>7 DEF OpInv

(* An operation that returns leaves the lock to the next one.              *)
LEMMA ReturnKeepsOpInv ==
  ASSUME op' = Idle
  PROVE  OpInv' /\ OpType'
PROOF
<1>1. /\ op'.pc = "idle" /\ Idle \in [pc : Pc, kind : Operation \cup {"stop"}, todo : SUBSET Workers,
           bound : Roster, retry : BOOLEAN, failed : BOOLEAN]
  BY DEF Idle, Pc, Operation, NoRoster, Roster
<1>2. OpType'
  BY <1>1 DEF OpType
<1>3. OpInv'
  BY <1>1 DEF OpInv, RequestInv, LaunchInv, Launching, CommitInv, StopInv
<1> QED BY <1>2, <1>3

-----------------------------------------------------------------------------
(* The requests, which take the lock.                                      *)
OpSet ==
  [pc : Pc, kind : Operation \cup {"stop"}, todo : SUBSET Workers, bound : Roster,
   retry : BOOLEAN, failed : BOOLEAN]

LEMMA IdleFacts == Idle \in OpSet /\ Idle.bound = NoRoster /\ ~Idle.failed
PROOF BY DEF Idle, OpSet, Pc, Operation, NoRoster, Roster

LEMMA RequestFacts ==
  ASSUME NEW pc \in Pc, NEW kind \in Operation \cup {"stop"}, NEW todo \in SUBSET Workers,
         op' = [Idle EXCEPT !.pc = pc, !.kind = kind, !.todo = todo]
  PROVE  OpType' /\ op'.pc = pc /\ op'.kind = kind /\ op'.todo = todo /\ op'.bound = NoRoster
PROOF BY IdleFacts DEF OpSet, OpType

(* A step of the lock's holder that moves nothing else.                    *)
LEMMA QuietFacts ==
  ASSUME Types, Files, UNCHANGED <<team, wal, receipt, panes, transport, spent>>, OpType'
  PROVE  /\ Types' /\ Files'
         /\ Coming' = Coming /\ Pending' = Pending /\ Active' = Active /\ Legacy' = Legacy
         /\ Victims' = Victims /\ Live' = Live /\ \A w : Gone(w)' = Gone(w)
PROOF
<1>1. Calm
  BY NothingIsCalm DEF Types, FilesType, TeamType, Calm, SameRows, Files, PaneInv
<1>2. Files' /\ Coming' = Coming /\ Pending' = Pending
  BY <1>1, CalmKeepsFiles
<1>3. Types'
  BY DEF Types, TeamType, PanesType, FilesType, RestType
<1>4. Live' = Live /\ Active' = Active /\ Legacy' = Legacy
  BY DEF Live, Active, Legacy
<1>5. Victims' = Victims /\ \A w : Gone(w)' = Gone(w)
  BY <1>2, <1>4 DEF Victims, Gone
<1> QED BY <1>2, <1>3, <1>4, <1>5

LEMMA AddRequestStep ==
  ASSUME LooksFirst, ScaleInv, NEW n \in Sizes, AddRequest(n)
  PROVE  ScaleInv'
PROOF
<1> DEFINE todo == team.next..(team.next + n - 1)
<1>1. n \in Nat \ {0} /\ team.next \in 1..(MaxWorkers + 1) /\ MaxWorkers \in Nat
  BY SizesAssumption, LaunchedAssumption DEF ScaleInv, Types, TeamType
<1>2. /\ todo \in SUBSET Workers /\ team.next + n - 1 \in team.next..MaxWorkers
  BY <1>1 DEF AddRequest, Workers
<1>3. op' = [Idle EXCEPT !.pc = "wal", !.kind = "add", !.todo = todo]
  BY DEF AddRequest
<1>4. "wal" \in Pc /\ "add" \in Operation \cup {"stop"}
  BY DEF Pc, Operation
<1> HIDE DEF todo
<1>5. /\ OpType'
      /\ op'.pc = "wal" /\ op'.kind = "add" /\ op'.todo = todo /\ op'.bound = NoRoster
  BY <1>2, <1>3, <1>4, RequestFacts DEF ScaleInv
<1>6. UNCHANGED <<team, wal, receipt, panes, transport, spent>>
  BY DEF AddRequest
<1>7. /\ Types' /\ Files'
      /\ Coming' = Coming /\ Pending' = Pending /\ Legacy' = Legacy
  BY <1>5, <1>6, QuietFacts DEF ScaleInv
<1>8. ~Pending /\ Coming \in Generations /\ ~team.stopped /\ Legacy
  BY DEF AddRequest, Running, LooksFirst, Legacy
<1>9. \E m \in team.next..MaxWorkers : todo = team.next..m
  BY <1>2 DEF todo
<1>10. RequestInv'
  BY <1>5, <1>6, <1>7, <1>8, <1>9 DEF RequestInv, Adds
<1>11. OpInv'
  BY <1>5, <1>6, <1>7, <1>8, <1>10 DEF OpInv, LaunchInv, Launching, CommitInv, StopInv
<1> QED BY <1>7, <1>11 DEF ScaleInv

LEMMA RelaunchRequestStep ==
  ASSUME ScaleInv, NEW C \in SUBSET Active, RelaunchRequest(C)
  PROVE  ScaleInv'
PROOF
<1>1. op' = [Idle EXCEPT !.pc = "wal", !.kind = "relaunch", !.todo = C]
  BY DEF RelaunchRequest
<1>2. "wal" \in Pc /\ "relaunch" \in Operation \cup {"stop"} /\ C \in SUBSET Workers
  BY DEF Pc, Operation, Active
<1>3. /\ OpType'
      /\ op'.pc = "wal" /\ op'.kind = "relaunch" /\ op'.todo = C /\ op'.bound = NoRoster
  BY <1>1, <1>2, RequestFacts DEF ScaleInv
<1>4. UNCHANGED <<team, wal, receipt, panes, transport, spent>>
  BY DEF RelaunchRequest
<1>5. /\ Types' /\ Files'
      /\ Coming' = Coming /\ Pending' = Pending /\ Active' = Active /\ \A w : Gone(w)' = Gone(w)
  BY <1>3, <1>4, QuietFacts DEF ScaleInv
<1>6. ~Pending /\ Coming \in Generations /\ ~team.stopped /\ \A w \in C : w \in Active /\ Gone(w)
  BY DEF RelaunchRequest, Gone
<1>7. RequestInv'
  BY <1>3, <1>5, <1>6 DEF RequestInv, Adds
<1>8. OpInv'
  BY <1>3, <1>4, <1>5, <1>6, <1>7 DEF OpInv, LaunchInv, Launching, CommitInv, StopInv
<1> QED BY <1>5, <1>8 DEF ScaleInv

LEMMA RemoveRequestStep ==
  ASSUME ScaleInv, NEW V \in SUBSET Active, RemoveRequest(V)
  PROVE  ScaleInv'
PROOF
<1>1. op' = [Idle EXCEPT !.pc = "receipt", !.kind = "remove", !.todo = V]
  BY DEF RemoveRequest
<1>2. "receipt" \in Pc /\ "remove" \in Operation \cup {"stop"} /\ V \in SUBSET Workers
  BY DEF Pc, Operation, Active
<1>3. OpType' /\ op'.pc = "receipt" /\ op'.kind = "remove"
  BY <1>1, <1>2, RequestFacts DEF ScaleInv
<1>4. UNCHANGED <<team, wal, receipt, panes, transport, spent>>
  BY DEF RemoveRequest
<1>5. Types' /\ Files' /\ Coming' = Coming /\ Pending' = Pending
  BY <1>3, <1>4, QuietFacts DEF ScaleInv
<1>6. ~Pending /\ Coming \in Generations /\ ~team.stopped
  BY DEF RemoveRequest, Running
<1>7. OpInv'
  BY <1>3, <1>4, <1>5, <1>6 DEF OpInv, RequestInv, LaunchInv, Launching, CommitInv, StopInv
<1> QED BY <1>5, <1>7 DEF ScaleInv

(* With the receipt written its panes are taken over as they are, without  *)
(* it the launch begins again.                                             *)
LEMMA WalRetryStep ==
  ASSUME ScaleInv, WalRetry
  PROVE  ScaleInv'
PROOF
<1> DEFINE pc == IF PendingReceipt THEN "commit" ELSE "launch"
<1>1. /\ Coming \in Generations /\ wal[Coming].op \in Adds /\ ~team.stopped
      /\ wal[Coming] \in [op : Operation, who : SUBSET Workers]
  BY DEF WalRetry, PendingWal, Pending, ScaleInv, Types, FilesType, Files, WalInv, ChainInv
<1> DEFINE kind == wal[Coming].op
           todo == wal[Coming].who
<1>2. op' = [Idle EXCEPT !.pc = pc, !.kind = kind, !.todo = todo]
  BY DEF WalRetry
<1>3. pc \in Pc /\ kind \in Operation \cup {"stop"} /\ todo \in SUBSET Workers
  BY <1>1 DEF Pc
<1> HIDE DEF pc, kind, todo
<1>4. OpType' /\ op'.pc = pc /\ op'.kind = kind /\ op'.todo = todo /\ op'.bound = NoRoster
  BY <1>2, <1>3, RequestFacts DEF ScaleInv
<1> USE DEF kind, todo
<1>5. UNCHANGED <<team, wal, receipt, panes, transport, spent>>
  BY DEF WalRetry
<1>6. Types' /\ Files' /\ Coming' = Coming
  BY <1>4, <1>5, QuietFacts DEF ScaleInv
<1>7. \A w \in Workers : NoRoster[w] = NoPane
  BY DEF NoRoster
<1>8. "add" # "none" /\ "relaunch" # "none" /\ "add" # "remove" /\ "relaunch" # "remove"
  OBVIOUS
<1>9. CASE PendingReceipt
  <2>1. pc = "commit" /\ receipt[Coming].op = wal[Coming].op
    BY <1>1, <1>9 DEF pc, PendingReceipt, ScaleInv, Files, ReceiptInv, Adds
  <2> QED BY <1>1, <1>4, <1>5, <1>6, <2>1
          DEF ScaleInv, OpInv, RequestInv, LaunchInv, Launching, CommitInv, StopInv, Adds
<1>10. CASE ~PendingReceipt
  <2>1. pc = "launch" /\ receipt[Coming].op = "none"
    BY <1>1, <1>10 DEF pc, PendingReceipt
  <2>2. LaunchInv'
    BY <1>1, <1>4, <1>5, <1>6, <1>7, <2>1 DEF LaunchInv
  <2> QED BY <1>1, <1>4, <1>5, <1>6, <2>1, <2>2
          DEF ScaleInv, OpInv, RequestInv, CommitInv, StopInv
<1> QED BY <1>9, <1>10

LEMMA RemoveRetryStep ==
  ASSUME ScaleInv, RemoveRetry
  PROVE  ScaleInv'
PROOF
<1>1. /\ Coming \in Generations /\ ~team.stopped /\ receipt[Coming].op = "remove"
  BY DEF RemoveRetry, PendingWal, PendingReceipt, Running, ScaleInv, Files, ReceiptInv, Adds
<1>2. op' = [Idle EXCEPT !.pc = "kill", !.kind = "remove", !.retry = TRUE, !.todo = Victims]
  BY DEF RemoveRetry, Victims
<1>3. "kill" \in Pc /\ "remove" \in Operation \cup {"stop"} /\ Victims \in SUBSET Workers
  BY DEF Pc, Operation, Victims, Active
<1>4. OpType' /\ op'.pc = "kill" /\ op'.kind = "remove" /\ op'.todo = Victims
  BY <1>2, <1>3, IdleFacts DEF OpSet, OpType
<1>5. UNCHANGED <<team, wal, receipt, panes, transport, spent>>
  BY DEF RemoveRetry
<1>6. Types' /\ Files' /\ Coming' = Coming /\ Victims' = Victims
  BY <1>4, <1>5, QuietFacts DEF ScaleInv
<1>7. CommitInv'
  BY <1>1, <1>4, <1>5, <1>6 DEF CommitInv
<1>8. OpInv'
  BY <1>1, <1>4, <1>5, <1>6, <1>7 DEF OpInv, RequestInv, LaunchInv, Launching, StopInv
<1> QED BY <1>6, <1>8 DEF ScaleInv

LEMMA StopRequestStep ==
  ASSUME ScaleInv, StopRequest
  PROVE  ScaleInv'
PROOF
<1>1. op' = [Idle EXCEPT !.pc = "verify", !.kind = "stop", !.todo = {}]
  <2>1. op' = [Idle EXCEPT !.pc = "verify", !.kind = "stop"] /\ Idle.todo = {}
    BY DEF StopRequest, Idle
  <2> QED BY <2>1, IdleFacts DEF OpSet
<1>2. "verify" \in Pc /\ "stop" \in Operation \cup {"stop"} /\ {} \in SUBSET Workers
  BY DEF Pc
<1>3. OpType' /\ op'.pc = "verify"
  BY <1>1, <1>2, RequestFacts DEF ScaleInv
<1>4. TeamType' /\ SameRows /\ team'.stopped = team.stopped
  BY DEF StopRequest, ScaleInv, Types, TeamType, StopState, SameRows
<1>5. Calm
  BY <1>4, NothingIsCalm DEF StopRequest, Calm, ScaleInv, Types
<1>6. Files' /\ Pending' = Pending
  BY <1>5, CalmKeepsFiles DEF ScaleInv
<1>7. Types'
  BY <1>3, <1>4 DEF StopRequest, ScaleInv, Types, PanesType, FilesType, RestType
<1>8. OpInv'
  BY <1>3, <1>6 DEF StopRequest, OpInv, RequestInv, LaunchInv, Launching, CommitInv, StopInv
<1> QED BY <1>6, <1>7, <1>8 DEF ScaleInv

-----------------------------------------------------------------------------
(* The steps that return, whatever panes they end on the way.              *)
LEMMA FaultType == ASSUME RestType, Fault, UNCHANGED transport PROVE RestType'
PROOF BY BoundAssumption DEF Fault, RestType

LEMMA CalmReturn ==
  ASSUME ScaleInv, Calm, TeamType', RestType', Return
  PROVE  ScaleInv'
PROOF
<1>1. OpInv' /\ OpType'
  BY ReturnKeepsOpInv DEF Return
<1>2. Files'
  BY CalmKeepsFiles DEF ScaleInv
<1>3. PanesType' /\ FilesType'
  BY DEF Calm, Ends, PanesType, ScaleInv, Types, FilesType
<1> QED BY <1>1, <1>2, <1>3 DEF ScaleInv, Types

LEMMA EndsAreCalm ==
  ASSUME Types, Files, Ends, UNCHANGED <<team, wal, receipt>>
  PROVE  Calm
PROOF BY DEF Calm, SameRows

LEMMA RollBackIsCalm ==
  ASSUME ScaleInv, Launching, NEW kills \in BOOLEAN, RollBack(kills)
  PROVE  Ends
PROOF
<1>1. CASE kills /\ op.kind = "add"
  <2>1. PICK S \in {{}, PanesOf(op.bound)} : End(S)
    BY <1>1 DEF RollBack
  <2>2. \A p \in S \cap Panes : panes[p].state # "absent"
    BY DEF PanesOf, ScaleInv, OpInv, LaunchInv, Fits
  <2> QED BY <2>1, <2>2, EndIsCalm DEF ScaleInv, Types
<1>2. CASE ~(kills /\ op.kind = "add")
  BY <1>2, NothingIsCalm DEF RollBack, ScaleInv, Types
<1> QED BY <1>1, <1>2

LEMMA RollBackStep ==
  ASSUME ScaleInv, LaunchFails \/ BindFails \/ ReceiptFails
  PROVE  ScaleInv'
PROOF
<1>1. Return /\ UNCHANGED <<team, wal, receipt, transport>> /\ (UNCHANGED spent \/ Fault)
  BY DEF LaunchFails, BindFails, ReceiptFails
<1>2. Ends
  <2>1. CASE LaunchFails
    BY <2>1, RollBackIsCalm DEF LaunchFails, Launching
  <2>2. CASE BindFails
    BY <2>2, RollBackIsCalm DEF BindFails, Launching, Legacy
  <2>3. CASE ReceiptFails /\ op.kind # "remove"
    BY <2>3, RollBackIsCalm DEF ReceiptFails, Launching, Legacy
  <2>4. CASE ReceiptFails /\ op.kind = "remove"
    BY <2>4, NothingIsCalm DEF ReceiptFails, RollBack, ScaleInv, Types
  <2> QED BY <2>1, <2>2, <2>3, <2>4
<1>3. Calm
  BY <1>1, <1>2, EndsAreCalm DEF ScaleInv
<1>4. TeamType' /\ RestType'
  BY <1>1, FaultType DEF ScaleInv, Types, TeamType, RestType
<1> QED BY <1>1, <1>3, <1>4, CalmReturn

(* A kill, a commit that fails and the operations that end refused.        *)
LEMMA GivesUpStep ==
  ASSUME ScaleInv, CommitFails \/ Kill \/ StopRefuse
  PROVE  ScaleInv'
PROOF
<1>1. /\ Return /\ UNCHANGED <<wal, receipt, panes, transport>>
      /\ \/ UNCHANGED team
         \/ team' = [team EXCEPT !.stop = "stop_refused"]
  BY DEF CommitFails, Kill, StopRefuse
<1>2. TeamType' /\ SameRows /\ team'.stopped = team.stopped
  BY <1>1 DEF ScaleInv, Types, TeamType, StopState, SameRows
<1>3. Calm
  BY <1>1, <1>2, NothingIsCalm DEF Calm, ScaleInv, Types
<1>4. RestType'
  <2>1. CASE Kill
    BY <2>1, BoundAssumption DEF Kill, ScaleInv, Types, RestType
  <2> QED BY <1>1, <2>1, FaultType DEF CommitFails, StopRefuse, ScaleInv, Types, RestType
<1> QED BY <1>1, <1>2, <1>3, <1>4, CalmReturn

(* A worker's pane ends on its own, under any operation.                   *)
LEMMA WorkerEndsStep ==
  ASSUME ScaleInv, NEW p \in Panes, WorkerEnds(p)
  PROVE  ScaleInv'
PROOF
<1>1. End({p}) /\ UNCHANGED <<team, wal, receipt, transport, op>> /\ panes[p].state # "absent"
  BY DEF WorkerEnds, Live
<1>2. Ends
  BY <1>1, EndIsCalm DEF ScaleInv, Types
<1>3. Files'
  BY <1>1, <1>2, EndsAreCalm, CalmKeepsFiles DEF ScaleInv
<1>4. OpInv'
  BY <1>1, <1>2, EndsKeepOpInv DEF ScaleInv
<1>5. RestType'
  BY BoundAssumption DEF WorkerEnds, ScaleInv, Types, RestType
<1>6. Types'
  BY <1>1, <1>2, <1>5 DEF ScaleInv, Types, TeamType, PanesType, FilesType, OpType, Ends
<1> QED BY <1>3, <1>4, <1>6 DEF ScaleInv

-----------------------------------------------------------------------------
(* The launch.                                                             *)
LEMMA PublishWalStep ==
  ASSUME ScaleInv, PublishWal
  PROVE  ScaleInv'
PROOF
<1> DEFINE log == [op |-> op.kind, who |-> op.todo]
<1>1. /\ Coming \in Generations /\ ~team.stopped /\ ~Pending
      /\ op.kind \in Adds /\ op.bound = NoRoster /\ op.todo \subseteq Workers
      /\ wal[Coming].op = "none" /\ receipt[Coming].op = "none" /\ wal[Coming].who = {}
  BY DEF PublishWal, Pending, PendingWal, PendingReceipt, ScaleInv, OpInv, RequestInv, Types, OpType,
         Files, WalInv
<1>2. log \in [op : Operation, who : SUBSET Workers] /\ log.op = op.kind /\ log.who = op.todo
  BY <1>1 DEF Operation, Adds
<1> HIDE DEF log
<1>3. /\ wal' = [wal EXCEPT ![Coming] = log] /\ op' = [op EXCEPT !.pc = "launch"]
      /\ UNCHANGED <<team, receipt, panes, transport, spent>>
  BY DEF PublishWal, Step, log
<1>4. /\ wal' \in [Generations -> [op : Operation, who : SUBSET Workers]]
      /\ wal'[Coming] = log /\ \A g \in Generations : g # Coming => wal'[g] = wal[g]
  BY <1>1, <1>2, <1>3 DEF ScaleInv, Types, FilesType
<1>5. /\ OpType'
      /\ op'.pc = "launch" /\ op'.kind = op.kind /\ op'.todo = op.todo /\ op'.bound = NoRoster
  BY <1>1, <1>3 DEF ScaleInv, Types, OpType, Pc
<1>6. Types'
  BY <1>3, <1>4, <1>5 DEF ScaleInv, Types, TeamType, PanesType, FilesType, RestType
<1>7. /\ Coming' = Coming /\ Active' = Active /\ Live' = Live /\ Legacy' = Legacy
      /\ \A w : Gone(w)' = Gone(w)
  BY <1>3 DEF Coming, Active, Live, Legacy, Gone
<1>8. \A p \in Panes : panes[p].state # "absent" => panes[p].generation # Coming
  BY <1>1 DEF ScaleInv, Files, PaneInv
<1>9. RosterInv'
  BY <1>3 DEF ScaleInv, Files, RosterInv
<1>10. PaneInv'
  BY <1>3, <1>7, <1>8 DEF ScaleInv, Files, PaneInv
<1>11. WalInv'
  BY <1>1, <1>2, <1>3, <1>4, <1>7 DEF PublishWal, ScaleInv, OpInv, RequestInv, WalInv, Adds
<1>12. ReceiptInv'
  BY <1>1, <1>3, <1>7 DEF ReceiptInv, Adds
<1>13. ChainInv'
  <2>1. \A g \in Generations : g > Coming => g # Coming
    BY DEF ScaleInv, Types, TeamType, Coming, Generations
  <2>2. \A g \in Generations :
          /\ g > Coming' => receipt'[g] = NoReceipt /\ wal'[g] = NoWal
          /\ wal'[g].op # "none" /\ receipt'[g].op # "none" => wal'[g].op = receipt'[g].op
    BY <1>1, <1>3, <1>4, <1>7, <2>1 DEF ScaleInv, Files, ChainInv
  <2> QED BY <1>1, <1>3, <2>2 DEF ScaleInv, Files, ChainInv
<1>14. LaunchInv'
  <2>1. \A w \in Workers : NoRoster[w] = NoPane
    BY DEF NoRoster
  <2> QED BY <1>1, <1>2, <1>3, <1>4, <1>5, <1>7, <2>1 DEF LaunchInv
<1>15. OpInv'
  BY <1>1, <1>3, <1>5, <1>7, <1>14 DEF OpInv, RequestInv, CommitInv, StopInv
<1> QED BY <1>6, <1>9, <1>10, <1>11, <1>12, <1>13, <1>15 DEF ScaleInv, Files

(* Before a pane is created, the panes of earlier attempts are looked for. *)
LEMMA FoundAll ==
  ASSUME ScaleInv, op.pc = "launch"
  PROVE  \A w : Found(w) = Orphans(w)
PROOF BY DEF ScaleInv, OpInv, LaunchInv, Launching, Files, WalInv, Found

LEMMA AdoptPaneStep ==
  ASSUME ScaleInv, NEW w \in Workers, AdoptPane(w)
  PROVE  ScaleInv'
PROOF
<1>1. op.pc = "launch" /\ w \in op.todo /\ UNCHANGED <<team, wal, receipt, panes, transport, spent>>
  BY DEF AdoptPane, NextWorker
<1>2. PICK p \in Orphans(w) : Orphans(w) = {p} /\ op' = [op EXCEPT !.todo = @ \ {w}, !.bound[w] = p]
  BY <1>1, FoundAll DEF AdoptPane, Bind
<1>3. /\ p \in Live /\ p \in Panes /\ panes[p].state = "live"
      /\ panes[p].worker = w /\ panes[p].generation = Coming
  BY <1>2 DEF Orphans, Live
<1>4. /\ OpType' /\ op'.pc = "launch" /\ op'.kind = op.kind /\ op'.todo = op.todo \ {w}
      /\ \A v \in Workers : op'.bound[v] = IF v = w THEN p ELSE op.bound[v]
  BY <1>1, <1>2, <1>3 DEF ScaleInv, Types, OpType, Roster
<1>5. /\ Types' /\ Files'
      /\ Coming' = Coming /\ Active' = Active /\ Live' = Live
  BY <1>1, <1>4, QuietFacts DEF ScaleInv
<1>6. Fits(p, w) /\ \A q, v : Fits(q, v)' = Fits(q, v)
  BY <1>1, <1>3, <1>5 DEF Fits, NoPane, Panes
<1>7. \A q \in Live : panes[q].worker = w /\ panes[q].generation = Coming => q = p
  BY <1>2 DEF Orphans
<1>8. p # NoPane
  BY <1>6 DEF Fits
<1>9. LaunchInv /\ Launching /\ wal[Coming].who \subseteq Workers /\ Coming \in Generations
  BY <1>1 DEF ScaleInv, OpInv, Types, FilesType, Launching
<1>10. LaunchInv'
  <2>1. op'.kind \in Adds /\ op'.kind = wal'[Coming'].op /\ receipt'[Coming'].op = "none"
    BY <1>1, <1>4, <1>5, <1>9 DEF LaunchInv
  <2>2. op'.todo \subseteq wal'[Coming'].who
    BY <1>1, <1>4, <1>5, <1>9 DEF LaunchInv
  <2>3. \A v \in wal[Coming].who \ op'.todo : op'.bound[v] # NoPane
    BY <1>4, <1>8, <1>9 DEF LaunchInv
  <2>4. ASSUME NEW v \in Workers, op'.bound[v] # NoPane
        PROVE  /\ v \in wal[Coming].who \ op'.todo /\ Fits(op'.bound[v], v)
               /\ \A q \in Live : panes[q].worker = v /\ panes[q].generation = Coming => q = op'.bound[v]
    <3>1. CASE v = w
      <4>1. w \in wal[Coming].who
        BY <1>1, <1>9 DEF LaunchInv
      <4> QED BY <1>4, <1>6, <1>7, <3>1, <4>1
    <3>2. CASE v # w
      BY <1>4, <1>9, <2>4, <3>2 DEF LaunchInv
    <3> QED BY <3>1, <3>2
  <2> SUFFICES ASSUME NEW v \in Workers, op'.bound[v] # NoPane
               PROVE  /\ v \in wal'[Coming'].who \ op'.todo /\ Fits(op.bound[v], v)'
                      /\ \A q \in Live' : panes'[q].worker = v /\ panes'[q].generation = Coming' =>
                           q = op'.bound[v]
    BY <1>1, <1>5, <2>1, <2>2, <2>3 DEF LaunchInv
  <2>5. Fits(op.bound[v], v)'
    BY <1>1, <1>5, <2>4 DEF Fits
  <2> QED BY <1>1, <1>5, <2>4, <2>5
<1>11. OpInv'
  BY <1>1, <1>4, <1>5, <1>9, <1>10 DEF ScaleInv, OpInv, RequestInv, CommitInv, StopInv
<1> QED BY <1>5, <1>11 DEF ScaleInv

LEMMA CreatePaneStep ==
  ASSUME ScaleInv, NEW w \in Workers, CreatePane(w)
  PROVE  ScaleInv'
PROOF
<1>1. op.pc = "launch" /\ w \in op.todo /\ UNCHANGED <<team, wal, receipt, transport, spent>>
  BY DEF CreatePane, NextWorker
<1>2. Orphans(w) = {}
  BY <1>1, FoundAll DEF CreatePane
<1> DEFINE new == [state |-> "live", worker |-> w, generation |-> Coming]
<1>3. PICK p \in Panes : /\ panes[p].state = "absent" /\ panes' = [panes EXCEPT ![p] = new]
                         /\ op' = [op EXCEPT !.todo = @ \ {w}, !.bound[w] = p]
  BY DEF CreatePane, Bind
<1>4. LaunchInv /\ Launching /\ Coming \in Generations /\ wal[Coming].who \subseteq Workers
  BY <1>1 DEF ScaleInv, OpInv, Types, FilesType, Launching
<1>5. w \in wal[Coming].who /\ ~team.stopped /\ receipt[Coming].op = "none"
  BY <1>1, <1>4 DEF ScaleInv, OpInv, LaunchInv
<1>6. /\ new.state = "live" /\ new.worker = w /\ new.generation = Coming
      /\ new \in [state : {"absent", "live", "ended"}, worker : 0..MaxWorkers,
                  generation : 0..MaxGeneration]
  <2>1. w \in 0..MaxWorkers /\ Coming \in 0..MaxGeneration
    BY <1>4, LaunchedAssumption, BoundAssumption DEF Generations, Workers
  <2> QED BY <2>1
<1> HIDE DEF new
<1>7. /\ PanesType' /\ panes'[p] = new /\ \A q \in Panes : q # p => panes'[q] = panes[q]
  BY <1>3, <1>6 DEF ScaleInv, Types, PanesType
<1>8. /\ OpType' /\ op'.pc = "launch" /\ op'.kind = op.kind /\ op'.todo = op.todo \ {w}
      /\ \A v \in Workers : op'.bound[v] = IF v = w THEN p ELSE op.bound[v]
  BY <1>1, <1>3 DEF ScaleInv, Types, OpType, Roster
<1>9. /\ Coming' = Coming /\ Active' = Active /\ Legacy' = Legacy /\ Pending' = Pending
      /\ Live' = Live \cup {p} /\ p \notin Live
  BY <1>1, <1>3, <1>6, <1>7
     DEF Coming, Active, Legacy, Pending, PendingWal, PendingReceipt, Live
<1>10. Types'
  BY <1>1, <1>7, <1>8 DEF ScaleInv, Types, TeamType, FilesType, RestType
<1>11. \A v \in Workers : team.roster[v] # NoPane => team.roster[v] \in Panes /\ team.roster[v] # p
  BY <1>3 DEF ScaleInv, Types, TeamType, Roster, Files, RosterInv
<1>12. RosterInv'
  BY <1>1, <1>7, <1>11 DEF ScaleInv, Files, RosterInv
<1>13. PaneInv'
  <2>1. \A q \in Panes : panes'[q].state # "absent" =>
          /\ panes'[q].worker \in Workers /\ panes'[q].generation <= Coming
          /\ panes'[q].generation = Coming => panes'[q].worker \in wal[Coming].who
    <3>1. Coming <= Coming
      BY <1>4 DEF Generations
    <3> QED BY <1>5, <1>6, <1>7, <3>1 DEF ScaleInv, Files, PaneInv
  <2>2. \A q \in Live' : panes'[q].generation <= team.generation => team.roster[panes'[q].worker] = q
    <3>1. ~(Coming <= team.generation)
      BY DEF Coming, ScaleInv, Types, TeamType
    <3> QED BY <1>6, <1>7, <1>9, <3>1 DEF ScaleInv, Files, PaneInv, Live
  <2>3. \A q, r \in Live' :
          panes'[q].generation = Coming /\ panes'[r].generation = Coming
            /\ panes'[q].worker = panes'[r].worker => q = r
    <3>1. \A q \in Live : panes'[q] = panes[q] /\ ~(panes[q].worker = w /\ panes[q].generation = Coming)
      BY <1>2, <1>7, <1>9 DEF Orphans, Live
    <3> QED BY <1>6, <1>7, <1>9, <3>1 DEF ScaleInv, Files, PaneInv
  <2> QED BY <1>1, <1>5, <1>9, <2>1, <2>2, <2>3 DEF PaneInv
<1>14. WalInv'
  <2>1. \A v \in Active : Gone(v) => Gone(v)'
    BY <1>1, <1>9, <1>11 DEF Gone, Active
  <2> QED BY <1>1, <1>9, <2>1 DEF ScaleInv, Files, WalInv
<1>15. ReceiptInv'
  BY <1>1, <1>5, <1>9 DEF ReceiptInv, Adds
<1>16. ChainInv'
  BY <1>1, <1>9 DEF ScaleInv, Files, ChainInv
<1>17. LaunchInv'
  <2>1. op'.kind \in Adds /\ op'.kind = wal[Coming].op /\ op'.todo \subseteq wal[Coming].who
    BY <1>4, <1>8 DEF LaunchInv
  <2>2. p # NoPane
    BY DEF Panes, NoPane
  <2>3. \A v \in wal[Coming].who \ op'.todo : op'.bound[v] # NoPane
    BY <1>4, <1>8, <2>2 DEF LaunchInv
  <2>4. ASSUME NEW v \in Workers, op'.bound[v] # NoPane
        PROVE  /\ v \in wal[Coming].who \ op'.todo /\ Fits(op.bound[v], v)'
               /\ \A q \in Live' : panes'[q].worker = v /\ panes'[q].generation = Coming =>
                    q = op'.bound[v]
    <3>1. CASE v = w
      <4>1. Fits(op.bound[v], v)'
        BY <1>6, <1>7, <1>8, <1>9, <2>2, <3>1 DEF Fits
      <4>2. \A q \in Live' : panes'[q].worker = w /\ panes'[q].generation = Coming => q = p
        BY <1>2, <1>7, <1>9 DEF Orphans, Live
      <4> QED BY <1>5, <1>8, <3>1, <4>1, <4>2
    <3>2. CASE v # w
      <4>1. op'.bound[v] = op.bound[v] /\ op.bound[v] # NoPane
        BY <1>8, <2>4, <3>2
      <4>2. /\ v \in wal[Coming].who \ op.todo /\ Fits(op.bound[v], v)
            /\ \A q \in Live : panes[q].worker = v /\ panes[q].generation = Coming => q = op.bound[v]
        BY <1>4, <4>1 DEF LaunchInv
      <4>3. op.bound[v] \in Panes /\ op.bound[v] # p
        BY <1>3, <4>1, <4>2 DEF Fits, ScaleInv, Types, OpType, Roster
      <4>4. Fits(op.bound[v], v)'
        BY <1>7, <1>9, <4>1, <4>2, <4>3 DEF Fits
      <4>5. \A q \in Live' : panes'[q].worker = v /\ panes'[q].generation = Coming => q = op.bound[v]
        BY <1>6, <1>7, <1>9, <3>2, <4>2 DEF Live
      <4> QED BY <1>8, <4>1, <4>2, <4>4, <4>5
    <3> QED BY <3>1, <3>2
  <2> QED BY <1>1, <1>5, <1>9, <2>1, <2>3, <2>4 DEF LaunchInv, Fits
<1>18. OpInv'
  BY <1>1, <1>4, <1>5, <1>8, <1>9, <1>17 DEF OpInv, RequestInv, CommitInv, StopInv
<1> QED BY <1>10, <1>12, <1>13, <1>14, <1>15, <1>16, <1>18 DEF ScaleInv, Files

LEMMA BindIdentitiesStep ==
  ASSUME ScaleInv, BindIdentities
  PROVE  ScaleInv'
PROOF
<1>1. /\ op.pc = "launch" /\ op.todo = {} /\ op' = [op EXCEPT !.pc = "receipt"]
      /\ UNCHANGED <<team, wal, receipt, panes, transport, spent>>
  BY DEF BindIdentities, Step
<1>2. /\ OpType' /\ op'.pc = "receipt" /\ op'.kind = op.kind /\ op'.todo = op.todo
      /\ op'.bound = op.bound
  BY <1>1 DEF ScaleInv, Types, OpType, Pc
<1>3. Types' /\ Files' /\ Coming' = Coming /\ Live' = Live
  BY <1>1, <1>2, QuietFacts DEF ScaleInv
<1>4. LaunchInv /\ Launching /\ op.kind # "remove" /\ Coming \in Generations /\ ~team.stopped
  BY <1>1 DEF ScaleInv, OpInv, LaunchInv, Launching, Adds
<1>5. LaunchInv'
  BY <1>1, <1>2, <1>3, <1>4 DEF LaunchInv, Fits
<1>6. OpInv'
  BY <1>1, <1>2, <1>3, <1>4, <1>5 DEF OpInv, RequestInv, CommitInv, StopInv
<1> QED BY <1>3, <1>6 DEF ScaleInv

-----------------------------------------------------------------------------
(* The receipt of the operation, and its commit.                           *)
LEMMA PersistReceiptStep ==
  ASSUME ScaleInv, PersistReceipt
  PROVE  ScaleInv'
PROOF
<1> DEFINE rows == [w \in Workers |->
                      IF op.kind = "remove" THEN (IF w \in op.todo THEN NoPane ELSE team.roster[w])
                      ELSE IF op.bound[w] # NoPane THEN op.bound[w] ELSE team.roster[w]]
           new == [op |-> op.kind, roster |-> rows]
           pc == IF op.kind = "remove" THEN "kill" ELSE "commit"
<1>1. /\ op.pc = "receipt" /\ receipt' = [receipt EXCEPT ![Coming] = new]
      /\ op' = [op EXCEPT !.pc = pc]
      /\ UNCHANGED <<team, wal, panes, transport, spent>>
  BY DEF PersistReceipt, Step
<1>2. /\ Coming \in Generations /\ ~team.stopped
      /\ wal[Coming] \in [op : Operation, who : SUBSET Workers]
  BY <1>1 DEF ScaleInv, OpInv, Types, FilesType
<1>3. op.kind \in Adds \cup {"remove"} /\ Adds \subseteq Operation /\ "remove" \in Operation
  BY <1>1 DEF ScaleInv, OpInv, LaunchInv, Launching, Adds, Operation
<1>4. \A w \in Workers : team.roster[w] \in Panes \cup {NoPane} /\ op.bound[w] \in Panes \cup {NoPane}
  BY DEF ScaleInv, Types, TeamType, OpType, Roster
<1>5. /\ rows \in Roster
      /\ \A w \in Workers : rows[w] =
           IF op.kind = "remove" THEN (IF w \in op.todo THEN NoPane ELSE team.roster[w])
           ELSE IF op.bound[w] # NoPane THEN op.bound[w] ELSE team.roster[w]
  BY <1>4 DEF Roster
<1> HIDE DEF rows
<1>6. new \in [op : Operation \cup {"launch"}, roster : Roster] /\ new.op = op.kind /\ new.roster = rows
  BY <1>3, <1>5
<1>7. pc \in Pc /\ pc = IF op.kind = "remove" THEN "kill" ELSE "commit"
  BY DEF Pc
<1> HIDE DEF new, pc
<1>8. Coming \in 0..MaxGeneration /\ Coming # team.generation
  BY <1>2 DEF Generations, Coming, ScaleInv, Types, TeamType
<1>9. /\ receipt' \in [0..MaxGeneration -> [op : Operation \cup {"launch"}, roster : Roster]]
      /\ receipt'[Coming] = new /\ \A g \in 0..MaxGeneration : g # Coming => receipt'[g] = receipt[g]
  BY <1>1, <1>6, <1>8 DEF ScaleInv, Types, FilesType
<1>10. /\ OpType' /\ op'.pc = pc /\ op'.kind = op.kind /\ op'.todo = op.todo
  BY <1>1, <1>7 DEF ScaleInv, Types, OpType
<1>11. Types'
  BY <1>1, <1>9, <1>10 DEF ScaleInv, Types, TeamType, PanesType, FilesType, RestType
<1>12. /\ Coming' = Coming /\ Active' = Active /\ Live' = Live /\ Legacy' = Legacy
       /\ \A w : Gone(w)' = Gone(w)
  BY <1>1 DEF Coming, Active, Live, Legacy, Gone
<1>13. RosterInv' /\ PaneInv'
  BY <1>1, <1>12 DEF ScaleInv, Files, RosterInv, PaneInv
<1>14. WalInv'
  BY <1>1, <1>12 DEF ScaleInv, Files, WalInv
<1>15. op.kind = "remove" => wal[Coming].op = "none" /\ wal[Coming].who = {}
  BY <1>1, <1>2 DEF ScaleInv, OpInv, CommitInv, Pending, PendingWal, Files, WalInv
<1>16. ASSUME op.kind # "remove"
       PROVE  /\ LaunchInv /\ Launching /\ op.todo = {} /\ op.kind \in Adds /\ op.kind = wal[Coming].op
              /\ \A w \in Workers : IF w \in wal[Coming].who THEN rows[w] = op.bound[w] /\ Fits(op.bound[w], w)
                                    ELSE rows[w] = team.roster[w]
              /\ \A p \in Live : panes[p].generation = Coming => rows[panes[p].worker] = p
  <2>1. LaunchInv /\ Launching /\ op.todo = {}
    BY <1>1, <1>16 DEF ScaleInv, OpInv, Launching, CommitInv
  <2>2. op.kind \in Adds /\ op.kind = wal[Coming].op
    BY <2>1 DEF LaunchInv
  <2>3. \A w \in Workers :
          IF w \in wal[Coming].who THEN rows[w] = op.bound[w] /\ Fits(op.bound[w], w)
          ELSE rows[w] = team.roster[w]
    BY <1>5, <1>16, <2>1 DEF LaunchInv
  <2>4. \A p \in Live : panes[p].generation = Coming => rows[panes[p].worker] = p
    <3>1. SUFFICES ASSUME NEW p \in Live, panes[p].generation = Coming
                   PROVE  rows[panes[p].worker] = p
      OBVIOUS
    <3>2. panes[p].worker \in Workers /\ panes[p].worker \in wal[Coming].who
      BY <3>1 DEF Live, ScaleInv, Files, PaneInv
    <3>3. rows[panes[p].worker] = op.bound[panes[p].worker] /\ op.bound[panes[p].worker] # NoPane
      BY <2>3, <3>2 DEF Fits
    <3> QED BY <2>1, <3>1, <3>2, <3>3 DEF LaunchInv
  <2> QED BY <2>1, <2>2, <2>3, <2>4
<1>17. ReceiptInv'
  <2>1. CASE op.kind = "remove"
    <3>1. \A w \in Workers : rows[w] \in {team.roster[w], NoPane}
      BY <1>5, <2>1
    <3> QED BY <1>1, <1>6, <1>9, <1>12, <1>15, <2>1, <3>1 DEF ReceiptInv, Adds
  <2>2. CASE op.kind # "remove"
    <3>1. \A w \in Workers : w \in wal[Coming].who => Fits(rows[w], w)
      BY <1>16, <2>2
    <3> QED BY <1>1, <1>6, <1>9, <1>12, <1>16, <2>2, <3>1 DEF ReceiptInv, Fits
  <2> QED BY <2>1, <2>2
<1>18. ChainInv'
  <2>1. \A g \in Generations : g \in 0..MaxGeneration /\ (g > Coming => g # Coming)
    BY <1>8 DEF Generations, Coming, ScaleInv, Types, TeamType
  <2>2. wal[Coming].op # "none" => wal[Coming].op = op.kind
    BY <1>15, <1>16
  <2>3. team.generation \in 0..MaxGeneration
    BY DEF ScaleInv, Types, TeamType
  <2> QED BY <1>1, <1>2, <1>6, <1>8, <1>9, <1>12, <2>1, <2>2, <2>3 DEF ScaleInv, Files, ChainInv
<1>19. CommitInv'
  <2>1. op.kind = "remove" => Victims' \subseteq op.todo
    BY <1>4, <1>5, <1>6, <1>9, <1>12 DEF Victims, Active
  <2> QED BY <1>3, <1>6, <1>7, <1>9, <1>10, <1>12, <2>1 DEF CommitInv, Adds
<1>20. OpInv'
  BY <1>1, <1>2, <1>7, <1>10, <1>12, <1>19 DEF OpInv, RequestInv, LaunchInv, Launching, StopInv
<1> QED BY <1>11, <1>13, <1>14, <1>17, <1>18, <1>20 DEF ScaleInv, Files

(* What the commit makes of the number of rows: the rows that a scale-up   *)
(* adds are the next ones.                                                 *)
LEMMA CommitNext ==
  ASSUME ScaleInv, op.pc = "commit",
         NEW next, next = team.next + IF op.kind = "add" THEN Cardinality(wal[Coming].who) ELSE 0
  PROVE  /\ next \in 1..(MaxWorkers + 1) /\ team.next <= next
         /\ op.kind = "add" => \A w \in wal[Coming].who : w >= team.next /\ w < next
         /\ \A w \in Workers : w >= next => receipt[Coming].roster[w] = NoPane
PROOF
<1>1. /\ Coming \in Generations /\ receipt[Coming].op = op.kind /\ op.kind \in Adds \cup {"remove"}
      /\ team.next \in 1..(MaxWorkers + 1) /\ MaxWorkers \in Nat
      /\ receipt[Coming].op \in Adds => wal[Coming].op = op.kind
  BY LaunchedAssumption DEF ScaleInv, OpInv, CommitInv, Types, TeamType, Files, ReceiptInv
<1>2. \A w \in Workers : w >= team.next => team.roster[w] = NoPane
  BY DEF ScaleInv, Files, RosterInv
<1>3. CASE op.kind = "add"
  <2>1. PICK m \in team.next..MaxWorkers : wal[Coming].who = team.next..m
    BY <1>1, <1>3 DEF ScaleInv, Files, WalInv, Adds
  <2>2. Cardinality(wal[Coming].who) = m - team.next + 1
    <3>1. team.next \in Int /\ m \in Int /\ team.next <= m
      BY <1>1, <2>1
    <3>2. Cardinality((team.next)..m) = IF team.next > m THEN 0 ELSE m - team.next + 1
      BY <3>1, FS_Interval
    <3> QED BY <2>1, <3>1, <3>2
  <2>3. next = m + 1
    BY <1>1, <1>3, <2>1, <2>2
  <2>4. \A w \in Workers : w >= next => w \notin wal[Coming].who /\ team.roster[w] = NoPane
    BY <1>1, <1>2, <2>1, <2>3 DEF Workers
  <2>5. \A w \in Workers : w >= next => receipt[Coming].roster[w] = NoPane
    BY <1>1, <1>3, <2>4 DEF ScaleInv, Files, ReceiptInv, Adds
  <2> QED BY <1>1, <1>3, <2>1, <2>3, <2>5
<1>4. CASE op.kind = "relaunch"
  <2>1. next = team.next
    BY <1>1, <1>4
  <2>2. \A w \in Workers : w >= next => w \notin wal[Coming].who /\ team.roster[w] = NoPane
    BY <1>1, <1>2, <1>4, <2>1 DEF ScaleInv, Files, WalInv, Adds, Active
  <2>3. \A w \in Workers : w >= next => receipt[Coming].roster[w] = NoPane
    BY <1>1, <1>4, <2>2 DEF ScaleInv, Files, ReceiptInv, Adds
  <2> QED BY <1>1, <1>4, <2>1, <2>3
<1>5. CASE op.kind = "remove"
  <2>1. next = team.next
    BY <1>1, <1>5
  <2>2. \A w \in Workers : receipt[Coming].roster[w] \in {team.roster[w], NoPane}
    BY <1>1, <1>5 DEF ScaleInv, Files, ReceiptInv
  <2> QED BY <1>1, <1>2, <1>5, <2>1, <2>2
<1> QED BY <1>1, <1>3, <1>4, <1>5 DEF Adds

(* And of the live panes: each is the one of its row.                      *)
LEMMA CommitNames ==
  ASSUME ScaleInv, op.pc = "commit", NEW p \in Live
  PROVE  receipt[Coming].roster[panes[p].worker] = p
PROOF
<1> DEFINE w == panes[p].worker
<1>1. /\ Coming \in Generations /\ receipt[Coming].op = op.kind /\ op.kind \in Adds \cup {"remove"}
      /\ op.kind = "remove" => \A v \in Victims : Gone(v)
  BY DEF ScaleInv, OpInv, CommitInv
<1>2. /\ w \in Workers /\ p \in Panes /\ p # NoPane /\ panes[p].generation <= Coming
      /\ panes[p].generation = Coming => w \in wal[Coming].who
      /\ panes[p].generation <= team.generation => team.roster[w] = p
  BY DEF Live, Panes, NoPane, ScaleInv, Files, PaneInv
<1>3. panes[p].generation = Coming \/ panes[p].generation <= team.generation
  BY <1>2 DEF Coming, ScaleInv, Types, TeamType, PanesType
<1> HIDE DEF w
<1>4. CASE op.kind = "remove"
  <2>1. receipt[Coming].roster[w] \in {team.roster[w], NoPane} /\ wal[Coming].who = {}
    BY <1>1, <1>2, <1>4 DEF ScaleInv, Files, ReceiptInv, WalInv
  <2>2. team.roster[w] = p
    BY <1>2, <1>3, <2>1
  <2>3. receipt[Coming].roster[w] # NoPane
    BY <1>1, <1>2, <1>4, <2>2 DEF Victims, Active, Gone
  <2> QED BY <2>1, <2>2, <2>3 DEF w
<1>5. CASE op.kind \in Adds
  <2>1. CASE panes[p].generation = Coming
    BY <1>1, <1>5, <2>1 DEF ScaleInv, Files, ReceiptInv
  <2>2. CASE panes[p].generation <= team.generation
    <3>1. team.roster[w] = p /\ wal[Coming].op = op.kind
      BY <1>1, <1>2, <1>5, <2>2 DEF ScaleInv, Files, ReceiptInv
    <3>2. w \notin wal[Coming].who
      <4>1. CASE op.kind = "add"
        <5>1. w < team.next
          BY <1>2, <3>1 DEF ScaleInv, Files, RosterInv, Types, TeamType, Workers
        <5>2. PICK m \in team.next..MaxWorkers : wal[Coming].who = team.next..m
          BY <1>1, <3>1, <4>1 DEF ScaleInv, Files, WalInv
        <5> QED BY <5>1, <5>2 DEF ScaleInv, Types, TeamType
      <4>2. CASE op.kind = "relaunch"
        BY <1>1, <3>1, <4>2 DEF ScaleInv, Files, WalInv, Gone
      <4> QED BY <1>5, <4>1, <4>2 DEF Adds
    <3>3. receipt[Coming].roster[w] = team.roster[w]
      BY <1>1, <1>2, <1>5, <3>2 DEF ScaleInv, Files, ReceiptInv
    <3> QED BY <3>1, <3>3 DEF w
  <2> QED BY <1>3, <2>1, <2>2
<1> QED BY <1>1, <1>4, <1>5

LEMMA CommitStep ==
  ASSUME ScaleInv, Commit
  PROVE  ScaleInv'
PROOF
<1> DEFINE next == team.next + IF op.kind = "add" THEN Cardinality(wal[Coming].who) ELSE 0
           rows == receipt[Coming].roster
<1>1. op.pc = "commit" /\ Return /\ UNCHANGED <<wal, receipt, panes, transport, spent>>
  BY DEF Commit
<1>2. /\ Coming \in Generations /\ Coming \in 0..MaxGeneration /\ ~team.stopped
      /\ receipt[Coming].op = op.kind /\ op.kind \in Adds \cup {"remove"}
  BY <1>1 DEF ScaleInv, OpInv, CommitInv, Generations
<1>3. /\ next \in 1..(MaxWorkers + 1)
      /\ \A w \in Workers : w >= next => rows[w] = NoPane
  BY <1>1, CommitNext
<1>4. rows \in Roster
  BY <1>2 DEF ScaleInv, Types, FilesType
<1> HIDE DEF next, rows
<1>5. team' = [team EXCEPT !.generation = Coming, !.roster = rows, !.next = next]
  BY DEF Commit, next, rows
<1>6. /\ TeamType' /\ team'.generation = Coming /\ team'.roster = rows /\ team'.next = next
      /\ team'.stopped = team.stopped
  BY <1>2, <1>3, <1>4, <1>5 DEF ScaleInv, Types, TeamType
<1>7. OpInv' /\ OpType'
  BY <1>1, ReturnKeepsOpInv DEF Return
<1>8. Types'
  BY <1>1, <1>6, <1>7 DEF ScaleInv, Types, PanesType, FilesType, RestType
<1>9. Live' = Live /\ Coming' = Coming + 1 /\ Coming \in Nat
  BY <1>1, <1>2, <1>6 DEF Live, Coming, Generations
<1>10. RosterInv'
  <2> SUFFICES ASSUME NEW w \in Workers, rows[w] # NoPane
               PROVE  /\ panes[rows[w]].state # "absent" /\ panes[rows[w]].worker = w
                      /\ panes[rows[w]].generation <= Coming
    BY <1>1, <1>3, <1>6 DEF RosterInv
  <2>1. CASE op.kind \in Adds /\ w \in wal[Coming].who
    <3>1. Fits(rows[w], w)
      BY <1>2, <2>1 DEF rows, ScaleInv, Files, ReceiptInv
    <3> QED BY <1>9, <3>1 DEF Fits
  <2>2. CASE ~(op.kind \in Adds /\ w \in wal[Coming].who)
    <3>1. rows[w] = team.roster[w]
      BY <1>2, <2>2 DEF rows, ScaleInv, Files, ReceiptInv
    <3>2. rows[w] \in Panes
      BY <1>4 DEF Roster
    <3>3. /\ panes[rows[w]].state # "absent" /\ panes[rows[w]].worker = w
          /\ panes[rows[w]].generation <= team.generation
      BY <3>1 DEF ScaleInv, Files, RosterInv
    <3>4. panes[rows[w]].generation \in Int /\ team.generation \in Int /\ Coming = team.generation + 1
      BY <3>2 DEF ScaleInv, Types, PanesType, TeamType, Coming
    <3> QED BY <3>3, <3>4
  <2> QED BY <2>1, <2>2
<1>11. PaneInv'
  <2>1. \A p \in Panes : panes[p].state # "absent" =>
          panes[p].worker \in Workers /\ panes[p].generation <= Coming /\ panes[p].generation \in Int
    BY DEF ScaleInv, Files, PaneInv, Types, PanesType
  <2>2. \A p \in Live : panes[p].generation # Coming + 1 /\ panes[p].generation <= Coming + 1
    BY <1>9, <2>1 DEF Live
  <2>3. \A p \in Panes : panes[p].state # "absent" =>
          panes[p].generation # Coming + 1 /\ panes[p].generation <= Coming + 1
    BY <1>9, <2>1
  <2>4. \A p \in Live : rows[panes[p].worker] = p
    BY <1>1, CommitNames DEF rows
  <2> QED BY <1>1, <1>2, <1>6, <1>9, <2>1, <2>2, <2>3, <2>4 DEF PaneInv
<1>12. /\ Coming' \in Generations => receipt[Coming'] = NoReceipt /\ wal[Coming'] = NoWal
       /\ NoReceipt.op = "none" /\ NoWal.op = "none" /\ NoWal.who = {}
  BY <1>9 DEF NoReceipt, NoWal, ScaleInv, Files, ChainInv
<1>13. WalInv' /\ ReceiptInv'
  BY <1>1, <1>12 DEF WalInv, ReceiptInv, Adds
<1>14. ChainInv'
  <2>1. \A g \in Generations : g > Coming' => g > Coming
    BY <1>9 DEF Generations
  <2> QED BY <1>1, <1>2, <1>6, <2>1 DEF rows, ScaleInv, Files, ChainInv
<1> QED BY <1>7, <1>8, <1>10, <1>11, <1>13, <1>14 DEF ScaleInv, Files

-----------------------------------------------------------------------------
(* The scale-down.                                                         *)
LEMMA EndRow ==
  ASSUME ScaleInv, NEW w \in Workers, End({team.roster[w]})
  PROVE  Ends /\ team.roster[w] \notin Live'
PROOF
<1>1. \A p \in {team.roster[w]} \cap Panes : panes[p].state # "absent"
  BY DEF Panes, NoPane, ScaleInv, Files, RosterInv
<1> QED BY <1>1, EndIsCalm DEF ScaleInv, Types

(* A step of a holder that is past its files: what it ends and what it     *)
(* has done with.                                                          *)
LEMMA HolderFacts ==
  ASSUME Types, Files, Ends, OpType', RestType', UNCHANGED <<team, wal, receipt>>
  PROVE  /\ Types' /\ Files'
         /\ Coming' = Coming /\ Pending' = Pending /\ Active' = Active /\ Victims' = Victims
         /\ \A w : Gone(w) => Gone(w)'
PROOF
<1>1. Calm
  BY EndsAreCalm
<1>2. Files' /\ Coming' = Coming /\ Pending' = Pending
  BY <1>1, CalmKeepsFiles
<1>3. Types'
  BY DEF Types, TeamType, PanesType, FilesType, Ends
<1>4. Active' = Active /\ Victims' = Victims
  BY <1>2 DEF Active, Victims
<1>5. \A w : Gone(w) => Gone(w)'
  BY EndsShrink DEF Gone
<1> QED BY <1>2, <1>3, <1>4, <1>5

LEMMA KillStep ==
  ASSUME ScaleInv, NEW w \in Workers, KillVictim(w) \/ KillFails(w)
  PROVE  ScaleInv'
PROOF
<1>1. /\ op.pc = "kill" /\ UNCHANGED <<team, wal, receipt, transport>>
      /\ UNCHANGED spent \/ Fault
  BY DEF KillVictim, KillFails
<1>2. /\ OpType' /\ op'.pc = "kill" /\ op'.kind = op.kind /\ op'.todo = op.todo \ {w}
      /\ op.failed => op'.failed
      /\ KillFails(w) => op'.failed
  BY <1>1 DEF KillVictim, KillFails, ScaleInv, Types, OpType
<1>3. Ends /\ (KillVictim(w) => team.roster[w] \notin Live')
  <2>1. CASE KillVictim(w)
    BY <2>1, EndRow DEF KillVictim
  <2>2. CASE KillFails(w) /\ ~KillVictim(w)
    BY <2>2, NothingIsCalm DEF KillFails, ScaleInv, Types
  <2> QED BY <2>1, <2>2
<1>4. RestType'
  BY <1>1, FaultType DEF ScaleInv, Types, RestType
<1>5. /\ Types' /\ Files'
      /\ Coming' = Coming /\ Pending' = Pending /\ Active' = Active /\ Victims' = Victims
      /\ \A v : Gone(v) => Gone(v)'
  BY <1>1, <1>2, <1>3, <1>4, HolderFacts DEF ScaleInv
<1>6. KillVictim(w) => Gone(w)'
  BY <1>1, <1>3 DEF Gone
<1>7. /\ op.kind = "remove" /\ receipt[Coming].op = op.kind /\ Coming \in Generations /\ ~team.stopped
      /\ \A v \in Victims \ op.todo : op.failed \/ Gone(v)
  BY <1>1 DEF ScaleInv, OpInv, CommitInv
<1>8. \A v \in Victims \ op'.todo : op'.failed \/ Gone(v)'
  BY <1>2, <1>5, <1>6, <1>7
<1>9. CommitInv'
  BY <1>1, <1>2, <1>5, <1>7, <1>8 DEF CommitInv
<1>10. OpInv'
  BY <1>1, <1>2, <1>5, <1>7, <1>9 DEF OpInv, RequestInv, LaunchInv, Launching, StopInv
<1> QED BY <1>5, <1>10 DEF ScaleInv

LEMMA AllKilledStep ==
  ASSUME ScaleInv, AllKilled
  PROVE  ScaleInv'
PROOF
<1>1. op.pc = "kill" /\ op.todo = {} /\ UNCHANGED <<team, wal, receipt, panes, transport, spent>>
  BY DEF AllKilled
<1>2. CASE op.failed
  <2>1. op' = Idle
    BY <1>2 DEF AllKilled, Return
  <2>2. OpType' /\ OpInv'
    BY <2>1, ReturnKeepsOpInv
  <2> QED BY <1>1, <2>2, QuietFacts DEF ScaleInv
<1>3. CASE ~op.failed
  <2>1. op' = [op EXCEPT !.pc = "commit"]
    BY <1>3 DEF AllKilled, Step
  <2>2. OpType' /\ op'.pc = "commit" /\ op'.kind = op.kind
    BY <2>1 DEF ScaleInv, Types, OpType, Pc
  <2>3. /\ Types' /\ Files' /\ Coming' = Coming /\ Victims' = Victims
        /\ \A w : Gone(w)' = Gone(w)
    BY <1>1, <2>2, QuietFacts DEF ScaleInv
  <2>4. /\ op.kind = "remove" /\ receipt[Coming].op = op.kind /\ Coming \in Generations /\ ~team.stopped
        /\ \A w \in Victims : Gone(w)
    BY <1>1, <1>3 DEF ScaleInv, OpInv, CommitInv
  <2>5. CommitInv'
    BY <1>1, <2>2, <2>3, <2>4 DEF CommitInv
  <2>6. OpInv'
    BY <1>1, <2>2, <2>3, <2>4, <2>5 DEF OpInv, RequestInv, LaunchInv, Launching, StopInv
  <2> QED BY <2>3, <2>6 DEF ScaleInv
<1> QED BY <1>2, <1>3

-----------------------------------------------------------------------------
(* The stop.                                                               *)
LEMMA StopVerifyStep ==
  ASSUME ScaleInv, StopVerify \/ StopVerifyFails
  PROVE  ScaleInv'
PROOF
<1>1. op.pc = "verify" /\ UNCHANGED <<team, wal, receipt, panes, transport, spent>>
  BY DEF StopVerify, StopVerifyFails
<1>2. /\ OpType' /\ op'.pc \in {"signal", "refuse"}
      /\ op'.pc = "signal" => op'.todo = Active
  <2>1. Active \in SUBSET Workers
    BY DEF Active
  <2>2. CASE StopVerify
    BY <2>1, <2>2 DEF StopVerify, ScaleInv, Types, OpType, Pc
  <2>3. CASE StopVerifyFails
    BY <2>3 DEF StopVerifyFails, Step, ScaleInv, Types, OpType, Pc
  <2> QED BY <2>2, <2>3
<1>3. Types' /\ Files' /\ Pending' = Pending /\ Active' = Active
  BY <1>1, <1>2, QuietFacts DEF ScaleInv
<1>4. ~Pending
  BY <1>1 DEF ScaleInv, OpInv, StopInv
<1>5. StopInv'
  BY <1>2, <1>3, <1>4 DEF StopInv
<1>6. OpInv'
  BY <1>2, <1>5 DEF OpInv, RequestInv, LaunchInv, Launching, CommitInv
<1> QED BY <1>3, <1>6 DEF ScaleInv

LEMMA StopSignalStep ==
  ASSUME ScaleInv, NEW w \in Workers, StopSignal(w)
  PROVE  ScaleInv'
PROOF
<1>1. /\ op.pc = "signal" /\ UNCHANGED <<team, wal, receipt, transport>>
      /\ \/ End({team.roster[w]}) /\ op' = [op EXCEPT !.todo = @ \ {w}] /\ UNCHANGED spent
         \/ Fault /\ op' = [op EXCEPT !.todo = @ \ {w}, !.failed = TRUE] /\ UNCHANGED panes
  BY DEF StopSignal
<1>2. /\ OpType' /\ op'.pc = "signal" /\ op'.todo = op.todo \ {w} /\ (op.failed => op'.failed)
  BY <1>1 DEF ScaleInv, Types, OpType
<1>3. Ends /\ (team.roster[w] \notin Live' \/ op'.failed)
  <2>1. CASE End({team.roster[w]})
    BY <2>1, EndRow
  <2>2. CASE op' = [op EXCEPT !.todo = @ \ {w}, !.failed = TRUE] /\ UNCHANGED panes
    BY <2>2, NothingIsCalm DEF ScaleInv, Types, OpType
  <2> QED BY <1>1, <2>1, <2>2
<1>4. RestType'
  BY <1>1, FaultType DEF ScaleInv, Types, RestType
<1>5. /\ Types' /\ Files' /\ Pending' = Pending /\ Active' = Active
      /\ \A v : Gone(v) => Gone(v)'
  BY <1>1, <1>2, <1>3, <1>4, HolderFacts DEF ScaleInv
<1>6. ~Pending /\ \A v \in Active \ op.todo : op.failed \/ Gone(v)
  BY <1>1 DEF ScaleInv, OpInv, StopInv
<1>7. Gone(w)' \/ op'.failed
  BY <1>1, <1>3 DEF Gone
<1>8. \A v \in Active \ op'.todo : op'.failed \/ Gone(v)'
  BY <1>2, <1>5, <1>6, <1>7
<1>9. OpInv'
  BY <1>2, <1>5, <1>6, <1>8 DEF OpInv, RequestInv, LaunchInv, Launching, CommitInv, StopInv
<1> QED BY <1>5, <1>9 DEF ScaleInv

LEMMA StopSignalledStep ==
  ASSUME ScaleInv, StopSignalled
  PROVE  ScaleInv'
PROOF
<1> DEFINE pc == IF op.failed THEN "refuse" ELSE "teardown"
<1>1. /\ op.pc = "signal" /\ op.todo = {} /\ op' = [op EXCEPT !.pc = pc]
      /\ UNCHANGED <<team, wal, receipt, panes, transport, spent>>
  BY DEF StopSignalled, Step
<1>2. OpType' /\ op'.pc = pc
  BY <1>1 DEF ScaleInv, Types, OpType, Pc
<1>3. Types' /\ Files' /\ Pending' = Pending /\ Active' = Active /\ \A w : Gone(w)' = Gone(w)
  BY <1>1, <1>2, QuietFacts DEF ScaleInv
<1>4. ~Pending /\ (~op.failed => \A w \in Active : Gone(w))
  BY <1>1 DEF ScaleInv, OpInv, StopInv
<1>5. OpInv'
  BY <1>2, <1>3, <1>4 DEF OpInv, RequestInv, LaunchInv, Launching, CommitInv, StopInv
<1> QED BY <1>3, <1>5 DEF ScaleInv

(* When the rows are gone, everything is.                                  *)
LEMMA RowsAreAll ==
  ASSUME ScaleInv, ~Pending
  PROVE  /\ \A p \in Live : team.roster[panes[p].worker] = p /\ panes[p].worker \in Active
         /\ (\A w \in Active : Gone(w)) => Live = {}
PROOF
<1>1. ASSUME NEW p \in Live
      PROVE  team.roster[panes[p].worker] = p /\ panes[p].worker \in Active
  <2>1. /\ panes[p].worker \in Workers /\ panes[p].generation <= Coming /\ p # NoPane
        /\ panes[p].generation = Coming => panes[p].worker \in wal[Coming].who
    BY DEF Live, Panes, NoPane, ScaleInv, Files, PaneInv
  <2>2. panes[p].generation # Coming
    <3>1. panes[p].generation = Coming => Coming \in Generations
      BY DEF Live, Coming, Generations, ScaleInv, Types, PanesType, TeamType
    <3> QED BY <2>1, <3>1 DEF Pending, PendingWal, ScaleInv, Files, WalInv
  <2>3. panes[p].generation <= team.generation
    BY <2>1, <2>2 DEF Live, Coming, ScaleInv, Types, PanesType, TeamType
  <2>4. team.roster[panes[p].worker] = p
    BY <2>3 DEF ScaleInv, Files, PaneInv
  <2> QED BY <2>1, <2>4 DEF Active
<1>2. (\A w \in Active : Gone(w)) => Live = {}
  BY <1>1 DEF Gone
<1> QED BY <1>1, <1>2

LEMMA StopTeardownStep ==
  ASSUME ScaleInv, StopTeardown \/ StopTeardownFails
  PROVE  ScaleInv'
PROOF
<1>1. /\ op.pc = "teardown" /\ UNCHANGED <<team, wal, receipt>> /\ ~Pending
      /\ \A w \in Active : Gone(w)
  BY DEF StopTeardown, StopTeardownFails, ScaleInv, OpInv, StopInv
<1>2. Live = {}
  BY <1>1, RowsAreAll
<1>3. Ends
  <2>1. CASE UNCHANGED panes
    BY <2>1, NothingIsCalm DEF ScaleInv, Types
  <2>2. CASE End(Live)
    BY <2>2, EndIsCalm DEF Live, ScaleInv, Types
  <2> QED BY <2>1, <2>2 DEF StopTeardown, StopTeardownFails
<1>4. OpType' /\ op'.pc \in {"stopped", "refuse"}
  BY DEF StopTeardown, StopTeardownFails, Step, ScaleInv, Types, OpType, Pc
<1>5. RestType'
  BY BoundAssumption DEF StopTeardown, StopTeardownFails, Fault, ScaleInv, Types, RestType
<1>6. Types' /\ Files' /\ Pending' = Pending
  BY <1>1, <1>3, <1>4, <1>5, HolderFacts DEF ScaleInv
<1>7. Live' = {}
  BY <1>2, <1>3, EndsShrink
<1>8. OpInv'
  BY <1>1, <1>4, <1>6, <1>7 DEF OpInv, RequestInv, LaunchInv, Launching, CommitInv, StopInv
<1> QED BY <1>6, <1>8 DEF ScaleInv

LEMMA StopCommitStep ==
  ASSUME ScaleInv, StopCommit
  PROVE  ScaleInv'
PROOF
<1>1. /\ op.pc = "stopped" /\ team' = [team EXCEPT !.stop = "stopped", !.stopped = TRUE]
      /\ Return /\ UNCHANGED <<wal, receipt, panes, transport, spent>>
  BY DEF StopCommit
<1>2. TeamType' /\ SameRows
  BY <1>1 DEF ScaleInv, Types, TeamType, StopState, SameRows
<1>3. ~Pending /\ Live = {}
  BY <1>1 DEF ScaleInv, OpInv, StopInv
<1>4. Calm
  BY <1>1, <1>2, <1>3, NothingIsCalm DEF Calm, ScaleInv, Types
<1>5. RestType'
  BY <1>1 DEF ScaleInv, Types, RestType
<1> QED BY <1>1, <1>2, <1>4, <1>5, CalmReturn

-----------------------------------------------------------------------------
LEMMA InitHolds == Init => ScaleInv
PROOF
<1> SUFFICES ASSUME Init PROVE ScaleInv
  OBVIOUS
<1> DEFINE rows == [w \in Workers |-> IF w <= Launched THEN w ELSE NoPane]
           one == [p \in Panes |-> [state |-> "live", worker |-> p, generation |-> 0]]
<1>1. /\ Launched \in Nat \ {0} /\ MaxWorkers \in Nat /\ Launched <= MaxWorkers
      /\ MaxPanes \in Nat /\ Launched <= MaxPanes /\ MaxGeneration \in Nat
  BY LaunchedAssumption, BoundAssumption
<1>2. PICK view \in Views, own \in BOOLEAN :
        team = [view |-> view, own |-> own, generation |-> 0, next |-> Launched + 1,
                roster |-> rows, stop |-> "", stopped |-> FALSE]
  BY DEF Init
<1>3. /\ rows \in Roster /\ \A w \in Workers : rows[w] = IF w <= Launched THEN w ELSE NoPane
  BY <1>1 DEF Roster, Workers, Panes
<1> HIDE DEF rows
<1>4. /\ TeamType /\ team.generation = 0 /\ team.next = Launched + 1 /\ team.roster = rows
      /\ team.stopped = FALSE /\ Coming = 1
  <2>1. 0 \in 0..MaxGeneration /\ Launched + 1 \in 1..(MaxWorkers + 1) /\ "" \in StopState
    BY <1>1 DEF StopState
  <2>2. TeamType
    BY <1>2, <1>3, <2>1 DEF TeamType
  <2>3. /\ team.generation = 0 /\ team.next = Launched + 1 /\ team.roster = rows /\ team.stopped = FALSE
    BY <1>2
  <2> QED BY <2>2, <2>3 DEF Coming
<1>5. /\ PanesType
      /\ \A p \in Panes : IF p <= Launched
           THEN panes[p].state = "live" /\ panes[p].worker = p /\ panes[p].generation = 0
           ELSE panes[p].state = "absent"
  <2>1. panes = [p \in Panes |-> IF p <= Launched THEN [state |-> "live", worker |-> p, generation |-> 0]
                                                  ELSE NotCreated]
    BY DEF Init
  <2>2. ASSUME NEW p \in Panes
        PROVE  /\ panes[p] \in [state : {"absent", "live", "ended"}, worker : 0..MaxWorkers,
                                generation : 0..MaxGeneration]
               /\ IF p <= Launched
                  THEN panes[p].state = "live" /\ panes[p].worker = p /\ panes[p].generation = 0
                  ELSE panes[p].state = "absent"
    <3>1. panes[p] = IF p <= Launched THEN [state |-> "live", worker |-> p, generation |-> 0]
                                      ELSE [state |-> "absent", worker |-> 0, generation |-> 0]
      BY <2>1 DEF NotCreated
    <3>2. p <= Launched => p \in 0..MaxWorkers
      BY <1>1 DEF Panes
    <3>3. 0 \in 0..MaxWorkers /\ 0 \in 0..MaxGeneration
      BY <1>1
    <3> QED BY <3>1, <3>2, <3>3
  <2> QED BY <2>1, <2>2 DEF PanesType
<1>6. /\ NoRoster \in Roster /\ \A g \in Generations : wal[g] = NoWal
      /\ NoWal \in [op : Operation, who : SUBSET Workers] /\ NoWal.op = "none" /\ NoWal.who = {}
  BY DEF Init, NoRoster, Roster, NoWal, Operation
<1>7. /\ receipt[0].op = "launch" /\ receipt[0].roster = rows
      /\ \A g \in Generations : receipt[g] = NoReceipt
      /\ NoReceipt \in [op : Operation \cup {"launch"}, roster : Roster] /\ NoReceipt.op = "none"
      /\ receipt \in [0..MaxGeneration -> [op : Operation \cup {"launch"}, roster : Roster]]
  <2>1. receipt = [g \in 0..MaxGeneration |->
                     IF g = 0 THEN [op |-> "launch", roster |-> rows] ELSE NoReceipt]
    BY <1>4 DEF Init
  <2>2. NoReceipt \in [op : Operation \cup {"launch"}, roster : Roster] /\ NoReceipt.op = "none"
    BY <1>6 DEF NoReceipt, Operation
  <2>3. [op |-> "launch", roster |-> rows] \in [op : Operation \cup {"launch"}, roster : Roster]
    BY <1>3
  <2>4. \A g \in Generations : g \in 0..MaxGeneration /\ g # 0
    BY DEF Generations
  <2>5. 0 \in 0..MaxGeneration
    BY <1>1
  <2> QED BY <2>1, <2>2, <2>3, <2>4, <2>5
<1>8. wal \in [Generations -> [op : Operation, who : SUBSET Workers]]
  <2>1. wal = [g \in Generations |-> NoWal]
    BY DEF Init
  <2> QED BY <1>6, <2>1
<1>9. op = Idle /\ OpType
  BY IdleFacts DEF Init, OpSet, OpType
<1>10. RestType
  <2>1. 0 \in 0..MaxEnds /\ 0 \in 0..MaxFaults /\ 0 \in 0..MaxKills
    BY BoundAssumption
  <2> QED BY <2>1 DEF Init, RestType
<1>11. Types
  BY <1>4, <1>5, <1>7, <1>8, <1>9, <1>10 DEF Types, FilesType
<1>12. RosterInv
  <2>1. \A w \in Workers : w <= Launched => w \in Panes
    BY <1>1 DEF Workers, Panes
  <2>2. \A w \in Workers : w >= Launched + 1 => ~(w <= Launched)
    BY <1>1 DEF Workers
  <2> QED BY <1>3, <1>4, <1>5, <2>1, <2>2 DEF RosterInv
<1>13. PaneInv
  <2>1. \A p \in Panes : p <= Launched => p \in Workers
    BY <1>1 DEF Workers, Panes
  <2> QED BY <1>3, <1>4, <1>5, <2>1 DEF PaneInv, Live
<1>14. WalInv /\ ReceiptInv
  BY <1>6, <1>7 DEF WalInv, ReceiptInv, Adds
<1>15. ChainInv
  BY <1>4, <1>6, <1>7 DEF ChainInv
<1>16. OpInv
  BY <1>9 DEF Idle, OpInv, RequestInv, LaunchInv, Launching, CommitInv, StopInv
<1> QED BY <1>11, <1>12, <1>13, <1>14, <1>15, <1>16 DEF ScaleInv, Files

LEMMA NextHolds == ASSUME LooksFirst PROVE ScaleInv /\ [Next]_vars => ScaleInv'
PROOF
<1> SUFFICES ASSUME ScaleInv, [Next]_vars PROVE ScaleInv'
  OBVIOUS
<1>1. CASE UNCHANGED vars
  <2>1. UNCHANGED <<team, wal, receipt, panes, transport, spent, op>>
    BY <1>1 DEF vars
  <2>2. OpType' /\ Ends
    BY <2>1, NothingIsCalm DEF ScaleInv, Types, OpType
  <2>3. Types' /\ Files'
    BY <2>1, <2>2, QuietFacts DEF ScaleInv
  <2>4. OpInv'
    BY <2>1, <2>2, EndsKeepOpInv DEF ScaleInv
  <2> QED BY <2>3, <2>4 DEF ScaleInv
<1>2. CASE Operator
  BY <1>2, AddRequestStep, RelaunchRequestStep, RemoveRequestStep, WalRetryStep, RemoveRetryStep,
     StopRequestStep DEF Operator, Retry
<1>3. CASE Holder
  BY <1>3, PublishWalStep, AdoptPaneStep, CreatePaneStep, RollBackStep, BindIdentitiesStep, KillStep,
     AllKilledStep, PersistReceiptStep, CommitStep, GivesUpStep, StopVerifyStep, StopSignalStep,
     StopSignalledStep, StopTeardownStep, StopCommitStep DEF Holder
<1>4. CASE Kill
  BY <1>4, GivesUpStep
<1>5. CASE \E p \in Panes : WorkerEnds(p)
  BY <1>5, WorkerEndsStep
<1> QED BY <1>1, <1>2, <1>3, <1>4, <1>5 DEF Next

LEMMA InductiveAlways == ASSUME LooksFirst PROVE Spec => []ScaleInv
PROOF
<1>1. Init => ScaleInv
  BY InitHolds
<1>2. ScaleInv /\ [Next]_vars => ScaleInv'
  BY NextHolds
<1> QED BY <1>1, <1>2, PTL DEF Spec

-----------------------------------------------------------------------------
(* No worker is ever run by two panes, however often the operation that    *)
(* launches it is killed and retried: of two live panes of a worker one is *)
(* of the pending operation, which launches only workers whose row is free *)
(* or whose pane is gone (_scale_up and relaunch_dead_incomplete_workers).  *)
THEOREM LaunchedOnceAlways == ASSUME LooksFirst PROVE Spec => []LaunchedOnce
PROOF
<1>1. ScaleInv => LaunchedOnce
  <2> SUFFICES ASSUME ScaleInv, NEW p \in Live, NEW q \in Live, panes[p].worker = panes[q].worker
               PROVE  p = q
    BY DEF LaunchedOnce
  <2> DEFINE w == panes[p].worker
  <2>1. \A r \in Live : /\ panes[r].worker \in Workers
                        /\ panes[r].generation = Coming => panes[r].worker \in wal[Coming].who
                        /\ panes[r].generation = Coming \/ panes[r].generation <= team.generation
                        /\ panes[r].generation <= team.generation => team.roster[panes[r].worker] = r
    BY DEF ScaleInv, Files, PaneInv, Live, Types, PanesType, TeamType, Coming
  <2>2. ASSUME NEW r \in Live, panes[r].worker = w, panes[r].generation <= team.generation,
               NEW s \in Live, panes[s].worker = w, panes[s].generation = Coming
        PROVE  FALSE
    <3>1. w \in wal[Coming].who /\ team.roster[w] = r /\ w \in Workers
      BY <2>1, <2>2
    <3>2. Coming \in Generations
      BY <2>2 DEF Live, Coming, Generations, ScaleInv, Types, PanesType, TeamType
    <3>3. r # NoPane
      BY DEF Live, Panes, NoPane
    <3>4. wal[Coming].op # "none"
      BY <3>1, <3>2 DEF ScaleInv, Files, WalInv
    <3>5. CASE wal[Coming].op = "add"
      <4>1. w < team.next
        BY <3>1, <3>3 DEF ScaleInv, Files, RosterInv, Types, TeamType, Workers
      <4>2. PICK m \in team.next..MaxWorkers : wal[Coming].who = team.next..m
        BY <3>2, <3>5 DEF ScaleInv, Files, WalInv
      <4> QED BY <3>1, <4>1, <4>2 DEF ScaleInv, Types, TeamType
    <3>6. CASE wal[Coming].op = "relaunch"
      BY <3>1, <3>2, <3>6 DEF ScaleInv, Files, WalInv, Gone
    <3> QED BY <3>2, <3>4, <3>5, <3>6 DEF ScaleInv, Files, WalInv, Adds
  <2>3. CASE panes[p].generation = Coming /\ panes[q].generation = Coming
    BY <2>3 DEF ScaleInv, Files, PaneInv
  <2>4. CASE panes[p].generation <= team.generation /\ panes[q].generation <= team.generation
    BY <2>1, <2>4
  <2> QED BY <2>1, <2>2, <2>3, <2>4
<1> QED BY <1>1, InductiveAlways, PTL

(* Between two operations team.json names every live pane, whatever was    *)
(* killed before: nothing of a scale-up, a relaunch or a scale-down is     *)
(* left running that a stop could not name (team/scaling.py).              *)
THEOREM NothingOrphanedAlways == ASSUME LooksFirst PROVE Spec => []NothingOrphaned
PROOF
<1>1. ScaleInv => NothingOrphaned
  <2> SUFFICES ASSUME ScaleInv, ~Pending, NEW p \in Live
               PROVE  p \in PanesOf(team.roster)
    BY DEF NothingOrphaned
  <2>1. team.roster[panes[p].worker] = p /\ panes[p].worker \in Active /\ p # NoPane
    BY RowsAreAll DEF Live, Panes, NoPane
  <2> QED BY <2>1 DEF PanesOf, Active
<1> QED BY <1>1, InductiveAlways, PTL

(* A team that stop_team reports as stopped has no live worker, and none   *)
(* is launched for it later.                                               *)
THEOREM StoppedAlwaysQuiet == ASSUME LooksFirst PROVE Spec => []StoppedIsQuiet
PROOF
<1>1. ScaleInv => StoppedIsQuiet
  BY DEF ScaleInv, Files, PaneInv, StoppedIsQuiet
<1> QED BY <1>1, InductiveAlways, PTL

-----------------------------------------------------------------------------
(* The chain of the receipts needs no assumption on the views: what it     *)
(* rests on is that a log and a receipt that are ahead of team.json are of *)
(* one operation, the one that is under way if there is one, and that a    *)
(* log adds the next workers.                                              *)
LogInv ==
  Coming \in Generations =>
    /\ wal[Coming].op \in Adds \cup {"none"}
    /\ wal[Coming].op = "add" => \E m \in team.next..MaxWorkers : wal[Coming].who = team.next..m
    /\ receipt[Coming].op \in Adds \cup {"none", "remove"}
    /\ receipt[Coming].op = "remove" => wal[Coming].op = "none"
    /\ receipt[Coming].op \in Adds => wal[Coming].op = receipt[Coming].op

HoldInv ==
  /\ op.pc \in {"wal", "launch", "receipt", "kill", "commit"} => Coming \in Generations /\ ~team.stopped
  /\ op.pc = "wal" =>
       /\ ~Pending /\ op.kind \in Adds
       /\ op.kind = "add" => \E m \in team.next..MaxWorkers : op.todo = team.next..m
  /\ Launching => op.kind \in Adds /\ op.kind = wal[Coming].op /\ receipt[Coming].op = "none"
  /\ op.pc = "receipt" /\ op.kind = "remove" => ~Pending
  /\ op.pc \in {"kill", "commit"} => receipt[Coming].op = op.kind /\ op.kind \in Adds \cup {"remove"}
  /\ op.pc \in {"verify", "signal", "teardown", "stopped"} => ~Pending

Chained == ChainInv /\ LogInv

LEMMA SameLogs ==
  ASSUME Chained, SameRows, UNCHANGED <<wal, receipt>>,
         team'.stopped => team.stopped \/ ~Pending
  PROVE  Chained' /\ Coming' = Coming /\ Pending' = Pending
PROOF
<1>1. /\ wal' = wal /\ receipt' = receipt
      /\ team'.generation = team.generation /\ team'.roster = team.roster /\ team'.next = team.next
  BY DEF SameRows
<1>2. Coming' = Coming /\ Pending' = Pending
  BY <1>1 DEF Coming, Pending, PendingWal, PendingReceipt
<1>3. ChainInv' /\ LogInv'
  BY <1>1, <1>2 DEF Chained, ChainInv, LogInv
<1> QED BY <1>2, <1>3 DEF Chained

(* The requests.                                                           *)
LEMMA RequestChained ==
  ASSUME Types, Chained, Operator
  PROVE  OpType' /\ HoldInv' /\ Chained' /\ TeamType'
PROOF
<1>1. CASE \E n \in Sizes : AddRequest(n)
  <2>1. PICK n \in Sizes : AddRequest(n)
    BY <1>1
  <2> DEFINE todo == team.next..(team.next + n - 1)
  <2>2. n \in Nat \ {0} /\ team.next \in 1..(MaxWorkers + 1) /\ MaxWorkers \in Nat
    BY SizesAssumption, LaunchedAssumption DEF Types, TeamType
  <2>3. /\ todo \in SUBSET Workers /\ team.next + n - 1 \in team.next..MaxWorkers
    BY <2>1, <2>2 DEF AddRequest, Workers
  <2>4. \E m \in team.next..MaxWorkers : todo = team.next..m
    BY <2>3
  <2>5. op' = [Idle EXCEPT !.pc = "wal", !.kind = "add", !.todo = todo]
    BY <2>1 DEF AddRequest
  <2>6. "wal" \in Pc /\ "add" \in Operation \cup {"stop"}
    BY DEF Pc, Operation
  <2> HIDE DEF todo
  <2>7. OpType' /\ op'.pc = "wal" /\ op'.kind = "add" /\ op'.todo = todo
    BY <2>3, <2>5, <2>6, RequestFacts
  <2>8. /\ UNCHANGED <<team, wal, receipt>>
        /\ ~Pending /\ Coming \in Generations /\ ~team.stopped
    BY <2>1 DEF AddRequest, Running
  <2>9. Chained' /\ Coming' = Coming /\ Pending' = Pending
    BY <2>8, SameLogs DEF SameRows
  <2>10. HoldInv'
    BY <2>4, <2>7, <2>8, <2>9 DEF HoldInv, Launching, Adds
  <2> QED BY <2>7, <2>8, <2>9, <2>10 DEF Types, TeamType
<1>2. CASE \E C \in SUBSET Active : RelaunchRequest(C)
  <2>1. PICK C \in SUBSET Active : RelaunchRequest(C)
    BY <1>2
  <2>2. op' = [Idle EXCEPT !.pc = "wal", !.kind = "relaunch", !.todo = C]
    BY <2>1 DEF RelaunchRequest
  <2>3. "wal" \in Pc /\ "relaunch" \in Operation \cup {"stop"} /\ C \in SUBSET Workers
    BY DEF Pc, Operation, Active
  <2>4. OpType' /\ op'.pc = "wal" /\ op'.kind = "relaunch"
    BY <2>2, <2>3, RequestFacts
  <2>5. /\ UNCHANGED <<team, wal, receipt>>
        /\ ~Pending /\ Coming \in Generations /\ ~team.stopped
    BY <2>1 DEF RelaunchRequest
  <2>6. Chained' /\ Coming' = Coming /\ Pending' = Pending
    BY <2>5, SameLogs DEF SameRows
  <2>7. HoldInv'
    BY <2>4, <2>5, <2>6 DEF HoldInv, Launching, Adds
  <2> QED BY <2>4, <2>5, <2>6, <2>7 DEF Types, TeamType
<1>3. CASE \E V \in SUBSET Active : RemoveRequest(V)
  <2>1. PICK V \in SUBSET Active : RemoveRequest(V)
    BY <1>3
  <2>2. op' = [Idle EXCEPT !.pc = "receipt", !.kind = "remove", !.todo = V]
    BY <2>1 DEF RemoveRequest
  <2>3. "receipt" \in Pc /\ "remove" \in Operation \cup {"stop"} /\ V \in SUBSET Workers
    BY DEF Pc, Operation, Active
  <2>4. OpType' /\ op'.pc = "receipt" /\ op'.kind = "remove"
    BY <2>2, <2>3, RequestFacts
  <2>5. /\ UNCHANGED <<team, wal, receipt>>
        /\ ~Pending /\ Coming \in Generations /\ ~team.stopped
    BY <2>1 DEF RemoveRequest, Running
  <2>6. Chained' /\ Coming' = Coming /\ Pending' = Pending
    BY <2>5, SameLogs DEF SameRows
  <2>7. HoldInv'
    BY <2>4, <2>5, <2>6 DEF HoldInv, Launching
  <2> QED BY <2>4, <2>5, <2>6, <2>7 DEF Types, TeamType
<1>4. CASE WalRetry
  <2> DEFINE pc == IF PendingReceipt THEN "commit" ELSE "launch"
             kind == wal[Coming].op
             todo == wal[Coming].who
  <2>1. op' = [Idle EXCEPT !.pc = pc, !.kind = kind, !.todo = todo]
    BY <1>4 DEF WalRetry
  <2>2. /\ Coming \in Generations /\ wal[Coming].op \in Adds /\ ~team.stopped
        /\ IF PendingReceipt THEN receipt[Coming].op = wal[Coming].op ELSE receipt[Coming].op = "none"
    BY <1>4 DEF WalRetry, PendingWal, PendingReceipt, Pending, Chained, LogInv, ChainInv, Adds
  <2>3. pc \in Pc /\ kind \in Operation \cup {"stop"} /\ todo \in SUBSET Workers
    BY <2>2 DEF Pc, Types, FilesType
  <2>4. pc = IF PendingReceipt THEN "commit" ELSE "launch"
    OBVIOUS
  <2> HIDE DEF pc, kind, todo
  <2>5. OpType' /\ op'.pc = pc /\ op'.kind = kind
    BY <2>1, <2>3, RequestFacts
  <2>6. UNCHANGED <<team, wal, receipt>>
    BY <1>4 DEF WalRetry
  <2>7. Chained' /\ Coming' = Coming
    BY <2>6, SameLogs DEF SameRows
  <2>8. HoldInv'
    BY <2>2, <2>4, <2>5, <2>6, <2>7 DEF HoldInv, Launching, kind, Adds
  <2> QED BY <2>5, <2>6, <2>7, <2>8 DEF Types, TeamType
<1>5. CASE RemoveRetry
  <2>1. op' = [Idle EXCEPT !.pc = "kill", !.kind = "remove", !.retry = TRUE, !.todo = Victims]
    BY <1>5 DEF RemoveRetry, Victims
  <2>2. "kill" \in Pc /\ "remove" \in Operation \cup {"stop"} /\ Victims \in SUBSET Workers
    BY DEF Pc, Operation, Victims, Active
  <2>3. OpType' /\ op'.pc = "kill" /\ op'.kind = "remove"
    BY <2>1, <2>2, IdleFacts DEF OpSet, OpType
  <2>4. /\ UNCHANGED <<team, wal, receipt>> /\ Coming \in Generations /\ ~team.stopped
        /\ receipt[Coming].op = "remove"
    BY <1>5 DEF RemoveRetry, Running, PendingWal, PendingReceipt, Chained, LogInv, Adds
  <2>5. Chained' /\ Coming' = Coming
    BY <2>4, SameLogs DEF SameRows
  <2>6. HoldInv'
    BY <2>3, <2>4, <2>5 DEF HoldInv, Launching
  <2> QED BY <2>3, <2>4, <2>5, <2>6 DEF Types, TeamType
<1>6. CASE StopRequest
  <2>1. op'.pc = "verify" /\ OpType'
    <3>1. op' = [Idle EXCEPT !.pc = "verify", !.kind = "stop"] /\ Idle.todo = {}
      BY <1>6 DEF StopRequest, Idle
    <3> QED BY <3>1, IdleFacts DEF OpSet, OpType, Pc
  <2>2. TeamType' /\ SameRows /\ team'.stopped = team.stopped
    BY <1>6 DEF StopRequest, Types, TeamType, StopState, SameRows
  <2>3. UNCHANGED <<wal, receipt>> /\ ~Pending
    BY <1>6 DEF StopRequest
  <2>4. Chained' /\ Pending' = Pending
    BY <2>2, <2>3, SameLogs
  <2>5. HoldInv'
    BY <2>1, <2>3, <2>4 DEF HoldInv, Launching
  <2> QED BY <2>1, <2>2, <2>4, <2>5
<1> QED BY <1>1, <1>2, <1>3, <1>4, <1>5, <1>6 DEF Operator, Retry

(* The holder's next place, when it leaves the files alone.                *)
LEMMA HoldOn ==
  ASSUME Types, Chained, HoldInv, NEW pc \in Pc, op' = [op EXCEPT !.pc = pc],
         UNCHANGED <<team, wal, receipt>>,
         \/ op.pc = "launch" /\ pc = "receipt"
         \/ op.pc = "kill" /\ pc = "commit"
         \/ op.pc \in {"verify", "signal", "teardown"} /\ pc \in {"signal", "teardown", "stopped", "refuse"}
  PROVE  OpType' /\ HoldInv' /\ Chained' /\ TeamType'
PROOF
<1>1. OpType' /\ op'.pc = pc /\ op'.kind = op.kind
  BY DEF Types, OpType
<1>2. Chained' /\ Coming' = Coming /\ Pending' = Pending
  BY SameLogs DEF SameRows
<1>3. HoldInv'
  <2>1. CASE op.pc = "launch" /\ pc = "receipt"
    <3>1. op.kind \in Adds /\ op.kind = wal[Coming].op /\ receipt[Coming].op = "none"
      BY <2>1 DEF HoldInv, Launching
    <3>2. Coming \in Generations /\ ~team.stopped /\ op.kind # "remove"
      BY <2>1, <3>1 DEF HoldInv, Adds
    <3> QED BY <1>1, <1>2, <2>1, <3>1, <3>2 DEF HoldInv, Launching
  <2>2. CASE op.pc = "kill" /\ pc = "commit"
    BY <1>1, <1>2, <2>2 DEF HoldInv, Launching
  <2>3. CASE /\ op.pc \in {"verify", "signal", "teardown"}
             /\ pc \in {"signal", "teardown", "stopped", "refuse"}
    <3>1. ~Pending
      BY <2>3 DEF HoldInv
    <3>2. ~Pending' /\ op'.pc \in {"signal", "teardown", "stopped", "refuse"}
      BY <1>1, <1>2, <2>3, <3>1
    <3> QED BY <3>2 DEF HoldInv, Launching
  <2> QED BY <2>1, <2>2, <2>3
<1> QED BY <1>1, <1>2, <1>3 DEF Types, TeamType

(* Or when it goes through the workers of its operation.                   *)
LEMMA HoldStays ==
  ASSUME Types, Chained, HoldInv, OpType', op'.pc = op.pc, op'.kind = op.kind,
         op.pc # "wal" \/ UNCHANGED op, UNCHANGED <<team, wal, receipt>>
  PROVE  HoldInv' /\ Chained' /\ TeamType'
PROOF
<1>1. Chained' /\ Coming' = Coming /\ Pending' = Pending
  BY SameLogs DEF SameRows
<1>2. HoldInv'
  BY <1>1 DEF HoldInv, Launching
<1> QED BY <1>1, <1>2 DEF Types, TeamType

LEMMA HoldReturns ==
  ASSUME Types, Chained, Return, SameRows, TeamType', UNCHANGED <<wal, receipt>>,
         team'.stopped => team.stopped \/ ~Pending
  PROVE  OpType' /\ HoldInv' /\ Chained'
PROOF
<1>1. Chained'
  BY SameLogs
<1>2. op'.pc = "idle" /\ OpType'
  BY ReturnKeepsOpInv DEF Return, Idle
<1>3. HoldInv'
  BY <1>2 DEF HoldInv, Launching
<1> QED BY <1>1, <1>2, <1>3

(* Publishing a log, writing a receipt and committing.                     *)
LEMMA PublishChained ==
  ASSUME Types, Chained, HoldInv, PublishWal
  PROVE  OpType' /\ HoldInv' /\ Chained' /\ TeamType' /\ FilesType'
PROOF
<1> DEFINE log == [op |-> op.kind, who |-> op.todo]
<1>1. /\ Coming \in Generations /\ ~team.stopped /\ op.kind \in Adds /\ op.todo \subseteq Workers
      /\ wal[Coming].op = "none" /\ receipt[Coming].op = "none"
      /\ op.kind = "add" => \E m \in team.next..MaxWorkers : op.todo = team.next..m
  BY DEF PublishWal, HoldInv, Pending, PendingWal, PendingReceipt, Types, OpType
<1>2. log \in [op : Operation, who : SUBSET Workers] /\ log.op = op.kind /\ log.who = op.todo
  BY <1>1 DEF Operation, Adds
<1> HIDE DEF log
<1>3. /\ wal' = [wal EXCEPT ![Coming] = log] /\ op' = [op EXCEPT !.pc = "launch"]
      /\ UNCHANGED <<team, receipt>>
  BY DEF PublishWal, Step, log
<1>4. /\ FilesType' /\ wal'[Coming] = log /\ \A g \in Generations : g # Coming => wal'[g] = wal[g]
  BY <1>1, <1>2, <1>3 DEF Types, FilesType
<1>5. OpType' /\ op'.pc = "launch" /\ op'.kind = op.kind
  BY <1>3 DEF Types, OpType, Pc
<1>6. Coming' = Coming
  BY <1>3 DEF Coming
<1>7. ChainInv'
  <2>1. \A g \in Generations : g > Coming => g # Coming
    BY DEF Types, TeamType, Coming, Generations
  <2> QED BY <1>1, <1>3, <1>4, <1>6, <2>1 DEF Chained, ChainInv
<1>8. LogInv'
  BY <1>1, <1>2, <1>3, <1>4, <1>6 DEF LogInv, Adds
<1>9. HoldInv'
  BY <1>1, <1>2, <1>3, <1>4, <1>5, <1>6 DEF HoldInv, Launching
<1> QED BY <1>3, <1>4, <1>5, <1>7, <1>8, <1>9 DEF Chained, Types, TeamType

LEMMA ReceiptChained ==
  ASSUME Types, Chained, HoldInv, PersistReceipt
  PROVE  OpType' /\ HoldInv' /\ Chained' /\ TeamType' /\ FilesType'
PROOF
<1> DEFINE rows == [w \in Workers |->
                      IF op.kind = "remove" THEN (IF w \in op.todo THEN NoPane ELSE team.roster[w])
                      ELSE IF op.bound[w] # NoPane THEN op.bound[w] ELSE team.roster[w]]
           new == [op |-> op.kind, roster |-> rows]
           pc == IF op.kind = "remove" THEN "kill" ELSE "commit"
<1>1. /\ op.pc = "receipt" /\ receipt' = [receipt EXCEPT ![Coming] = new]
      /\ op' = [op EXCEPT !.pc = pc] /\ UNCHANGED <<team, wal>>
  BY DEF PersistReceipt, Step
<1>2. /\ Coming \in Generations /\ ~team.stopped /\ op.kind \in Adds \cup {"remove"}
      /\ op.kind = "remove" => wal[Coming].op = "none"
      /\ op.kind # "remove" => op.kind = wal[Coming].op
  BY <1>1 DEF HoldInv, Launching, Pending, PendingWal
<1>3. \A w \in Workers : team.roster[w] \in Panes \cup {NoPane} /\ op.bound[w] \in Panes \cup {NoPane}
  BY DEF Types, TeamType, OpType, Roster
<1>4. rows \in Roster
  BY <1>3 DEF Roster
<1> HIDE DEF rows
<1>5. new \in [op : Operation \cup {"launch"}, roster : Roster] /\ new.op = op.kind
  BY <1>2, <1>4 DEF Adds, Operation
<1>6. pc \in Pc /\ pc = IF op.kind = "remove" THEN "kill" ELSE "commit"
  BY DEF Pc
<1> HIDE DEF new, pc
<1>7. Coming \in 0..MaxGeneration /\ Coming # team.generation /\ team.generation \in 0..MaxGeneration
  BY <1>2 DEF Generations, Coming, Types, TeamType
<1>8. /\ FilesType' /\ receipt'[Coming] = new
      /\ \A g \in 0..MaxGeneration : g # Coming => receipt'[g] = receipt[g]
  BY <1>1, <1>5, <1>7 DEF Types, FilesType
<1>9. OpType' /\ op'.pc = pc /\ op'.kind = op.kind
  BY <1>1, <1>6 DEF Types, OpType
<1>10. Coming' = Coming
  BY <1>1 DEF Coming
<1>11. ChainInv'
  <2>1. \A g \in Generations : g \in 0..MaxGeneration /\ (g > Coming => g # Coming)
    BY <1>7 DEF Generations, Coming, Types, TeamType
  <2>2. wal[Coming].op # "none" => wal[Coming].op = op.kind
    BY <1>2
  <2> QED BY <1>1, <1>2, <1>5, <1>7, <1>8, <1>10, <2>1, <2>2 DEF Chained, ChainInv
<1>12. LogInv'
  BY <1>1, <1>2, <1>5, <1>8, <1>10 DEF Chained, LogInv, Adds
<1>13. HoldInv'
  BY <1>1, <1>2, <1>5, <1>6, <1>8, <1>9, <1>10 DEF HoldInv, Launching
<1> QED BY <1>1, <1>8, <1>9, <1>11, <1>12, <1>13 DEF Chained, Types, TeamType

LEMMA CommitChained ==
  ASSUME Types, Chained, HoldInv, Commit
  PROVE  OpType' /\ HoldInv' /\ Chained' /\ TeamType'
PROOF
<1> DEFINE next == team.next + IF op.kind = "add" THEN Cardinality(wal[Coming].who) ELSE 0
           rows == receipt[Coming].roster
<1>1. op.pc = "commit" /\ Return /\ UNCHANGED <<wal, receipt>>
  BY DEF Commit
<1>2. /\ Coming \in Generations /\ Coming \in 0..MaxGeneration /\ ~team.stopped
      /\ op.kind = "add" => wal[Coming].op = "add"
      /\ team.next \in 1..(MaxWorkers + 1) /\ MaxWorkers \in Nat
  BY <1>1, LaunchedAssumption DEF HoldInv, Generations, Chained, LogInv, Adds, Types, TeamType
<1>3. next \in 1..(MaxWorkers + 1)
  <2>1. CASE op.kind = "add"
    <3>1. PICK m \in team.next..MaxWorkers : wal[Coming].who = team.next..m
      BY <1>2, <2>1 DEF Chained, LogInv
    <3>2. team.next \in Int /\ m \in Int /\ team.next <= m
      BY <1>2, <3>1
    <3>3. Cardinality((team.next)..m) = IF team.next > m THEN 0 ELSE m - team.next + 1
      BY <3>2, FS_Interval
    <3>4. next = m + 1
      BY <1>2, <2>1, <3>1, <3>2, <3>3
    <3> QED BY <1>2, <3>1, <3>4
  <2>2. CASE op.kind # "add"
    BY <1>2, <2>2
  <2> QED BY <2>1, <2>2
<1>4. rows \in Roster
  BY <1>2 DEF Types, FilesType
<1> HIDE DEF next, rows
<1>5. team' = [team EXCEPT !.generation = Coming, !.roster = rows, !.next = next]
  BY DEF Commit, next, rows
<1>6. TeamType' /\ team'.generation = Coming /\ team'.roster = rows /\ team'.stopped = team.stopped
  BY <1>2, <1>3, <1>4, <1>5 DEF Types, TeamType
<1>7. op'.pc = "idle" /\ OpType'
  BY <1>1, ReturnKeepsOpInv DEF Return, Idle
<1>8. HoldInv'
  BY <1>7 DEF HoldInv, Launching
<1>9. Coming' = Coming + 1 /\ Coming \in Nat
  BY <1>2, <1>6 DEF Coming, Generations
<1>10. /\ Coming' \in Generations => receipt[Coming'] = NoReceipt /\ wal[Coming'] = NoWal
       /\ NoReceipt.op = "none" /\ NoWal.op = "none"
  BY <1>9 DEF NoReceipt, NoWal, Chained, ChainInv
<1>11. LogInv'
  BY <1>1, <1>10 DEF LogInv, Adds
<1>12. ChainInv'
  <2>1. \A g \in Generations : g > Coming' => g > Coming
    BY <1>9 DEF Generations
  <2> QED BY <1>1, <1>2, <1>6, <2>1 DEF rows, Chained, ChainInv
<1> QED BY <1>6, <1>7, <1>8, <1>11, <1>12 DEF Chained

(* Panes keep their type, whatever step is taken.                          *)
LEMMA PanesTyped ==
  ASSUME Types, HoldInv, Next
  PROVE  PanesType'
PROOF
<1>1. ASSUME NEW S, End(S) PROVE PanesType'
  BY <1>1 DEF End, Types, PanesType
<1>2. ASSUME NEW kills, RollBack(kills) PROVE PanesType'
  BY <1>1, <1>2 DEF RollBack, Types, PanesType
<1>3. ASSUME UNCHANGED panes PROVE PanesType'
  BY <1>3 DEF Types, PanesType
<1>4. ASSUME NEW w \in Workers, CreatePane(w) PROVE PanesType'
  <2>1. w \in 0..MaxWorkers /\ Coming \in 0..MaxGeneration
    BY <1>4, LaunchedAssumption DEF CreatePane, NextWorker, HoldInv, Generations, Workers
  <2> DEFINE new == [state |-> "live", worker |-> w, generation |-> Coming]
  <2>2. new \in [state : {"absent", "live", "ended"}, worker : 0..MaxWorkers,
                 generation : 0..MaxGeneration]
    BY <2>1
  <2> HIDE DEF new
  <2>3. \E p \in Panes : panes' = [panes EXCEPT ![p] = new]
    BY <1>4 DEF CreatePane, new
  <2> QED BY <2>2, <2>3 DEF Types, PanesType
<1>5. CASE Operator
  BY <1>3, <1>5 DEF Operator, Retry, AddRequest, RelaunchRequest, RemoveRequest, WalRetry, RemoveRetry,
     StopRequest
<1>6. CASE LaunchFails \/ BindFails \/ ReceiptFails
  BY <1>2, <1>6 DEF LaunchFails, BindFails, ReceiptFails
<1>7. CASE \E w \in Workers : KillVictim(w) \/ StopSignal(w)
  BY <1>1, <1>3, <1>7 DEF KillVictim, StopSignal
<1>8. CASE StopTeardown
  BY <1>1, <1>3, <1>8 DEF StopTeardown
<1>9. CASE \E p \in Panes : WorkerEnds(p)
  BY <1>1, <1>9 DEF WorkerEnds
<1>10. CASE \/ PublishWal \/ BindIdentities \/ AllKilled \/ PersistReceipt \/ Commit \/ CommitFails
            \/ StopVerify \/ StopVerifyFails \/ StopSignalled \/ StopTeardownFails
            \/ StopCommit \/ StopRefuse \/ Kill
            \/ \E w \in Workers : AdoptPane(w) \/ KillFails(w)
  BY <1>3, <1>10 DEF PublishWal, BindIdentities, AllKilled, PersistReceipt, Commit, CommitFails,
     StopVerify, StopVerifyFails, StopSignalled, StopTeardownFails, StopCommit, StopRefuse, Kill,
     AdoptPane, KillFails
<1> QED BY <1>4, <1>5, <1>6, <1>7, <1>8, <1>9, <1>10 DEF Next, Holder

LEMMA RestTyped ==
  ASSUME Types, Next
  PROVE  RestType'
PROOF
<1>1. ASSUME Fault, UNCHANGED transport PROVE RestType'
  BY <1>1, FaultType DEF Types
<1>2. ASSUME UNCHANGED <<transport, spent>> PROVE RestType'
  BY <1>2 DEF Types, RestType
<1>3. CASE Operator
  BY <1>2, <1>3 DEF Operator, Retry, AddRequest, RelaunchRequest, RemoveRequest, WalRetry, RemoveRetry,
     StopRequest
<1>4. CASE LaunchFails \/ BindFails \/ ReceiptFails
  BY <1>1, <1>2, <1>4 DEF LaunchFails, BindFails, ReceiptFails
<1>5. CASE \E w \in Workers : KillVictim(w) \/ KillFails(w) \/ StopSignal(w)
  BY <1>1, <1>2, <1>5 DEF KillVictim, KillFails, StopSignal
<1>6. CASE StopTeardown
  BY <1>6 DEF StopTeardown, Types, RestType
<1>7. CASE CommitFails \/ StopTeardownFails
  BY <1>1, <1>7 DEF CommitFails, StopTeardownFails
<1>8. CASE Kill \/ \E p \in Panes : WorkerEnds(p)
  <2>1. CASE Kill
    BY <2>1, BoundAssumption DEF Kill, Types, RestType
  <2>2. CASE \E p \in Panes : WorkerEnds(p)
    BY <2>2, BoundAssumption DEF WorkerEnds, Types, RestType
  <2> QED BY <1>8, <2>1, <2>2
<1>9. CASE \/ PublishWal \/ BindIdentities \/ AllKilled \/ PersistReceipt \/ Commit
           \/ StopVerify \/ StopVerifyFails \/ StopSignalled \/ StopCommit \/ StopRefuse
           \/ \E w \in Workers : AdoptPane(w) \/ CreatePane(w)
  BY <1>2, <1>9 DEF PublishWal, BindIdentities, AllKilled, PersistReceipt, Commit,
     StopVerify, StopVerifyFails, StopSignalled, StopCommit, StopRefuse, AdoptPane, CreatePane
<1> QED BY <1>3, <1>4, <1>5, <1>6, <1>7, <1>8, <1>9 DEF Next, Holder

(* The other steps.                                                        *)
LEMMA HolderChained ==
  ASSUME Types, Chained, HoldInv, Holder \/ Kill \/ \E p \in Panes : WorkerEnds(p)
  PROVE  OpType' /\ HoldInv' /\ Chained' /\ TeamType' /\ FilesType'
PROOF
<1>1. ASSUME UNCHANGED <<wal, receipt>> PROVE FilesType'
  BY <1>1 DEF Types, FilesType
<1>2. ASSUME UNCHANGED team PROVE TeamType' /\ SameRows /\ team'.stopped = team.stopped
  BY <1>2 DEF Types, TeamType, SameRows
<1>3. CASE PublishWal
  BY <1>3, PublishChained
<1>4. CASE PersistReceipt
  BY <1>4, ReceiptChained
<1>5. CASE Commit
  BY <1>1, <1>5, CommitChained DEF Commit
<1>6. CASE LaunchFails \/ BindFails \/ ReceiptFails \/ CommitFails \/ Kill \/ (AllKilled /\ op.failed)
  <2>1. Return /\ UNCHANGED <<team, wal, receipt>>
    BY <1>6 DEF LaunchFails, BindFails, ReceiptFails, CommitFails, Kill, AllKilled
  <2> QED BY <1>1, <1>2, <2>1, HoldReturns
<1>7. CASE AllKilled /\ ~op.failed
  <2>1. /\ op.pc = "kill" /\ op' = [op EXCEPT !.pc = "commit"] /\ "commit" \in Pc
        /\ UNCHANGED <<team, wal, receipt>>
    BY <1>7 DEF AllKilled, Step, Pc
  <2> QED BY <1>1, <2>1, HoldOn
<1>8. CASE BindIdentities
  <2>1. /\ op.pc = "launch" /\ op' = [op EXCEPT !.pc = "receipt"] /\ "receipt" \in Pc
        /\ UNCHANGED <<team, wal, receipt>>
    BY <1>8 DEF BindIdentities, Step, Pc
  <2> QED BY <1>1, <2>1, HoldOn
<1>9. CASE \E w \in Workers : AdoptPane(w) \/ CreatePane(w)
  <2>1. PICK w \in Workers, p \in Panes : /\ op' = [op EXCEPT !.todo = @ \ {w}, !.bound[w] = p]
                                          /\ UNCHANGED <<team, wal, receipt>> /\ op.pc = "launch"
    BY <1>9 DEF AdoptPane, CreatePane, NextWorker, Bind, Found, Orphans, Live
  <2>2. OpType' /\ op'.pc = op.pc /\ op'.kind = op.kind
    BY <2>1 DEF Types, OpType, Roster
  <2> QED BY <1>1, <2>1, <2>2, HoldStays
<1>10. CASE \E w \in Workers : KillVictim(w) \/ KillFails(w) \/ StopSignal(w)
  <2>1. PICK w \in Workers : KillVictim(w) \/ KillFails(w) \/ StopSignal(w)
    BY <1>10
  <2>2. OpType' /\ op'.pc = op.pc /\ op'.kind = op.kind
    BY <2>1 DEF KillVictim, KillFails, StopSignal, Types, OpType
  <2>3. UNCHANGED <<team, wal, receipt>> /\ op.pc # "wal"
    BY <2>1 DEF KillVictim, KillFails, StopSignal
  <2> QED BY <1>1, <2>2, <2>3, HoldStays
<1>11. CASE \E p \in Panes : WorkerEnds(p)
  <2>1. UNCHANGED <<team, wal, receipt, op>>
    BY <1>11 DEF WorkerEnds
  <2>2. OpType'
    BY <2>1 DEF Types, OpType
  <2> QED BY <1>1, <2>1, <2>2, HoldStays
<1>12. CASE StopVerify
  <2>1. /\ op.pc = "verify" /\ op' = [op EXCEPT !.pc = "signal", !.todo = Active]
        /\ UNCHANGED <<team, wal, receipt>> /\ Active \in SUBSET Workers
    BY <1>12 DEF StopVerify, Active
  <2>2. OpType' /\ op'.pc = "signal"
    BY <2>1 DEF Types, OpType, Pc
  <2>3. ~Pending
    BY <2>1 DEF HoldInv
  <2>4. Chained' /\ Pending' = Pending
    BY <1>2, <2>1, SameLogs
  <2>5. HoldInv'
    BY <2>2, <2>3, <2>4 DEF HoldInv, Launching
  <2> QED BY <1>1, <1>2, <2>1, <2>2, <2>4, <2>5
<1>13. CASE StopVerifyFails \/ StopSignalled \/ StopTeardown \/ StopTeardownFails
  <2>1. PICK pc \in {"teardown", "stopped", "refuse"} :
          /\ op.pc \in {"verify", "signal", "teardown"} /\ op' = [op EXCEPT !.pc = pc]
          /\ UNCHANGED <<team, wal, receipt>>
    BY <1>13 DEF StopVerifyFails, StopSignalled, StopTeardown, StopTeardownFails, Step
  <2>2. pc \in Pc
    BY DEF Pc
  <2> QED BY <1>1, <2>1, <2>2, HoldOn
<1>14. CASE StopCommit \/ StopRefuse
  <2>1. /\ Return /\ UNCHANGED <<wal, receipt>>
        /\ \/ op.pc = "stopped" /\ team' = [team EXCEPT !.stop = "stopped", !.stopped = TRUE]
           \/ team' = [team EXCEPT !.stop = "stop_refused"]
    BY <1>14 DEF StopCommit, StopRefuse
  <2>2. TeamType' /\ SameRows
    BY <2>1 DEF Types, TeamType, StopState, SameRows
  <2>3. team'.stopped => team.stopped \/ ~Pending
    BY <2>1 DEF Types, TeamType, HoldInv
  <2> QED BY <1>1, <2>1, <2>2, <2>3, HoldReturns
<1> QED BY <1>3, <1>4, <1>5, <1>6, <1>7, <1>8, <1>9, <1>10, <1>11, <1>12, <1>13, <1>14 DEF Holder

(* The state is typed, team.json agrees with the receipt of its            *)
(* generation, and the files of one operation at most are ahead of it, for *)
(* a team of any view: what _load_team_identity_chain of team/plane.py     *)
(* insists on.                                                             *)
THEOREM ChainAlwaysFollows == Spec => []ChainFollowsTeam
PROOF
<1> DEFINE Inv == Types /\ Chained /\ HoldInv
<1>1. Init => Inv
  <2>1. ScaleInv => LogInv
    BY DEF ScaleInv, Files, WalInv, ReceiptInv, LogInv
  <2>2. ScaleInv => HoldInv
    BY DEF ScaleInv, OpInv, RequestInv, LaunchInv, CommitInv, StopInv, HoldInv
  <2> QED BY <2>1, <2>2, InitHolds DEF ScaleInv, Files, Chained
<1>2. Inv /\ [Next]_vars => Inv'
  <2> SUFFICES ASSUME Inv, [Next]_vars PROVE Inv'
    OBVIOUS
  <2>1. CASE UNCHANGED vars
    BY <2>1 DEF vars, Types, TeamType, PanesType, FilesType, OpType, RestType, Chained, ChainInv, LogInv,
       HoldInv, Launching, Pending, PendingWal, PendingReceipt, Coming
  <2>2. CASE Next
    <3>1. OpType' /\ HoldInv' /\ Chained' /\ TeamType' /\ FilesType'
      <4>1. CASE Operator
        <5>1. FilesType'
          BY <4>1 DEF Operator, Retry, AddRequest, RelaunchRequest, RemoveRequest, WalRetry, RemoveRetry,
             StopRequest, Types, FilesType
        <5> QED BY <4>1, <5>1, RequestChained
      <4>2. CASE ~Operator
        BY <2>2, <4>2, HolderChained DEF Next
      <4> QED BY <4>1, <4>2
    <3>2. PanesType' /\ RestType'
      BY <2>2, PanesTyped, RestTyped
    <3> QED BY <3>1, <3>2 DEF Types
  <2> QED BY <2>1, <2>2
<1>3. Inv => ChainFollowsTeam
  <2> SUFFICES ASSUME Inv PROVE ChainFollowsTeam
    OBVIOUS
  <2>1. op.pc = "launch" => wal[team.generation + 1].op = op.kind
    BY DEF HoldInv, Launching, Coming
  <2>2. op.pc \in {"kill", "commit"} => receipt[team.generation + 1].op = op.kind
    BY DEF HoldInv, Coming
  <2>3. TypeOK
    BY <2>1, <2>2 DEF TypeOK, Types, TeamType, PanesType, FilesType, OpType, RestType
  <2> QED BY <2>3 DEF ChainFollowsTeam, Chained, ChainInv
<1> QED BY <1>1, <1>2, <1>3, PTL DEF Spec
================================================================================
