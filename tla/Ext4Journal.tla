---------------------------- MODULE Ext4Journal ----------------------------
(***************************************************************************)
(* The metadata journal of ext4, crates/kernel/ext4/src/journal.rs,        *)
(* journal/checkpoint.rs and jbd2/: a transaction is emitted into the log, *)
(* anchored by the journal superblock, kept in memory until a checkpoint   *)
(* writes its home blocks and marks the journal clean, and replayed by the *)
(* next mount when the power was cut in between.  The transaction gate     *)
(* serialises commits and checkpoints, so one program counter serves both. *)
(*                                                                         *)
(* An address of the device (the journal superblock, a log slot, a home    *)
(* block) is the sequence of the values written to it since it was last    *)
(* known to be on the medium: a read returns the last one, a power cut     *)
(* leaves any one of them.  Blocks are written atomically, requests of     *)
(* several blocks are not.  Home blocks are adjacent, so a checkpoint is   *)
(* one request, as the body of a transaction is.                           *)
(***************************************************************************)
EXTENDS Integers, Sequences

CONSTANTS Blocks,     \* the home blocks, as lba
          Payloads,   \* the staged sets a commit may carry, sorted by lba
          Slots,      \* usable(): log slots 1 .. Slots behind the superblock
          Cap,        \* descriptor_capacity_for: tags in one descriptor
          Configs     \* device, mount options and fault budget of a volume

Modes == {"none", "v1", "v3"}

ASSUME JournalAssumption ==
    /\ Slots \in Nat \ {0} /\ Cap \in Nat \ {0}
    /\ \A p \in Payloads : /\ p # <<>> /\ \A i \in DOMAIN p : p[i] \in Blocks
                           /\ \A i, j \in DOMAIN p : i < j => p[i] < p[j]
    /\ \A c \in Configs :
          /\ c.cache \in BOOLEAN    \* the device has a volatile write cache
          /\ c.barrier \in BOOLEAN  \* the barrier / nobarrier option
          /\ c.async \in BOOLEAN    \* journal_async_commit
          /\ c.csum \in Modes       \* ChecksumMode
          /\ c.faults \in Nat       \* bound: requests the device refuses
          /\ c.crashes \in Nat      \* bound: power cuts
          /\ c.txns \in Nat         \* bound: attempts to commit
          /\ c.async => c.csum # "none" /\ c.faults = 0

VARIABLES
    cfg,       \* the volume, fixed by Init
    jsb,       \* journal superblock: s_start and s_sequence
    log,       \* log slots
    home,      \* home blocks
    pending,   \* MountState.pending_checkpoints
    taken,     \* the list a running checkpoint has taken
    cursor,    \* MountState.journal_cursor
    used,      \* MountState.journal_used
    op,        \* the commit in progress
    pc,        \* where the holder of the transaction gate is
    hist,      \* every attempt so far: its blocks and how it ended
    scan,      \* recovery: the scan of the log and the home writes left
    faults, crashes

devVars == <<jsb, log, home>>
memVars == <<pending, taken, cursor, used, op>>
vars    == <<cfg, jsb, log, home, pending, taken, cursor, used, op, pc,
             hist, scan, faults, crashes>>

-----------------------------------------------------------------------------
(* The device. *)

Read(a) == a[Len(a)]
Stable(a) == <<Read(a)>>

\* A request in flight: the medium may or may not have it.
Post(a, v) == IF v = Read(a) THEN a ELSE Append(a, v)

\* A completed request is on the medium unless the device caches writes.
Settle(a) == IF cfg.cache THEN a ELSE Stable(a)
SettleAll(f) == [i \in DOMAIN f |-> Settle(f[i])]
FlushAll(f)  == [i \in DOMAIN f |-> Stable(f[i])]

\* submit_sync of one block.
Write(a, v) == Settle(Post(a, v))

-----------------------------------------------------------------------------
(* The records of the log. The content of a home block is the pair of its  *)
(* own lba and the attempt that wrote it; any other bytes are Garbage.     *)

Record(kind, seq, body, sum) ==
    [kind |-> kind, seq |-> seq, body |-> body, sum |-> sum]
Blank == Record("blank", 0, <<>>, <<>>)
Desc(seq, tags) == Record("desc", seq, tags, <<>>)
Data(c) == Record("data", 0, <<c>>, <<>>)
CommitBlock(seq, sum) == Record("commit", seq, <<>>, sum)
Garbage == <<0, 0>>

DivCeil(a, b) == (a + b - 1) \div b
TxnBlocks(p) == Len(p) + DivCeil(Len(p), Cap) + 1

\* wrap_advance and LogCursor::reserve
Advance(at, n) == 1 + ((at - 1 + n) % Slots)

Content(p, k) == [i \in DOMAIN p |-> <<p[i], k>>]

\* The descriptors and data blocks of attempt k, in journal order. A tag
\* names the target and, in V3, the checksum of its data block, which only
\* that data block matches.
Body(p, k, seq) ==
    LET cs == Content(p, k)
        Group(g) == SubSeq(cs, (g - 1) * Cap + 1,
                           IF g * Cap < Len(cs) THEN g * Cap ELSE Len(cs))
        upto[g \in 0..DivCeil(Len(p), Cap)] ==
            IF g = 0 THEN <<>>
            ELSE upto[g - 1] \o <<Desc(seq, Group(g))>>
                 \o [i \in DOMAIN Group(g) |-> Data(Group(g)[i])]
    IN  upto[DivCeil(Len(p), Cap)]

\* V1 closes the body with a checksum over all of it.
CommitOf(body, seq) == CommitBlock(seq, IF cfg.csum = "v1" THEN body ELSE <<>>)

-----------------------------------------------------------------------------
(* Recovery: both passes of replay as one scan of the log, a block or a    *)
(* descriptor with its data at a time.  The state of the scan is where it  *)
(* stands, the sequence it expects, the blocks of the open transaction,    *)
(* those to apply, the transactions closed, the body read since the last   *)
(* commit, and how it ended.                                               *)

ScanStart(j) == [cur |-> j.start, seq |-> j.seq, open |-> <<>>, out |-> <<>>,
                 txns |-> 0, body |-> <<>>, end |-> "no"]

\* (Mutant: the blocks that match are applied though another one does not.)
ScanDescPartial(s, rec) ==
    LET n == Len(rec.body)
        data == [i \in 1..n |-> Read(log[Advance(s.cur, i)])]
        Bytes(i) == IF data[i].kind = "data" THEN data[i].body[1] ELSE Garbage
        writes == [i \in 1..n |-> <<rec.body[i][1], Bytes(i)>>]
        Matches(w) == \E i \in 1..n : w[2] = rec.body[i]
    IN  IF cfg.csum = "v3" /\ \E i \in 1..n : Bytes(i) # rec.body[i]
        THEN [s EXCEPT !.end = "bad", !.out = @ \o SelectSeq(writes, Matches)]
        ELSE [s EXCEPT !.cur = Advance(s.cur, n + 1),
                       !.open = @ \o writes,
                       !.body = @ \o <<rec>> \o data]

\* A descriptor and its data blocks: V3 checks each block against its tag.
ScanDesc(s, rec) ==
    LET n == Len(rec.body)
        data == [i \in 1..n |-> Read(log[Advance(s.cur, i)])]
        Bytes(i) == IF data[i].kind = "data" THEN data[i].body[1] ELSE Garbage
        good == \A i \in 1..n : Bytes(i) = rec.body[i]
    IN  IF cfg.csum = "v3" /\ ~good
        THEN [s EXCEPT !.end = "bad"]
        ELSE [s EXCEPT !.cur = Advance(s.cur, n + 1),
                       !.open = @ \o [i \in 1..n |-> <<rec.body[i][1], Bytes(i)>>],
                       !.body = @ \o <<rec>> \o data]

\* A commit record closes the transaction. V1 compares the checksum in the
\* first pass, before any block is applied.
ScanCommit(s, rec) ==
    IF cfg.csum = "v1" /\ rec.sum # s.body
    THEN [s EXCEPT !.end = "bad", !.out = <<>>]
    ELSE [s EXCEPT !.cur = Advance(s.cur, 1), !.seq = @ + 1, !.txns = @ + 1,
                   !.out = @ \o s.open, !.open = <<>>, !.body = <<>>]

\* The log ends at a block without the expected header, or after a lap.
ScanStep(s, start) ==
    LET rec == Read(log[s.cur])
        next == IF rec.kind = "desc" THEN ScanDesc(s, rec) ELSE ScanCommit(s, rec)
    IN  IF rec.kind \notin {"desc", "commit"} \/ rec.seq # s.seq
        THEN [s EXCEPT !.end = "ok"]
        ELSE [next EXCEPT !.end = IF @ = "no" /\ next.cur = start THEN "ok" ELSE @]

-----------------------------------------------------------------------------
NoCursor == [head |-> 0, seq |-> 0]
NoOp     == [blks |-> <<>>, at |-> NoCursor, first |-> FALSE, sync |-> FALSE]
NoScan   == ScanStart([start |-> 0, seq |-> 0])

\* A volume just mounted: the journal is empty and clean.
Init ==
    /\ cfg \in Configs
    /\ jsb = <<[start |-> 0, seq |-> 1]>>
    /\ log = [i \in 1..Slots |-> <<Blank>>]
    /\ home = [b \in Blocks |-> <<<<b, 0>>>>]
    /\ pending = <<>> /\ taken = <<>> /\ cursor = NoCursor /\ used = 0
    /\ op = NoOp /\ pc = "idle" /\ hist = <<>> /\ scan = NoScan
    /\ faults = 0 /\ crashes = 0

Ended(st) == [hist EXCEPT ![Len(hist)].st = st]
Me == Len(hist)

-----------------------------------------------------------------------------
(* commit_metadata (sync: checkpoint at once) and commit_metadata_deferred. *)

Begin ==
    /\ pc = "idle" /\ Len(hist) < cfg.txns
    /\ \E p \in Payloads, sync \in BOOLEAN :
          /\ hist' = Append(hist, [blks |-> p, st |-> "open"])
          /\ op' = [NoOp EXCEPT !.blks = p, !.sync = sync]
    /\ pc' = "reserve"
    /\ UNCHANGED <<cfg, devVars, pending, taken, cursor, used, scan, faults, crashes>>

\* The commit returns an error: nothing of it is kept in memory.
Fail ==
    /\ hist' = Ended("err") /\ op' = NoOp /\ pc' = "idle"

OverLog ==
    /\ pc = "reserve" /\ TxnBlocks(op.blks) > Slots
    /\ Fail
    /\ UNCHANGED <<cfg, devVars, pending, taken, cursor, used, scan, faults, crashes>>

Occupied == IF pending = <<>> THEN 0 ELSE used

\* The log is full: checkpoint what is pending, then start over.
MakeRoom ==
    /\ pc = "reserve" /\ TxnBlocks(op.blks) <= Slots
    /\ TxnBlocks(op.blks) > Slots - Occupied /\ pending # <<>>
    /\ pc' = "take"
    /\ UNCHANGED <<cfg, devVars, memVars, hist, scan, faults, crashes>>

\* LogCursor::new
NewCursor(j) ==
    [head |-> IF j.start < 1 \/ j.start > Slots THEN 1 ELSE j.start, seq |-> j.seq]

Reserve ==
    /\ pc = "reserve" /\ TxnBlocks(op.blks) <= Slots - Occupied
    /\ op' = [op EXCEPT !.at = IF cursor = NoCursor THEN NewCursor(Read(jsb)) ELSE cursor,
                        !.first = pending = <<>>]
    /\ used' = Occupied
    /\ pc' = "body"
    /\ UNCHANGED <<cfg, devVars, pending, taken, cursor, hist, scan, faults, crashes>>

OpBody == Body(op.blks, Me, op.at.seq)

\* The body is posted as one request.
EmitBody ==
    /\ pc = "body"
    /\ log' = [i \in 1..Slots |->
                 LET off == (i - op.at.head) % Slots
                 IN  IF off < Len(OpBody) THEN Post(log[i], OpBody[off + 1]) ELSE log[i]]
    /\ pc' = "commit"
    /\ UNCHANGED <<cfg, jsb, home, memVars, hist, scan, faults, crashes>>

\* (Mutant: the commit record is posted before the body has completed.)
EmitCommitEarly ==
    /\ pc = "commit"
    /\ LET at == Advance(op.at.head, Len(OpBody))
       IN  log' = [log EXCEPT ![at] = Post(@, CommitOf(OpBody, op.at.seq))]
    /\ pc' = "publish"
    /\ UNCHANGED <<cfg, jsb, home, memVars, hist, scan, faults, crashes>>

\* The commit record is a request of its own; only journal_async_commit
\* posts it before the body has completed.
EmitCommit ==
    /\ pc = "commit"
    /\ LET at == Advance(op.at.head, Len(OpBody))
           body == IF cfg.async THEN log ELSE SettleAll(log)
       IN  log' = [body EXCEPT ![at] = Post(@, CommitOf(OpBody, op.at.seq))]
    /\ pc' = "publish"
    /\ UNCHANGED <<cfg, jsb, home, memVars, hist, scan, faults, crashes>>

Anchor == [start |-> op.at.head, seq |-> op.at.seq]

\* The first pending transaction is anchored by the superblock, written
\* with a preflush and FUA; a later one only flushes. nobarrier does neither.
Publish ==
    /\ pc = "publish"
    /\ IF cfg.barrier
       THEN /\ log' = FlushAll(log) /\ home' = FlushAll(home)
            /\ jsb' = IF op.first THEN <<Anchor>> ELSE Stable(jsb)
       ELSE /\ log' = SettleAll(log) /\ home' = home
            /\ jsb' = IF op.first THEN Write(jsb, Anchor) ELSE jsb
    /\ pc' = "record"
    /\ UNCHANGED <<cfg, memVars, hist, scan, faults, crashes>>

\* (Mutant: the sequence is not advanced.)
RecordSameSeq ==
    /\ pc = "record"
    /\ pending' = Append(pending, [seq |-> op.at.seq, k |-> Me, blks |-> op.blks])
    /\ cursor' = [head |-> Advance(op.at.head, TxnBlocks(op.blks)), seq |-> op.at.seq]
    /\ used' = used + TxnBlocks(op.blks)
    /\ hist' = Ended("ack")
    /\ op' = NoOp
    /\ pc' = IF op.sync THEN "take" ELSE "idle"
    /\ UNCHANGED <<cfg, devVars, taken, scan, faults, crashes>>

\* Hand the transaction to the checkpoint owner and return its sequence.
RecordPending ==
    /\ pc = "record"
    /\ pending' = Append(pending, [seq |-> op.at.seq, k |-> Me, blks |-> op.blks])
    /\ cursor' = [head |-> Advance(op.at.head, TxnBlocks(op.blks)), seq |-> op.at.seq + 1]
    /\ used' = used + TxnBlocks(op.blks)
    /\ hist' = Ended("ack")
    /\ op' = NoOp
    /\ pc' = IF op.sync THEN "take" ELSE "idle"
    /\ UNCHANGED <<cfg, devVars, taken, scan, faults, crashes>>

-----------------------------------------------------------------------------
(* checkpoint_pending: called by the periodic owner, by a synchronous      *)
(* commit, and by a commit that finds the log full.                        *)

\* (Mutant: the periodic owner waits for a second transaction.)
BackgroundLazy ==
    /\ pc = "idle"
    /\ pc' = IF Len(pending) < 2 THEN "idle" ELSE "take"
    /\ UNCHANGED <<cfg, devVars, memVars, hist, scan, faults, crashes>>

Background ==
    /\ pc = "idle"
    /\ pc' = IF pending = <<>> THEN "idle" ELSE "take"
    /\ UNCHANGED <<cfg, devVars, memVars, hist, scan, faults, crashes>>

Take ==
    /\ pc = "take"
    /\ taken' = pending /\ pending' = <<>>
    /\ pc' = "home"
    /\ UNCHANGED <<cfg, devVars, cursor, used, op, hist, scan, faults, crashes>>

\* coalesce_checkpoint_blocks: the newest image of each block.
Writers(b) == { i \in DOMAIN taken : \E j \in DOMAIN taken[i].blks : taken[i].blks[j] = b }
Newest(b) == CHOOSE i \in Writers(b) : \A j \in Writers(b) : j <= i

\* ensure_checkpoint_recorded: a clean superblock here is an error that would
\* come back on every pass, so the model stops.
WriteHome ==
    /\ pc = "home" /\ Read(jsb).start # 0
    /\ home' = [b \in Blocks |->
                  IF Writers(b) = {} THEN home[b] ELSE Post(home[b], <<b, taken[Newest(b)].k>>)]
    /\ pc' = "clean"
    /\ UNCHANGED <<cfg, jsb, log, memVars, hist, scan, faults, crashes>>

\* (Mutant: the clean marker skips a sequence number.)
MarkCleanSkips ==
    /\ pc = "clean"
    /\ home' = FlushAll(home) /\ log' = FlushAll(log)
    /\ jsb' = Write(Stable(jsb), [start |-> 0, seq |-> taken[Len(taken)].seq + 2])
    /\ pc' = "done"
    /\ UNCHANGED <<cfg, memVars, hist, scan, faults, crashes>>

\* The home blocks complete and are flushed before the clean marker, which
\* is an ordinary write.
MarkClean ==
    /\ pc = "clean"
    /\ home' = IF cfg.barrier THEN FlushAll(home) ELSE SettleAll(home)
    /\ log' = IF cfg.barrier THEN FlushAll(log) ELSE log
    /\ LET j == IF cfg.barrier THEN Stable(jsb) ELSE jsb
       IN  jsb' = Write(j, [start |-> 0, seq |-> taken[Len(taken)].seq + 1])
    /\ pc' = "done"
    /\ UNCHANGED <<cfg, memVars, hist, scan, faults, crashes>>

\* Back to the caller: a commit that wanted room reads everything again.
Retired ==
    /\ pc = "done"
    /\ taken' = <<>> /\ cursor' = NoCursor /\ used' = 0
    /\ pc' = IF op = NoOp THEN "idle" ELSE "reserve"
    /\ UNCHANGED <<cfg, devVars, pending, op, hist, scan, faults, crashes>>

\* The error return: the taken transactions go back in front.
Restore ==
    /\ pending' = taken \o pending /\ taken' = <<>>
    /\ IF op = NoOp THEN pc' = "idle" /\ UNCHANGED <<hist, op>> ELSE Fail

-----------------------------------------------------------------------------
(* The device refuses the request of this step; what came before it has    *)
(* completed.                                                              *)

Fault ==
    /\ faults < cfg.faults /\ faults' = faults + 1
    /\ \/ pc \in {"body", "commit", "publish"} /\ Fail /\ UNCHANGED <<pending, taken>>
       \/ pc \in {"home", "clean"} /\ Restore
    /\ log' = SettleAll(log) /\ home' = SettleAll(home) /\ jsb' = Settle(jsb)
    /\ UNCHANGED <<cfg, cursor, used, scan, crashes>>

-----------------------------------------------------------------------------
(* A power cut: every address keeps one of the values it may have.  The    *)
(* attempt in progress, if any, was not acknowledged.                      *)

Longest == 3   \* bound: values an address may hold between two flushes
Unsettled(f) == { i \in DOMAIN f : Len(f[i]) > 1 }
Picks(f) ==
    LET long == \E i \in DOMAIN f : Len(f[i]) = Longest
    IN  { g \in [Unsettled(f) -> 1..IF long THEN Longest ELSE 2] :
            \A i \in DOMAIN g : g[i] \in DOMAIN f[i] }

Survivors(f, pick) == [i \in DOMAIN f |-> IF i \in DOMAIN pick THEN <<f[i][pick[i]]>> ELSE f[i]]

PowerCut ==
    /\ pc # "down" /\ crashes < cfg.crashes /\ crashes' = crashes + 1
    /\ \E l \in Picks(log), h \in Picks(home), j \in DOMAIN jsb :
          /\ log' = Survivors(log, l) /\ home' = Survivors(home, h) /\ jsb' = <<jsb[j]>>
    /\ pending' = <<>> /\ taken' = <<>> /\ cursor' = NoCursor /\ used' = 0 /\ op' = NoOp
    /\ hist' = IF hist # <<>> /\ hist[Me].st = "open" THEN Ended("err") ELSE hist
    /\ scan' = NoScan /\ pc' = "down"
    /\ UNCHANGED <<cfg, faults>>

\* recover_journal of the next mount: replay has nothing to do in a clean
\* journal, scans a dirty one ...
Recover ==
    /\ pc = "down"
    /\ scan' = [ScanStart(Read(jsb)) EXCEPT !.end = IF Read(jsb).start = 0 THEN "ok" ELSE "no"]
    /\ pc' = "replay"
    /\ UNCHANGED <<cfg, devVars, memVars, hist, faults, crashes>>

Scan ==
    /\ pc = "replay" /\ scan.end = "no"
    /\ scan' = ScanStep(scan, Read(jsb).start)
    /\ UNCHANGED <<cfg, devVars, memVars, pc, hist, faults, crashes>>

\* ... writes each target in turn ...
WriteTarget ==
    /\ pc = "replay" /\ scan.end # "no" /\ scan.out # <<>>
    /\ LET w == Head(scan.out) IN home' = [home EXCEPT ![w[1]] = Write(@, w[2])]
    /\ scan' = [scan EXCEPT !.out = Tail(@)]
    /\ UNCHANGED <<cfg, jsb, log, memVars, pc, hist, faults, crashes>>

\* (Mutant: the journal is left dirty after replay.)
RecoveredDirty ==
    /\ pc = "replay" /\ scan.out = <<>> /\ scan.end = "ok"
    /\ scan' = NoScan /\ pc' = "idle"
    /\ UNCHANGED <<cfg, devVars, memVars, hist, faults, crashes>>

\* ... and marks the journal clean if it applied a transaction.
Recovered ==
    /\ pc = "replay" /\ scan.out = <<>> /\ scan.end = "ok"
    /\ jsb' = IF scan.txns = 0 THEN jsb
              ELSE Write(jsb, [start |-> 0, seq |-> Read(jsb).seq + scan.txns])
    /\ scan' = NoScan /\ pc' = "idle"
    /\ UNCHANGED <<cfg, log, home, memVars, hist, faults, crashes>>

\* A checksum that does not match fails the mount; another attempt to mount
\* starts over.
Refused ==
    /\ pc = "replay" /\ scan.out = <<>> /\ scan.end = "bad"
    /\ scan' = NoScan /\ pc' = "down"
    /\ UNCHANGED <<cfg, devVars, memVars, hist, faults, crashes>>

-----------------------------------------------------------------------------
Commit     == OverLog \/ MakeRoom \/ Reserve \/ EmitBody \/ EmitCommit \/ Publish \/ RecordPending
Checkpoint == Take \/ WriteHome \/ MarkClean \/ Retired
Mount      == Recover \/ Scan \/ WriteTarget \/ Recovered \/ Refused

Next == Begin \/ Background \/ Commit \/ Checkpoint \/ Mount \/ Fault \/ PowerCut

Spec == Init /\ [][Next]_vars

\* The gate's holder runs on, the timer keeps calling the periodic owner,
\* and a volume that went down is mounted again.
FairSpec == /\ Spec
            /\ WF_vars(Commit \/ Checkpoint) /\ WF_vars(Background) /\ WF_vars(Mount)

-----------------------------------------------------------------------------
Cursors == [head : 0..Slots, seq : 0..cfg.txns + 1]

\* Type invariant: every address holds at least one value, the journal's
\* bookkeeping is well formed, and no address holds more values between two
\* flushes than a power cut chooses from.
TypeOK ==
    /\ cfg \in Configs
    /\ Len(jsb) \in 1..Longest
    /\ \A i \in DOMAIN jsb : jsb[i].start \in 0..Slots /\ jsb[i].seq \in 1..cfg.txns + 1
    /\ \A i \in 1..Slots : Len(log[i]) \in 1..Longest
    /\ \A b \in Blocks : Len(home[b]) \in 1..Longest
    /\ \A i \in DOMAIN pending : pending[i].k \in DOMAIN hist /\ hist[pending[i].k].st = "ack"
    /\ cursor \in Cursors /\ used \in 0..Slots
    /\ pc \in {"idle", "reserve", "body", "commit", "publish", "record", "take", "home",
               "clean", "done", "down", "replay"}

Acked == { k \in DOMAIN hist : hist[k].st = "ack" }
Touches(k, b) == \E i \in DOMAIN hist[k].blks : hist[k].blks[i] = b

\* What the home blocks hold when exactly the attempts of S took effect, each
\* as a whole and in order.
Image(S, b) ==
    LET ks == { k \in S : Touches(k, b) }
    IN  <<b, IF ks = {} THEN 0 ELSE CHOOSE k \in ks : \A j \in ks : j <= k>>

\* The home blocks hold every acknowledged transaction and no part of any
\* other without the rest of it.
Whole ==
    \E S \in SUBSET DOMAIN hist :
        Acked \subseteq S /\ \A b \in Blocks : Read(home[b]) = Image(S, b)

\* Whenever the volume is mounted and nothing awaits a checkpoint, the home
\* blocks are whole, whatever power cuts came before, and whatever request the
\* device refused if the log carries checksums (commit_metadata_deferred,
\* checkpoint_pending, recover_journal).  Without checksums a refused flush
\* breaks it: the complete records it leaves in the log and a torn retry over
\* the same slots replay as one transaction.
CrashConsistent == pc = "idle" /\ pending = <<>> => Whole

\* recover_journal fails the mount.
MountFails == pc = "replay" /\ scan.end = "bad"

\* A mount that fails on the checksum of a data block has applied what the log
\* holds before it, and nothing of the transaction it found torn: the volume
\* is not mounted, but its home blocks are whole (replay applies a transaction
\* at its commit record).
RefusedWhole == MountFails /\ cfg.csum = "v3" /\ scan.out = <<>> => Whole

\* With V1 the one checksum is in the commit record.  A commit that waits for
\* its body (no journal_async_commit), on a device without a volatile cache
\* that has refused no request, never leaves a commit record over a torn body,
\* so an interrupted commit does not make the mount fail.  An asynchronous
\* commit does, and so does a torn retry after a refused request.
OrderedLogAccepted ==
    cfg.csum = "v1" /\ ~cfg.async /\ ~cfg.cache /\ faults = 0 => ~MountFails

\* The records of a pending transaction in the log, on the medium.
Logged(t, at) ==
    LET body == Body(t.blks, t.k, t.seq)
        recs == Append(body, CommitOf(body, t.seq))
    IN  \A i \in DOMAIN recs : log[Advance(at, i - 1)] = <<recs[i]>>

\* No home block is written before the journal could restore it: while a
\* checkpoint writes home, the superblock on the medium anchors the oldest
\* transaction of the pass and the log holds all of them whole, one after
\* the other (the write-ahead rule of commit_metadata_deferred and
\* checkpoint_staged).
WriteAhead ==
    pc \in {"home", "clean"} =>
        /\ jsb = <<[start |-> Read(jsb).start, seq |-> taken[1].seq]>>
        /\ \E at \in [DOMAIN taken -> 1..Slots] :
              /\ at[1] = Read(jsb).start
              /\ \A i \in DOMAIN taken : Logged(taken[i], at[i])
              /\ \A i \in DOMAIN taken \ {1} :
                    /\ at[i] = Advance(at[i - 1], TxnBlocks(taken[i - 1].blks))
                    /\ taken[i].seq = taken[i - 1].seq + 1

\* Every acknowledged transaction leaves the pending list: the periodic owner
\* retries a checkpoint the device refused (checkpoint_pending).
PendingDrains == pending # <<>> ~> pending = <<>> /\ taken = <<>>
=============================================================================
