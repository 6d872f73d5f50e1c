----------------------------- MODULE IPXReplay ------------------------------
(***************************************************************************)
(* From captured traffic to canonical evidence: the mitmproxy addon        *)
(* appends framed exchange records to a spool file                         *)
(* (tools/ipx/mitmproxy-addon.py), and REPLAY-IPX-HTTP-SPOOL               *)
(* (source/hackmode-core/capture-replay.lisp) turns frames into records of *)
(* the operation graph through the replay-safe persistence of              *)
(* source/hackmode-database.                                               *)
(*                                                                         *)
(* The proxy and any number of replays run at the same time; the proxy may *)
(* die in the middle of a record, the Hackmode process between any two     *)
(* persists.  A record takes two cells of the spool, the second of which   *)
(* holds the newline; byte offsets become cell offsets.  One operation,    *)
(* one capture session, one source and one path name are modelled.         *)
(***************************************************************************)
EXTENDS Integers, Sequences, FiniteSets

CONSTANTS Flows,       \* HTTP flows, one exchange_id each
          Undecodable, \* flows whose records IPX-DECODE-HTTP-EXCHANGE refuses
          Firings,     \* bound: how often the response hook fires for a flow
          Replays,     \* threads that may run REPLAY-IPX-HTTP-SPOOL
          MaxFiles,    \* bound: files that stand at the path, one by one
          MaxCrashes   \* bound: crashes of the Hackmode process

ASSUME IPXAssumption ==
    /\ Undecodable \subseteq Flows
    /\ Firings \in Nat
    /\ MaxFiles \in Nat \ {0}
    /\ MaxCrashes \in Nat

VARIABLES files,       \* the contents of the files that stood at the path
          current,     \* the file that stands there now
          fired,       \* flow -> times its response hook fired
          writer,      \* the proxy's progress through one record
          exchanges,   \* the :HTTP-EXCHANGE records, by exchange_id
          quarantines, \* the :CAPTURE-QUARANTINE records, by offset
          checkpoints, \* the :CAPTURE-CHECKPOINT records, by offset
          replay,      \* replay -> its progress
          crashes

capture == <<files, current, fired, writer>>
graph == <<exchanges, quarantines, checkpoints>>
replayVars == <<capture, graph, replay, crashes>>

-----------------------------------------------------------------------------
(* Frames.  A frame is what stands between two newlines: the cells of      *)
(* [start, end), whoever wrote them.                                       *)

Cell == [flow: Flows, newline: BOOLEAN]

Spool == files[current]

Prefix(content, offset) == SubSeq(content, 1, offset)

\* The offsets after POS at which a frame ends.
Ends(content, pos) == {j \in (pos + 1)..Len(content) : content[j].newline}

\* IPX-READ-FRAME: where the frame that starts at POS ends, or the end of file.
FrameEnd(content, pos) ==
    IF Ends(content, pos) = {} THEN Len(content)
    ELSE CHOOSE j \in Ends(content, pos) : \A k \in Ends(content, pos) : j <= k

\* The complete frames of a spool, as <<start, end>>.
Frames(content) ==
    {f \in ({0} \cup Ends(content, 0)) \X Ends(content, 0) :
        f[1] < f[2] /\ FrameEnd(content, f[1]) = f[2]}

RecordOf(x) == <<[flow |-> x, newline |-> FALSE], [flow |-> x, newline |-> TRUE]>>

\* Mutant of Decodes: the frame is judged by its last cell alone.
DecodesLastCell(content, start, end, x) == content[end] = RecordOf(x)[2] /\ x \notin Undecodable

\* IPX-DECODE-HTTP-EXCHANGE: the frame is one whole valid record.
Decodes(content, start, end, x) ==
    SubSeq(content, start + 1, end) = RecordOf(x) /\ x \notin Undecodable

-----------------------------------------------------------------------------
(* The records of the operation graph and the progress of a replay.        *)

Exchange == [flow: Flows, start: Nat, end: Nat]

Quarantine == [offset: Nat, end: Nat, reason: {"truncated", "malformed"}]

\* LAST stands for :LAST-RECORD-ID, PREFIX for the fingerprint of the
\* consumed prefix, which differs exactly when the prefix does.
Checkpoint == [offset: Nat, last: Flows \cup {"quarantine", "nil"}, prefix: Seq(Cell)]

\* Where a replay is, the file it reads, the frame it is at.
Progress ==
    [pc: {"idle", "verify", "open", "read", "truncated", "malformed", "put truncated",
          "put malformed", "exchange", "checkpoint", "hung"},
     from: Nat, file: 0..MaxFiles, pos: Nat, end: Nat, last: Flows \cup {"quarantine", "nil"}]

IdleReplay == [pc |-> "idle", from |-> 0, file |-> 0, pos |-> 0, end |-> 0, last |-> "nil"]

\* Mutant of LatestOffset: no checkpoint is taken for an offset.
LatestOffsetUnchecked ==
    IF checkpoints = {} THEN -1
    ELSE CHOOSE n \in {c.offset : c \in checkpoints} : \A c \in checkpoints : c.offset <= n

\* FETCH-LATEST-CAPTURE-CHECKPOINT: the offset to start from, 0 without one.
LatestOffset ==
    IF checkpoints = {} THEN 0
    ELSE CHOOSE n \in {c.offset : c \in checkpoints} : \A c \in checkpoints : c.offset <= n

ReplayTypeOK ==
    /\ files \in Seq(Seq(Cell)) /\ Len(files) = MaxFiles
    /\ current \in 1..MaxFiles
    /\ fired \in [Flows -> 0..Firings]
    /\ writer \in [pc: {"idle"}, flow: {"nil"}, file: {0}]
                  \cup [pc: {"writing"}, flow: Flows, file: 1..MaxFiles]
    /\ exchanges \subseteq Exchange
    /\ quarantines \subseteq Quarantine
    /\ checkpoints \subseteq Checkpoint
    /\ replay \in [Replays -> Progress]
    /\ crashes \in 0..MaxCrashes

ReplayInit ==
    /\ files = [i \in 1..MaxFiles |-> <<>>]
    /\ current = 1
    /\ fired = [x \in Flows |-> 0]
    /\ writer = [pc |-> "idle", flow |-> "nil", file |-> 0]
    /\ exchanges = {}
    /\ quarantines = {}
    /\ checkpoints = {}
    /\ replay = [r \in Replays |-> IdleReplay]
    /\ crashes = 0

-----------------------------------------------------------------------------
(* The proxy: IPXSpoolAddon.response opens the path for append and writes  *)
(* one record, which a reader may see in parts.                            *)

Append2(file, cell) == files' = [files EXCEPT ![file] = Append(@, cell)]

WriteHead(x) ==
    /\ writer.pc = "idle"
    /\ fired[x] < Firings
    /\ fired' = [fired EXCEPT ![x] = @ + 1]
    /\ Append2(current, RecordOf(x)[1])
    /\ writer' = [pc |-> "writing", flow |-> x, file |-> current]
    /\ UNCHANGED <<current, graph, replay, crashes>>

WriteTail ==
    /\ writer.pc = "writing"
    /\ Append2(writer.file, RecordOf(writer.flow)[2])
    /\ writer' = [pc |-> "idle", flow |-> "nil", file |-> 0]
    /\ UNCHANGED <<current, fired, graph, replay, crashes>>

\* The proxy dies, or its one WRITE call was short: the rest never comes.
LoseTail ==
    /\ writer.pc = "writing"
    /\ writer' = [pc |-> "idle", flow |-> "nil", file |-> 0]
    /\ UNCHANGED <<files, current, fired, graph, replay, crashes>>

\* Another file takes the place of the spool, between replays.
ReplaceSpool ==
    /\ current < MaxFiles
    /\ \A r \in Replays : replay[r].pc = "idle"
    /\ current' = current + 1
    /\ UNCHANGED <<files, fired, writer, graph, replay, crashes>>

-----------------------------------------------------------------------------
(* REPLAY-IPX-HTTP-SPOOL.  An error that escapes ends the replay.          *)

ReplayBecomes(r, progress) == replay' = [replay EXCEPT ![r] = progress]

\* The latest checkpoint is fetched.
Begin(r) ==
    /\ replay[r].pc = "idle"
    /\ ReplayBecomes(r, [IdleReplay EXCEPT !.from = LatestOffset,
                             !.pc = IF LatestOffset > 0 THEN "verify" ELSE "open"])
    /\ UNCHANGED <<capture, graph, crashes>>

\* The spool is long enough and its prefix is the one that was consumed.
Fingerprints(offset) ==
    /\ Len(Spool) >= offset
    /\ \E c \in checkpoints : c.offset = offset /\ c.prefix = Prefix(Spool, offset)

Verify(r) ==
    /\ replay[r].pc = "verify"
    /\ ReplayBecomes(r, IF Fingerprints(replay[r].from)
                        THEN [replay[r] EXCEPT !.pc = "open"] ELSE IdleReplay)
    /\ UNCHANGED <<capture, graph, crashes>>

Open(r) ==
    /\ replay[r].pc = "open"
    /\ ReplayBecomes(r, [replay[r] EXCEPT !.pc = "read", !.file = current, !.pos = replay[r].from])
    /\ UNCHANGED <<capture, graph, crashes>>

\* One frame is read and classified; the end of the file ends the replay.
ReadFrame(r) ==
    LET content == files[replay[r].file]
        start   == replay[r].pos
        end     == FrameEnd(content, start)
        Goes(pc, last) == ReplayBecomes(r, [replay[r] EXCEPT !.pc = pc, !.end = end, !.last = last])
    IN  /\ replay[r].pc = "read"
        /\ \/ start = Len(content) /\ ReplayBecomes(r, IdleReplay)
           \/ start < Len(content) /\ ~content[end].newline /\ Goes("truncated", "nil")
           \/ start < Len(content) /\ content[end].newline
              /\ \/ \E x \in Flows : Decodes(content, start, end, x) /\ Goes("exchange", x)
                 \/ (\A x \in Flows : ~Decodes(content, start, end, x)) /\ Goes("malformed", "nil")
        /\ UNCHANGED <<capture, graph, crashes>>

\* Mutant of FindQuarantine: nobody looks whether there is a quarantine.
FindQuarantineNever(r) ==
    /\ replay[r].pc \in {"truncated", "malformed"}
    /\ ReplayBecomes(r, [replay[r] EXCEPT !.pc = IF replay[r].pc = "truncated"
                                                THEN "put truncated" ELSE "put malformed"])
    /\ UNCHANGED <<capture, graph, crashes>>

\* Mutant of FindQuarantine: a malformed frame is passed without a quarantine.
FindQuarantineSkips(r) ==
    /\ replay[r].pc \in {"truncated", "malformed"}
    /\ ReplayBecomes(r, IF replay[r].pc = "truncated" THEN IdleReplay
                        ELSE [replay[r] EXCEPT !.pc = "checkpoint"])
    /\ UNCHANGED <<capture, graph, crashes>>

\* IPX-QUARANTINE-AT-OFFSET-P: a frame that has a quarantine gets no other.
FindQuarantine(r) ==
    /\ replay[r].pc \in {"truncated", "malformed"}
    /\ ReplayBecomes(r,
         IF \A q \in quarantines : q.offset # replay[r].pos
         THEN [replay[r] EXCEPT !.pc = IF replay[r].pc = "truncated" THEN "put truncated"
                                                                     ELSE "put malformed"]
         ELSE IF replay[r].pc = "truncated" THEN IdleReplay
                                            ELSE [replay[r] EXCEPT !.pc = "checkpoint"])
    /\ UNCHANGED <<capture, graph, crashes>>

\* The quarantine is persisted; another one at the offset is a conflict.  The
\* replay ends after a truncated frame, and on a conflict.
PutQuarantine(r) ==
    LET record == [offset |-> replay[r].pos, end |-> replay[r].end,
                   reason |-> IF replay[r].pc = "put truncated" THEN "truncated" ELSE "malformed"]
        conflict == \E q \in quarantines : q.offset = record.offset /\ q # record
    IN  /\ replay[r].pc \in {"put truncated", "put malformed"}
        /\ quarantines' = IF conflict THEN quarantines ELSE quarantines \cup {record}
        /\ ReplayBecomes(r, IF conflict \/ replay[r].pc = "put truncated" THEN IdleReplay
                            ELSE [replay[r] EXCEPT !.pc = "checkpoint", !.last = "quarantine"])
        /\ UNCHANGED <<capture, exchanges, checkpoints, crashes>>

\* The exchange is persisted unless its exchange_id stands for another record.
PutExchange(r) ==
    LET record == [flow |-> replay[r].last, start |-> replay[r].pos, end |-> replay[r].end]
        conflict == \E e \in exchanges : e.flow = record.flow /\ e # record
    IN  /\ replay[r].pc = "exchange"
        /\ exchanges' = IF conflict THEN exchanges ELSE exchanges \cup {record}
        /\ ReplayBecomes(r, IF conflict THEN IdleReplay ELSE [replay[r] EXCEPT !.pc = "checkpoint"])
        /\ UNCHANGED <<capture, quarantines, checkpoints, crashes>>

\* IPX-PERSIST-CHECKPOINT: the prefix is read again by path, and the checkpoint
\* persisted.  Reading past the end of a shorter file never ends.
PutCheckpoint(r) ==
    LET end == replay[r].end
        record == [offset |-> end, last |-> replay[r].last, prefix |-> Prefix(Spool, end)]
        conflict == \E c \in checkpoints : c.offset = end /\ c # record
    IN  /\ replay[r].pc = "checkpoint"
        /\ IF Len(Spool) < end
           THEN /\ ReplayBecomes(r, [replay[r] EXCEPT !.pc = "hung"])
                /\ UNCHANGED checkpoints
           ELSE /\ checkpoints' = IF conflict THEN checkpoints ELSE checkpoints \cup {record}
                /\ ReplayBecomes(r, IF conflict THEN IdleReplay
                                    ELSE [replay[r] EXCEPT !.pc = "read", !.pos = end])
        /\ UNCHANGED <<capture, exchanges, quarantines, crashes>>

\* The Hackmode process dies; the graph database and the spool stay.
Crash ==
    /\ crashes < MaxCrashes
    /\ crashes' = crashes + 1
    /\ replay' = [r \in Replays |-> IdleReplay]
    /\ UNCHANGED <<capture, graph>>

ReplayStep(r) ==
    \/ Begin(r) \/ Verify(r) \/ Open(r) \/ ReadFrame(r)
    \/ FindQuarantine(r) \/ PutQuarantine(r) \/ PutExchange(r) \/ PutCheckpoint(r)

ReplayNext ==
    \/ \E x \in Flows : WriteHead(x)
    \/ WriteTail \/ LoseTail \/ ReplaceSpool
    \/ \E r \in Replays : ReplayStep(r)
    \/ Crash

ReplaySpec == ReplayInit /\ [][ReplayNext]_replayVars

\* A replay is run again and again, each to its end.
FairSpec == ReplaySpec /\ \A r \in Replays : WF_replayVars(ReplayStep(r))

-----------------------------------------------------------------------------
(* Properties. *)

\* A recorded exchange is one whole record of its flow, at its offsets, in a
\* file that stood at the path: never a merge of two writes, never bytes taken
\* at a stale offset of another file.
ExchangesAreFrames ==
    \A e \in exchanges :
        \E i \in 1..current : <<e.start, e.end>> \in Frames(files[i])
                              /\ SubSeq(files[i], e.start + 1, e.end) = RecordOf(e.flow)

\* The spool at the path begins with the prefix CHECKPOINT was taken of.
StandsForSpool(checkpoint) ==
    checkpoint.offset <= Len(Spool) /\ checkpoint.prefix = Prefix(Spool, checkpoint.offset)

\* The frames that a checkpoint of this spool has passed.
PassedFrames ==
    {f \in Frames(Spool) : \E c \in checkpoints : StandsForSpool(c) /\ f[2] <= c.offset}

\* The frame is one whole valid record.
Decodable(content, frame) == \E x \in Flows : Decodes(content, frame[1], frame[2], x)

\* capture-replay.lisp:249-275: what a checkpoint has passed is not lost: each
\* valid record below it is an exchange of the graph, whatever was quarantined
\* while it was half written, and any other frame has a quarantine where it starts.
Accounted ==
    \A f \in PassedFrames :
        IF Decodable(Spool, f)
        THEN \E e \in exchanges : e.start = f[1] /\ e.end = f[2]
                                  /\ Decodes(Spool, f[1], f[2], e.flow)
        ELSE \E q \in quarantines : q.offset = f[1]

\* Every complete frame is consumed, unless the spool is replaced.
EveryFrameConsumed ==
    \A n \in 1..(2 * Firings * Cardinality(Flows)) :
        (current = 1 /\ n \in Ends(files[1], 0)) ~> (LatestOffset >= n \/ current # 1)
=============================================================================
