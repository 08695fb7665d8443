---------------------------- MODULE ConvertCache ----------------------------
(***************************************************************************)
(* onyx_resolve_model (src/src/convert.cpp): server processes that start   *)
(* on one safetensors model share one converted file.  Each process looks  *)
(* at that file, compares its modification time with every source, loads   *)
(* it when it is fresh, and otherwise runs the converter into a file of    *)
(* its own and renames it into place.  Nothing locks: processes, edits of  *)
(* the sources and crashes interleave between any two file operations.     *)
(*                                                                         *)
(* A source is a file whose time the check reads: a weights shard, one of  *)
(* the metadata files, or the converter script.  A file is [ver, mtime,    *)
(* begun, whole]: the versions of the sources it was made from, its        *)
(* modification time, when its conversion began (history), and whether it  *)
(* has the GGUF magic and size.  A path holds a set of at most one file.   *)
(*                                                                         *)
(* The time of a source may turn out unreadable at any question; the file  *)
(* at cache_path is replaced, never deleted, so that its own can be read.  *)
(***************************************************************************)
EXTENDS Naturals, FiniteSetsExt

CONSTANTS Procs,    \* the processes that start on the model, one run each
          Sources,  \* the weights, the metadata files and the script
          Script,   \* the converter script, the first source asked for its time
          MaxEdits  \* bound: edits of the sources, all together

ASSUME ConvertAssumption == Script \in Sources

VARIABLES
  now,    \* the file system's clock, coarse: two events may share a tick
  ver,    \* source -> how often it was edited
  mtime,  \* source -> its modification time
  cache,  \* the file at cache_path
  tmp,    \* process -> the file at its own tmp_path
  part,   \* process -> whether its converter's own temporary file is there
  proc,   \* process -> its call of onyx_resolve_model, below
  loaded  \* process -> the file engine.load() opened

files == <<cache, tmp, part>>
sources == <<now, ver, mtime>>
vars == <<sources, files, proc, loaded>>

Zero == [s \in Sources |-> 0]

(***************************************************************************)
(* A call: where it is, the cache_time it read, the sources it has yet to  *)
(* compare or to read, what its converter has read and since when.  And as *)
(* history: the sources as the process started, the time of the file it    *)
(* found fresh or made; whether a usable file newer than every source was  *)
(* there at its start, nobody has edited a source or replaced the file     *)
(* since, and every time it asked for could be read (fresh); and whether   *)
(* it passed over the script without having read its time (blind).         *)
(***************************************************************************)
NotStarted == [pc |-> "idle", seen |-> 0, todo |-> {}, draft |-> Zero, begun |-> 0,
               start |-> [ver |-> Zero, mtime |-> Zero], judged |-> 0,
               fresh |-> FALSE, blind |-> FALSE]

\* A call that is over without a file.
Ended(how) == [NotStarted EXCEPT !.pc = how]

\* One that returns cache_path, having judged a file of that time.
Returns(p, time) ==
  [NotStarted EXCEPT !.pc = "load", !.start = proc[p].start, !.judged = time]

\* What a broken copy or another tool may have left at cache_path.
Junk == [ver |-> Zero, mtime |-> 0, begun |-> 0, whole |-> FALSE]

Init == /\ now = 1
        /\ ver = Zero
        /\ mtime = Zero
        /\ cache \in {{}, {Junk}}
        /\ tmp = [p \in Procs |-> {}]
        /\ part = [p \in Procs |-> FALSE]
        /\ proc = [p \in Procs |-> NotStarted]
        /\ loaded = [p \in Procs |-> {}]

-----------------------------------------------------------------------------

\* The time of an event, in this tick or in the next.
Tick == now' \in {now, now + 1}

\* fs::file_size(cache_path) >= 32 and has_gguf_magic(cache_path).
Usable == \E f \in cache : f.whole

\* Mutant: the two times are compared the wrong way round.
StaleSwapped(s, time) == time > mtime[s]

\* A source newer than the file makes it stale; one as old does not.
Stale(s, time) == mtime[s] > time

Moves(p, call) == proc' = [proc EXCEPT ![p] = call]

GoTo(p, where) == Moves(p, [proc[p] EXCEPT !.pc = where])

\* The same, without what was read so far.
Without(p, where, fresh) ==
  [NotStarted EXCEPT !.pc = where, !.start = proc[p].start, !.fresh = fresh]

Drops(p, where, fresh) == Moves(p, Without(p, where, fresh))

\* Once a source or the file changes, no process still finds what it found at its start.
Outdated(procs) == [q \in Procs |-> [procs[q] EXCEPT !.fresh = FALSE]]

\* The sources whose turn it is: the script, then the others as the directory lists them.
Due(p) == IF Script \in proc[p].todo THEN {Script} ELSE proc[p].todo

(***************************************************************************)
(* The lookup.  cache_time is read before size and magic, and the file may *)
(* be replaced at any point in between.                                    *)
(***************************************************************************)

\* main() calls onyx_resolve_model.
Start(p) ==
  /\ proc[p].pc = "idle"
  /\ Moves(p, [NotStarted EXCEPT
                 !.pc = "look", !.start = [ver |-> ver, mtime |-> mtime],
                 !.fresh = \E f \in cache : /\ f.whole
                                            /\ \A s \in Sources : mtime[s] < f.mtime])
  /\ UNCHANGED <<sources, files, loaded>>

\* fs::exists(cache_path) and the file's time.
Look(p) ==
  /\ proc[p].pc = "look"
  /\ \/ cache = {} /\ Drops(p, "convert", proc[p].fresh)
     \/ \E f \in cache : Moves(p, [proc[p] EXCEPT !.pc = "magic", !.seen = f.mtime])
  /\ UNCHANGED <<sources, files, loaded>>

\* Its size and magic.
Magic(p) ==
  /\ proc[p].pc = "magic"
  /\ IF Usable THEN Moves(p, [proc[p] EXCEPT !.pc = "compare", !.todo = Sources])
               ELSE Drops(p, "convert", proc[p].fresh)
  /\ UNCHANGED <<sources, files, loaded>>

\* A source is passed over; behind the last one the file is fresh.
Passed(p, s, blind) ==
  [(IF proc[p].todo = {s} THEN Returns(p, proc[p].seen)
    ELSE [proc[p] EXCEPT !.todo = @ \ {s}]) EXCEPT !.blind = blind]

\* One last_write_time().  If it fails, a source counts as newer, the script as older.
Compare(p) ==
  /\ proc[p].pc = "compare"
  /\ \E s \in Due(p) :
       \/ Stale(s, proc[p].seen) /\ Drops(p, "convert", proc[p].fresh)
       \/ ~Stale(s, proc[p].seen) /\ Moves(p, Passed(p, s, proc[p].blind))
       \/ s = Script /\ Moves(p, Passed(p, s, TRUE))
       \/ s # Script /\ Drops(p, "convert", FALSE)
  /\ UNCHANGED <<sources, files, loaded>>

(***************************************************************************)
(* The conversion.                                                         *)
(***************************************************************************)

\* create_directories and popen: one of them fails, or the converter starts.
Convert(p) ==
  /\ proc[p].pc = "convert"
  /\ \/ Moves(p, [proc[p] EXCEPT !.pc = "read", !.todo = Sources, !.begun = now])
     \/ Moves(p, Ended("failed"))
  /\ UNCHANGED <<sources, files, loaded>>

\* The converter reads one more source.  (An edit replaces a file: one made in place while
\* the weights are mapped would mix versions, within the window PickedUp excepts.)
Read(p) ==
  /\ proc[p].pc = "read"
  /\ \E s \in Due(p) :
       Moves(p, [proc[p] EXCEPT !.draft[s] = ver[s], !.todo = @ \ {s}])
  /\ UNCHANGED <<sources, files, loaded>>

\* tempfile.mkstemp(): it writes into a temporary file of its own.
Create(p) ==
  /\ proc[p].pc = "read" /\ proc[p].todo = {}
  /\ part' = [part EXCEPT ![p] = TRUE]
  /\ GoTo(p, "write")
  /\ UNCHANGED <<sources, cache, tmp, loaded>>

\* All is written, at that time, and os.replace() moves it to tmp_path, which only this
\* process looks at.
Write(p) ==
  /\ proc[p].pc = "write"
  /\ Tick
  /\ tmp' = [tmp EXCEPT ![p] = {[ver |-> proc[p].draft, mtime |-> now',
                                 begun |-> proc[p].begun, whole |-> TRUE]}]
  /\ part' = [part EXCEPT ![p] = FALSE]
  /\ Drops(p, "written", proc[p].fresh)
  /\ UNCHANGED <<ver, mtime, cache, loaded>>

\* Mutant: what the failed converter wrote stays.
ConverterFailsLeaves(p) ==
  /\ proc[p].pc \in {"read", "write", "written"}
  /\ part' = [part EXCEPT ![p] = FALSE]
  /\ Moves(p, Ended("failed"))
  /\ UNCHANGED <<sources, cache, tmp, loaded>>

\* An exit code other than 0, before or after the output is there.  The converter removes
\* its own temporary file, the process tmp_path.
ConverterFails(p) ==
  /\ proc[p].pc \in {"read", "write", "written"}
  /\ part' = [part EXCEPT ![p] = FALSE]
  /\ tmp' = [tmp EXCEPT ![p] = {}]
  /\ Moves(p, Ended("failed"))
  /\ UNCHANGED <<sources, cache, loaded>>

\* The converter alone is killed while it writes: its own file stays.  (At any other time
\* that is an exit code other than 0.)
ConverterKilled(p) ==
  /\ proc[p].pc = "write"
  /\ tmp' = [tmp EXCEPT ![p] = {}]
  /\ Moves(p, Ended("killed"))
  /\ UNCHANGED <<sources, cache, part, loaded>>

\* Exit code 0, and rename() / MoveFileExW puts the file into place, whatever is there.
Rename(p) ==
  /\ proc[p].pc = "written"
  /\ cache' = tmp[p]
  /\ tmp' = [tmp EXCEPT ![p] = {}]
  /\ \E f \in tmp[p] :
       proc' = Outdated([proc EXCEPT ![p] = Returns(p, f.mtime)])
  /\ UNCHANGED <<sources, part, loaded>>

\* It fails, as it does on Windows while another process has the target mapped.
RenameFails(p) ==
  /\ proc[p].pc = "written"
  /\ GoTo(p, "vmagic")
  /\ UNCHANGED <<sources, files, loaded>>

(***************************************************************************)
(* other_fresh: may the file that is there serve after all?  The same      *)
(* questions, the time asked after the magic; every answer removes tmp.    *)
(***************************************************************************)

\* Mutant: any conversion that is there will do.
VerifyMagicTrusts(p) ==
  /\ proc[p].pc = "vmagic"
  /\ tmp' = [tmp EXCEPT ![p] = {}]
  /\ Moves(p, IF Usable THEN Returns(p, (CHOOSE f \in cache : TRUE).mtime)
                        ELSE Ended("failed"))
  /\ UNCHANGED <<sources, cache, part, loaded>>

VerifyMagic(p) ==
  /\ proc[p].pc = "vmagic"
  /\ IF Usable THEN GoTo(p, "vlook") /\ UNCHANGED tmp
               ELSE Moves(p, Ended("failed")) /\ tmp' = [tmp EXCEPT ![p] = {}]
  /\ UNCHANGED <<sources, cache, part, loaded>>

VerifyLook(p) ==
  /\ proc[p].pc = "vlook"
  /\ \E f \in cache :
       Moves(p, [proc[p] EXCEPT !.pc = "vcompare", !.seen = f.mtime, !.todo = Sources])
  /\ UNCHANGED <<sources, files, loaded>>

\* Here a time that cannot be read counts as newer, the script's as well.
VerifyCompare(p) ==
  /\ proc[p].pc = "vcompare"
  /\ \E s \in Due(p) :
       \/ /\ proc[p].todo # {s} /\ ~Stale(s, proc[p].seen)
          /\ Moves(p, [proc[p] EXCEPT !.todo = @ \ {s}])
          /\ UNCHANGED tmp
       \/ /\ proc[p].todo = {s} /\ ~Stale(s, proc[p].seen)
          /\ Moves(p, Returns(p, proc[p].seen))
          /\ tmp' = [tmp EXCEPT ![p] = {}]
       \/ /\ Moves(p, Ended("failed"))
          /\ tmp' = [tmp EXCEPT ![p] = {}]
  /\ UNCHANGED <<sources, cache, part, loaded>>

\* engine.load() opens whatever is at the path by now.
Load(p) ==
  /\ proc[p].pc = "load"
  /\ loaded' = [loaded EXCEPT ![p] = cache]
  /\ GoTo(p, "loaded")
  /\ UNCHANGED <<sources, files>>

-----------------------------------------------------------------------------

\* The process is killed, and its converter: the temporary files stay.
Crash(p) ==
  /\ proc[p].pc \notin {"idle", "loaded", "failed", "killed", "crashed"}
  /\ Moves(p, Ended("crashed"))
  /\ UNCHANGED <<sources, files, loaded>>

\* Somebody edits a source, which stamps it with the time.
Edit(s) ==
  /\ MapThenSumSet(LAMBDA z : ver[z], Sources) < MaxEdits
  /\ Tick
  /\ ver' = [ver EXCEPT ![s] = @ + 1]
  /\ mtime' = [mtime EXCEPT ![s] = now']
  /\ proc' = Outdated(proc)
  /\ UNCHANGED <<files, loaded>>

Step(p) == \/ Start(p) \/ Look(p) \/ Magic(p) \/ Compare(p)
           \/ Convert(p) \/ Read(p) \/ Create(p) \/ Write(p)
           \/ ConverterFails(p) \/ ConverterKilled(p)
           \/ Rename(p) \/ RenameFails(p)
           \/ VerifyMagic(p) \/ VerifyLook(p) \/ VerifyCompare(p)
           \/ Load(p)

Next == \/ \E p \in Procs : Step(p) \/ Crash(p)
        \/ \E s \in Sources : Edit(s)

Spec == Init /\ [][Next]_vars

-----------------------------------------------------------------------------

Loaded == {p \in Procs : loaded[p] # {}}

(***************************************************************************)
(* A process that loads the file it found fresh (or made) loads a whole    *)
(* conversion, and one that has every edit made before the process         *)
(* started, except: those made between the start of that file's conversion *)
(* and the end of the tick of its last byte, which the file's time does    *)
(* not tell apart; and those of a script whose time could not be read.     *)
(* The check compares times file by file while others edit and rename;     *)
(* what it must not do is pass over a source, or trust the file another    *)
(* process put there without asking the same questions.                    *)
(***************************************************************************)
PickedUp ==
  \A p \in Loaded : \A f \in loaded[p] :
    /\ f.whole
    /\ f.mtime = proc[p].judged =>
         \A s \in Sources :
           \/ f.ver[s] >= proc[p].start.ver[s]
           \/ f.begun <= proc[p].start.mtime[s] /\ proc[p].start.mtime[s] <= f.mtime
           \/ s = Script /\ proc[p].blind

(***************************************************************************)
(* A conversion takes minutes: no process runs one while a usable file     *)
(* newer than every source was there when it started, nobody has edited a  *)
(* source or replaced the file since, and no time was unreadable.  (Of a   *)
(* file as old as a source it says nothing: the code reuses it, whereas    *)
(* docs/architecture/safetensors-conversion.md asks for a newer one.)      *)
(***************************************************************************)
ConvertsOnlyIfStale ==
  \A p \in Procs : proc[p].pc \in {"convert", "read", "write"} => ~proc[p].fresh

(***************************************************************************)
(* However it ends, short of being killed, a process leaves no temporary   *)
(* file behind: not when the converter fails after it wrote its output,    *)
(* not when the rename fails and another process's file serves.  If only   *)
(* the converter is killed, the converter's own file is left, but not      *)
(* tmp_path.                                                               *)
(***************************************************************************)
NoLitter ==
  \A p \in Procs :
    /\ proc[p].pc \in {"load", "loaded", "failed", "killed"} => tmp[p] = {}
    /\ proc[p].pc \in {"load", "loaded", "failed"} => ~part[p]
=============================================================================
