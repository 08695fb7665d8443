------------------------ MODULE ConvertCache_proofs ------------------------
(***************************************************************************)
(* Proofs about ConvertCache, for any number of processes, sources and     *)
(* edits.  Inv says what a file can be relied on for: a conversion has     *)
(* everything that was edited before it began (Covers), of the sources as  *)
(* they are and as any process found them at its start; and what each      *)
(* process knows at each place of its call.                                *)
(***************************************************************************)
EXTENDS ConvertCache, TLAPS

Versions == [Sources -> Nat]
File == [ver : Versions, mtime : Nat, begun : Nat, whole : BOOLEAN]
Places == {"idle", "look", "magic", "compare", "convert", "read", "write", "written", "vmagic",
           "vlook", "vcompare", "load", "loaded", "failed", "killed", "crashed"}
Call == [pc : Places, seen : Nat, todo : SUBSET Sources, draft : Versions, begun : Nat,
         start : [ver : Versions, mtime : Versions], judged : Nat, fresh : BOOLEAN,
         blind : BOOLEAN]

TypeOK ==
  /\ now \in Nat
  /\ ver \in Versions
  /\ mtime \in Versions
  /\ cache \in SUBSET File
  /\ tmp \in [Procs -> SUBSET File]
  /\ part \in [Procs -> BOOLEAN]
  /\ proc \in [Procs -> Call]
  /\ loaded \in [Procs -> SUBSET File]

\* Made of v since begun: every source is as new as the snapshot, or was edited since.
Covers(v, begun, snap) ==
  \A s \in Sources : snap.ver[s] <= v[s] \/ begun <= snap.mtime[s]

Present == [ver |-> ver, mtime |-> mtime]

\* A conversion, and how it relates to every snapshot of the sources.
Sound(f) ==
  /\ f.whole
  /\ f.begun <= f.mtime /\ f.mtime <= now
  /\ Covers(f.ver, f.begun, Present)
  /\ \A q \in Procs : Covers(f.ver, f.begun, proc[q].start)

\* The clock is past every edit, and a path holds at most one file.
Sane ==
  /\ \A s \in Sources : mtime[s] <= now
  /\ \A f, g \in cache : f = g
  /\ \A f \in cache : f.whole => Sound(f)

\* What was compared is not newer than the file.
Older(snap, done, time) == \A s \in done : snap.mtime[s] <= time

\* The sources a process started with are not newer than they are.
Started(p) ==
  \A s \in Sources : /\ proc[p].start.ver[s] <= ver[s]
                     /\ proc[p].start.mtime[s] <= mtime[s]

\* The sources whose time was read if all of these were passed over.
Judged(p, done) == IF proc[p].blind THEN done \ {Script} ELSE done

\* The check: each source passed over was older than the file, as the process started, but
\* for a script whose time could not be read.
Checked(p) ==
  /\ proc[p].pc = "compare" =>
       Older(proc[p].start, Judged(p, Sources \ proc[p].todo), proc[p].seen)
  /\ proc[p].pc = "vcompare" => Older(proc[p].start, Sources \ proc[p].todo, proc[p].seen)
  /\ proc[p].pc = "load" => Older(proc[p].start, Judged(p, Sources), proc[p].judged)

\* Once it saw the magic there is a whole file, though it may be another one.
There(p) ==
  proc[p].pc \in {"compare", "vlook", "vcompare", "load"} => Usable

\* The sources its converter has read so far.
Drafted(p) ==
  proc[p].pc \in {"read", "write"} =>
    /\ proc[p].pc = "write" => proc[p].todo = {}
    /\ proc[p].begun <= now
    /\ Older(proc[p].start, Sources, proc[p].begun)
    /\ \A s \in Sources \ proc[p].todo :
         /\ ver[s] <= proc[p].draft[s] \/ proc[p].begun <= mtime[s]
         /\ \A q \in Procs : \/ proc[q].start.ver[s] <= proc[p].draft[s]
                             \/ proc[p].begun <= proc[q].start.mtime[s]

\* What its converter wrote.
Wrote(p) ==
  proc[p].pc = "written" =>
    \E f \in File : /\ tmp[p] = {f} /\ Sound(f)
                    /\ Older(proc[p].start, Sources, f.mtime)

\* A temporary file only between the write and the rename, one of the converter's own only
\* while it writes, or after a kill.
Tidy(p) ==
  /\ proc[p].pc \notin {"written", "vmagic", "vlook", "vcompare", "crashed"} => tmp[p] = {}
  /\ proc[p].pc \notin {"write", "killed", "crashed"} => ~part[p]

\* What a process found fresh is what it is looking at.
Found(p) ==
  proc[p].fresh =>
    /\ proc[p].pc \in {"look", "magic", "compare"}
    /\ \E f \in cache : /\ f.whole /\ \A s \in Sources : mtime[s] < f.mtime
                        /\ proc[p].pc \in {"magic", "compare"} => proc[p].seen = f.mtime

\* What it loaded.
Opened(p) ==
  loaded[p] # {} =>
    /\ proc[p].pc = "loaded"
    /\ \A f \in loaded[p] :
         /\ f.whole
         /\ f.mtime = proc[p].judged =>
              \A s \in Sources :
                \/ f.ver[s] >= proc[p].start.ver[s]
                \/ f.begun <= proc[p].start.mtime[s] /\ proc[p].start.mtime[s] <= f.mtime
                \/ s = Script /\ proc[p].blind

Local(p) ==
  Started(p) /\ Checked(p) /\ There(p) /\ Drafted(p) /\ Wrote(p) /\ Tidy(p) /\ Found(p) /\ Opened(p)

Inv == TypeOK /\ Sane /\ \A p \in Procs : Local(p)

-----------------------------------------------------------------------------

Blank == [ver |-> Zero, mtime |-> Zero]

\* Records and versions as the calls build them.
LEMMA CallTypes ==
  ASSUME TypeOK, NEW p \in Procs
  PROVE  /\ Zero \in Versions /\ NotStarted \in Call /\ NotStarted.start = Blank
         /\ Present \in [ver : Versions, mtime : Versions]
         /\ proc[p] \in Call
<1>1. Zero \in Versions
  BY DEF Zero, Versions
<1>2. NotStarted \in Call /\ NotStarted.start = Blank
  BY <1>1 DEF NotStarted, Call, Places, Blank
<1>. QED BY <1>1, <1>2 DEF TypeOK, Present

\* A call that ends without a file, or with one, and one that goes on elsewhere.
LEMMA Ways ==
  ASSUME TypeOK, NEW p \in Procs
  PROVE  /\ \A how \in Places :
              /\ Ended(how) \in Call
              /\ Ended(how).pc = how /\ Ended(how).start = Blank /\ ~Ended(how).fresh
         /\ \A time \in Nat :
              /\ Returns(p, time) \in Call
              /\ Returns(p, time).pc = "load" /\ Returns(p, time).start = proc[p].start
              /\ Returns(p, time).judged = time /\ ~Returns(p, time).fresh
              /\ ~Returns(p, time).blind
         /\ \A where \in Places :
              LET call == [proc[p] EXCEPT !.pc = where] IN
                /\ call \in Call
                /\ call.pc = where /\ call.start = proc[p].start /\ call.fresh = proc[p].fresh
                /\ call.begun = proc[p].begun /\ call.draft = proc[p].draft
                /\ call.judged = proc[p].judged /\ call.todo = proc[p].todo
                /\ call.seen = proc[p].seen
<1>. USE CallTypes
<1>1. ASSUME NEW how \in Places
      PROVE  /\ Ended(how) \in Call
             /\ Ended(how).pc = how /\ Ended(how).start = Blank /\ ~Ended(how).fresh
  BY DEF Ended, Call, NotStarted, Blank
<1>2. ASSUME NEW time \in Nat
      PROVE  /\ Returns(p, time) \in Call
             /\ Returns(p, time).pc = "load" /\ Returns(p, time).start = proc[p].start
             /\ Returns(p, time).judged = time /\ ~Returns(p, time).fresh
             /\ ~Returns(p, time).blind
  BY DEF Returns, Call, NotStarted, Places
<1>. QED BY <1>1, <1>2 DEF Call

\* One that goes on elsewhere without what it has read.
LEMMA WithoutWays ==
  ASSUME TypeOK, NEW p \in Procs, NEW where \in Places, NEW fresh \in BOOLEAN
  PROVE  /\ Without(p, where, fresh) \in Call
         /\ Without(p, where, fresh).pc = where
         /\ Without(p, where, fresh).start = proc[p].start
         /\ Without(p, where, fresh).fresh = fresh
<1>1. NotStarted \in Call /\ proc[p].start \in [ver : Versions, mtime : Versions]
  BY CallTypes DEF Call
<1>2. Without(p, where, fresh) \in Call
  BY <1>1 DEF Without, Call
<1>. QED BY <1>1, <1>2 DEF Without, Call

\* A step of a process moves its call, and no other.
LEMMA OneMoves ==
  ASSUME TypeOK, NEW p \in Procs, NEW call \in Call, Moves(p, call)
  PROVE  /\ proc' \in [Procs -> Call]
         /\ proc'[p] = call
         /\ \A q \in Procs \ {p} : proc'[q] = proc[q]
BY DEF Moves, TypeOK

\* A call that ends without a file knows nothing of its start.
LEMMA EndsSo ==
  ASSUME TypeOK, NEW p \in Procs, NEW how \in {"failed", "killed", "crashed"}, Moves(p, Ended(how))
  PROVE  proc'[p].pc = how /\ ~proc'[p].fresh
<1>1. how \in Places
  BY DEF Places
<1>2. Ended(how).pc = how /\ ~Ended(how).fresh
  BY <1>1, Ways
<1>3. proc'[p] = Ended(how)
  BY DEF Moves, TypeOK
<1>. QED BY <1>2, <1>3

\* The same of one that goes on elsewhere without what it has read.
LEMMA DropsSo ==
  ASSUME TypeOK, NEW p \in Procs, NEW where \in {"convert", "written"}, NEW fresh \in BOOLEAN,
         Drops(p, where, fresh)
  PROVE  /\ proc'[p] \in Call
         /\ proc'[p].pc = where /\ proc'[p].start = proc[p].start /\ proc'[p].fresh = fresh
<1>1. where \in Places
  BY DEF Places
<1>2. proc'[p] = Without(p, where, fresh)
  BY DEF Drops, Moves, TypeOK
<1>. QED BY <1>1, <1>2, WithoutWays

\* The source whose turn it is is one of those to come.
LEMMA DueTodo == \A p : Due(p) \subseteq proc[p].todo
BY DEF Due

\* Nothing of q moves but what it could know of its start.
Apart(q) ==
  /\ proc'[q] \in {proc[q], [proc[q] EXCEPT !.fresh = FALSE]}
  /\ tmp'[q] = tmp[q]
  /\ part'[q] = part[q]
  /\ loaded'[q] = loaded[q]

Mine(p) == Step(p) \/ Crash(p)

\* What a step of p may do to the variables of all.
Bounded(p) ==
  /\ proc' \in [Procs -> Call]
  /\ tmp' \in [Procs -> SUBSET File]
  /\ part' \in [Procs -> BOOLEAN]
  /\ loaded' \in [Procs -> SUBSET File]
  /\ now' \in Nat /\ now <= now'
  /\ ver' = ver /\ mtime' = mtime
  /\ proc'[p].start \in {proc[p].start, Present, Blank}
  /\ cache' \in {cache, tmp[p]}
  /\ \A q \in Procs \ {p} : Apart(q)
  /\ cache' = cache \/ \A q \in Procs : ~proc'[q].fresh

\* The steps that only move the call of p ...
LEMMA CallMoves ==
  ASSUME TypeOK, NEW p \in Procs, NEW call \in Call, Moves(p, call),
         call.start \in {proc[p].start, Present, Blank},
         UNCHANGED <<sources, files, loaded>>
  PROVE  Bounded(p)
<1>1. /\ proc' \in [Procs -> Call]
      /\ proc'[p] = call
      /\ \A q \in Procs \ {p} : proc'[q] = proc[q]
  BY OneMoves
<1>2. \A q \in Procs \ {p} : Apart(q)
  BY <1>1 DEF Apart, files
<1>. QED BY <1>1, <1>2 DEF Bounded, TypeOK, sources, files

\* ... or throw its temporary file away as well, or do something to the converter's.
LEMMA CallCleans ==
  ASSUME TypeOK, NEW p \in Procs, NEW call \in Call, Moves(p, call),
         call.start \in {proc[p].start, Present, Blank},
         tmp' = [tmp EXCEPT ![p] = {}] \/ UNCHANGED tmp,
         part' \in {part, [part EXCEPT ![p] = TRUE], [part EXCEPT ![p] = FALSE]},
         UNCHANGED <<sources, cache, loaded>>
  PROVE  Bounded(p)
<1>1. /\ proc' \in [Procs -> Call]
      /\ proc'[p] = call
      /\ \A q \in Procs \ {p} : proc'[q] = proc[q]
  BY OneMoves
<1>2. \A q \in Procs \ {p} : Apart(q)
  BY <1>1 DEF Apart, TypeOK
<1>3. tmp' \in [Procs -> SUBSET File] /\ part' \in [Procs -> BOOLEAN]
  BY DEF TypeOK
<1>. QED BY <1>1, <1>2, <1>3 DEF Bounded, TypeOK, sources

\* What each step of a process does to the variables.
LEMMA StepBounded ==
  ASSUME TypeOK, NEW p \in Procs, Mine(p)
  PROVE  Bounded(p)
<1>. DEFINE At(call) == call.start \in {proc[p].start, Present, Blank}
<1>0. proc[p] \in Call
  BY CallTypes
<1>1. \A where \in Places : LET call == [proc[p] EXCEPT !.pc = where] IN call \in Call /\ At(call)
  BY <1>0, Ways
<1>2. \A how \in Places : Ended(how) \in Call /\ At(Ended(how))
  BY Ways
<1>3. \A time \in Nat : Returns(p, time) \in Call /\ At(Returns(p, time))
  BY Ways
<1>19. \A where \in Places, fresh \in BOOLEAN :
         Without(p, where, fresh) \in Call /\ At(Without(p, where, fresh))
  BY WithoutWays
<1>20. proc[p].fresh \in BOOLEAN
  BY <1>0 DEF Call
<1>4. ASSUME Start(p) PROVE Bounded(p)
  <2>1. PICK call \in Call : Moves(p, call) /\ At(call)
    <3>. DEFINE call == [NotStarted EXCEPT !.pc = "look", !.start = [ver |-> ver, mtime |-> mtime],
                           !.fresh = \E f \in cache : /\ f.whole
                                            /\ \A s \in Sources : mtime[s] < f.mtime]
    <3>1. call \in Call /\ call.start = Present
      BY CallTypes DEF Present, Call, Places
    <3>2. Moves(p, call)
      BY <1>4 DEF Start
    <3>. QED BY <3>1, <3>2
  <2>. QED BY <1>4, <2>1, CallMoves DEF Start
<1>5. ASSUME Look(p) PROVE Bounded(p)
  <2>1. PICK call \in Call : Moves(p, call) /\ At(call)
    <3>1. ASSUME NEW f \in cache PROVE LET call == [proc[p] EXCEPT !.pc = "magic", !.seen = f.mtime]
                                       IN call \in Call /\ At(call)
      BY <1>0, <3>1 DEF Call, Places, TypeOK, File
    <3>2. "convert" \in Places
      BY DEF Places
    <3>. QED BY <1>5, <1>19, <1>20, <3>1, <3>2 DEF Look, Drops
  <2>. QED BY <1>5, <2>1, CallMoves DEF Look
<1>6. ASSUME Magic(p) PROVE Bounded(p)
  <2>1. PICK call \in Call : Moves(p, call) /\ At(call)
    <3>1. LET call == [proc[p] EXCEPT !.pc = "compare", !.todo = Sources] IN call \in Call /\ At(call)
      BY <1>0 DEF Call, Places
    <3>2. "convert" \in Places
      BY DEF Places
    <3>. QED BY <1>6, <1>19, <1>20, <3>1, <3>2 DEF Magic, Drops
  <2>. QED BY <1>6, <2>1, CallMoves DEF Magic
<1>7. ASSUME Compare(p) PROVE Bounded(p)
  <2>1. PICK call \in Call : Moves(p, call) /\ At(call)
    <3>1. \A s : LET call == [proc[p] EXCEPT !.todo = @ \ {s}] IN call \in Call /\ At(call)
      BY <1>0 DEF Call
    <3>2. "convert" \in Places /\ proc[p].seen \in Nat /\ proc[p].blind \in BOOLEAN
      BY <1>0 DEF Places, Call
    <3>3. \A call \in Call, blind \in BOOLEAN : At(call) =>
            [call EXCEPT !.blind = blind] \in Call /\ At([call EXCEPT !.blind = blind])
      BY DEF Call
    <3>4. ASSUME NEW s, NEW blind \in BOOLEAN
          PROVE  Passed(p, s, blind) \in Call /\ At(Passed(p, s, blind))
      <4>1. CASE proc[p].todo = {s}
        BY <1>3, <3>2, <3>3, <4>1 DEF Passed
      <4>2. CASE proc[p].todo # {s}
        BY <3>1, <3>3, <4>2 DEF Passed
      <4>. QED BY <4>1, <4>2
    <3>5. \/ \E fresh \in BOOLEAN : Moves(p, Without(p, "convert", fresh))
          \/ \E s : \E blind \in BOOLEAN : Moves(p, Passed(p, s, blind))
      <4>1. PICK s \in Due(p) :
              \/ Drops(p, "convert", proc[p].fresh)
              \/ Moves(p, Passed(p, s, proc[p].blind))
              \/ Moves(p, Passed(p, s, TRUE))
              \/ Drops(p, "convert", FALSE)
        BY <1>7 DEF Compare
      <4>. QED BY <1>20, <3>2, <4>1 DEF Drops
    <3>. QED BY <1>19, <3>2, <3>4, <3>5
  <2>. QED BY <1>7, <2>1, CallMoves DEF Compare
<1>8. ASSUME Convert(p) PROVE Bounded(p)
  <2>1. PICK call \in Call : Moves(p, call) /\ At(call)
    <3>1. LET call == [proc[p] EXCEPT !.pc = "read", !.todo = Sources, !.begun = now]
          IN call \in Call /\ At(call)
      BY <1>0 DEF Call, Places, TypeOK
    <3>2. "failed" \in Places
      BY DEF Places
    <3>. QED BY <1>8, <1>2, <3>1, <3>2 DEF Convert
  <2>. QED BY <1>8, <2>1, CallMoves DEF Convert
<1>9. ASSUME Read(p) PROVE Bounded(p)
  <2>1. PICK call \in Call : Moves(p, call) /\ At(call)
    <3>1. PICK s \in proc[p].todo :
            Moves(p, [proc[p] EXCEPT !.draft[s] = ver[s], !.todo = @ \ {s}])
      BY <1>9, DueTodo DEF Read
    <3>2. ver[s] \in Nat
      BY <1>0 DEF Call, TypeOK, Versions
    <3>3. LET call == [proc[p] EXCEPT !.draft[s] = ver[s], !.todo = @ \ {s}]
          IN call \in Call /\ At(call)
      BY <1>0, <3>2 DEF Call, Versions
    <3>. QED BY <3>1, <3>3
  <2>. QED BY <1>9, <2>1, CallMoves DEF Read
<1>10. ASSUME Write(p) PROVE Bounded(p)
  <2>. DEFINE call == Without(p, "written", proc[p].fresh)
              file == [ver |-> proc[p].draft, mtime |-> now', begun |-> proc[p].begun, whole |-> TRUE]
  <2>1. call \in Call /\ At(call) /\ Moves(p, call)
    BY <1>10, <1>19, <1>20 DEF Places, Write, Drops
  <2>2. /\ proc' \in [Procs -> Call]
        /\ proc'[p] = call
        /\ \A q \in Procs \ {p} : proc'[q] = proc[q]
    BY <2>1, OneMoves
  <2>3. now' \in Nat /\ now <= now'
    BY <1>10 DEF Write, Tick, TypeOK
  <2>4. file \in File
    BY <1>0, <2>3 DEF File, Call
  <2>5. /\ tmp' = [tmp EXCEPT ![p] = {file}] /\ part' = [part EXCEPT ![p] = FALSE]
        /\ UNCHANGED <<ver, mtime, cache, loaded>>
    BY <1>10 DEF Write
  <2>6. tmp' \in [Procs -> SUBSET File] /\ part' \in [Procs -> BOOLEAN]
    BY <2>4, <2>5 DEF TypeOK
  <2>7. \A q \in Procs \ {p} : Apart(q)
    BY <2>2, <2>5 DEF Apart, TypeOK
  <2>. QED BY <2>1, <2>2, <2>3, <2>5, <2>6, <2>7 DEF Bounded, TypeOK
<1>21. ASSUME Create(p) PROVE Bounded(p)
  <2>1. "write" \in Places /\ Moves(p, [proc[p] EXCEPT !.pc = "write"])
    BY <1>21 DEF Create, GoTo, Places
  <2>. QED BY <1>1, <1>21, <2>1, CallCleans DEF Create
<1>11. ASSUME ConverterFails(p) PROVE Bounded(p)
  BY <1>11, <1>2, CallCleans DEF ConverterFails, Places
<1>22. ASSUME ConverterKilled(p) PROVE Bounded(p)
  BY <1>22, <1>2, CallCleans DEF ConverterKilled, Places
<1>12. ASSUME Rename(p) PROVE Bounded(p)
  <2>1. PICK f \in tmp[p] : proc' = Outdated([proc EXCEPT ![p] = Returns(p, f.mtime)])
    BY <1>12 DEF Rename
  <2>2. f.mtime \in Nat
    BY DEF TypeOK, File
  <2>3. Returns(p, f.mtime) \in Call /\ Returns(p, f.mtime).start = proc[p].start
    BY <2>2, Ways
  <2>4. proc' = [q \in Procs |-> IF q = p THEN [Returns(p, f.mtime) EXCEPT !.fresh = FALSE]
                                 ELSE [proc[q] EXCEPT !.fresh = FALSE]]
    BY <2>1 DEF Outdated, TypeOK
  <2>5. \A c \in Call : [c EXCEPT !.fresh = FALSE] \in Call /\ ~[c EXCEPT !.fresh = FALSE].fresh
                        /\ [c EXCEPT !.fresh = FALSE].start = c.start
    BY DEF Call
  <2>6. /\ proc' \in [Procs -> Call]
        /\ \A q \in Procs : ~proc'[q].fresh
        /\ proc'[p].start = proc[p].start
        /\ \A q \in Procs \ {p} : proc'[q] = [proc[q] EXCEPT !.fresh = FALSE]
    BY <2>3, <2>4, <2>5 DEF TypeOK
  <2>7. tmp' = [tmp EXCEPT ![p] = {}] /\ cache' = tmp[p] /\ UNCHANGED <<sources, part, loaded>>
    BY <1>12 DEF Rename
  <2>8. \A q \in Procs \ {p} : Apart(q)
    BY <2>6, <2>7 DEF Apart, TypeOK
  <2>. QED BY <2>6, <2>7, <2>8 DEF Bounded, TypeOK, sources
<1>13. ASSUME RenameFails(p) PROVE Bounded(p)
  BY <1>13, <1>1, CallMoves DEF RenameFails, GoTo, Places
<1>14. ASSUME VerifyMagic(p) PROVE Bounded(p)
  BY <1>14, <1>1, <1>2, CallCleans DEF VerifyMagic, GoTo, Places
<1>15. ASSUME VerifyLook(p) PROVE Bounded(p)
  <2>1. PICK call \in Call : Moves(p, call) /\ At(call)
    <3>1. ASSUME NEW f \in cache
          PROVE LET call == [proc[p] EXCEPT !.pc = "vcompare", !.seen = f.mtime, !.todo = Sources]
                IN call \in Call /\ At(call)
      BY <1>0, <3>1 DEF Call, Places, TypeOK, File
    <3>. QED BY <1>15, <3>1 DEF VerifyLook
  <2>. QED BY <1>15, <2>1, CallMoves DEF VerifyLook
<1>16. ASSUME VerifyCompare(p) PROVE Bounded(p)
  <2>1. /\ UNCHANGED <<sources, cache, part, loaded>>
        /\ tmp' = [tmp EXCEPT ![p] = {}] \/ UNCHANGED tmp
    BY <1>16 DEF VerifyCompare
  <2>2. PICK call \in Call : Moves(p, call) /\ At(call)
    <3>1. \A s : LET call == [proc[p] EXCEPT !.todo = @ \ {s}] IN call \in Call /\ At(call)
      BY <1>0 DEF Call
    <3>2. "failed" \in Places /\ proc[p].seen \in Nat
      BY <1>0 DEF Places, Call
    <3>. QED BY <1>16, <1>2, <1>3, <3>1, <3>2 DEF VerifyCompare
  <2>. QED BY <2>1, <2>2, CallCleans
<1>17. ASSUME Load(p) PROVE Bounded(p)
  <2>. DEFINE call == [proc[p] EXCEPT !.pc = "loaded"]
  <2>1. call \in Call /\ At(call) /\ Moves(p, call)
    BY <1>1, <1>17 DEF Places, Load, GoTo
  <2>2. /\ proc' \in [Procs -> Call]
        /\ proc'[p] = call
        /\ \A q \in Procs \ {p} : proc'[q] = proc[q]
    BY <2>1, OneMoves
  <2>3. loaded' = [loaded EXCEPT ![p] = cache] /\ UNCHANGED <<sources, files>>
    BY <1>17 DEF Load
  <2>4. loaded' \in [Procs -> SUBSET File]
    BY <2>3 DEF TypeOK
  <2>5. \A q \in Procs \ {p} : Apart(q)
    BY <2>2, <2>3 DEF Apart, TypeOK, files
  <2>. QED BY <2>1, <2>2, <2>3, <2>4, <2>5 DEF Bounded, TypeOK, sources, files
<1>18. ASSUME Crash(p) PROVE Bounded(p)
  BY <1>18, <1>2, CallMoves DEF Crash, Places
<1>. QED BY <1>4, <1>5, <1>6, <1>7, <1>8, <1>9, <1>10, <1>11, <1>12, <1>13, <1>14, <1>15, <1>16,
            <1>17, <1>18, <1>21, <1>22 DEF Mine, Step

-----------------------------------------------------------------------------

\* Time passes, sources are edited, and processes start.
Later ==
  /\ now' \in Nat /\ now <= now'
  /\ ver' \in Versions /\ mtime' \in Versions
  /\ \A s \in Sources : \/ ver'[s] = ver[s] /\ mtime'[s] = mtime[s]
                        \/ ver[s] <= ver'[s] /\ mtime'[s] = now'
  /\ \A q \in Procs : proc'[q].start \in {proc[q].start, Present, Blank}

LEMMA StepLater ==
  ASSUME TypeOK, NEW p \in Procs, Bounded(p)
  PROVE  Later
<1>1. \A q \in Procs : proc'[q].start \in {proc[q].start, Present, Blank}
  <2>1. ASSUME NEW q \in Procs \ {p} PROVE proc'[q].start = proc[q].start
    BY CallTypes DEF Bounded, Apart, Call
  <2>. QED BY <2>1 DEF Bounded
<1>. QED BY <1>1 DEF Later, Bounded, TypeOK

\* An edit: everything that was found at a start is outdated.
LEMMA EditLater ==
  ASSUME TypeOK, NEW z \in Sources, Edit(z)
  PROVE  /\ TypeOK' /\ Later
         /\ cache' = cache
         /\ \A q \in Procs : Apart(q) /\ ~proc'[q].fresh
<1>1. now' \in Nat /\ now <= now'
  BY DEF Edit, Tick, TypeOK
<1>2. ver' = [ver EXCEPT ![z] = @ + 1] /\ mtime' = [mtime EXCEPT ![z] = now']
  BY DEF Edit
<1>3. ver' \in Versions /\ mtime' \in Versions
  BY <1>1, <1>2 DEF TypeOK, Versions
<1>4. \A s \in Sources : \/ ver'[s] = ver[s] /\ mtime'[s] = mtime[s]
                         \/ ver[s] <= ver'[s] /\ mtime'[s] = now'
  BY <1>2 DEF TypeOK, Versions
<1>5. \A q \in Procs : proc'[q] = [proc[q] EXCEPT !.fresh = FALSE]
  BY DEF Edit, Outdated
<1>6. ASSUME NEW c \in Call
      PROVE  /\ [c EXCEPT !.fresh = FALSE] \in Call
             /\ ~[c EXCEPT !.fresh = FALSE].fresh
             /\ [c EXCEPT !.fresh = FALSE].start = c.start
  <2>1. [c EXCEPT !.fresh = FALSE] \in Call
    BY DEF Call
  <2>. QED BY <2>1 DEF Call
<1>7. ASSUME NEW q \in Procs
      PROVE  proc'[q] \in Call /\ ~proc'[q].fresh /\ proc'[q].start = proc[q].start
  BY <1>5, <1>6, CallTypes
<1>8. proc' \in [Procs -> Call]
  BY <1>7 DEF Edit, Outdated
<1>. QED BY <1>1, <1>3, <1>4, <1>5, <1>7, <1>8 DEF Edit, files, TypeOK, Later, Apart

\* A conversion stays what it was made of.
LEMMA SoundKept ==
  ASSUME TypeOK, Later, NEW f \in File, Sound(f)
  PROVE  Sound(f)'
<1>1. f.begun \in Nat /\ f.mtime \in Nat /\ f.ver \in Versions /\ now \in Nat
  BY DEF File, TypeOK
<1>2. f.whole /\ f.begun <= f.mtime /\ f.mtime <= now'
  BY <1>1 DEF Sound, Later
<1>3. \A s \in Sources : ver[s] <= f.ver[s] \/ f.begun <= mtime[s]
  BY DEF Sound, Covers, Present
<1>4. \A s \in Sources : ver'[s] <= f.ver[s] \/ f.begun <= mtime'[s]
  BY <1>1, <1>2, <1>3 DEF Later
<1>5. ASSUME NEW q \in Procs, NEW s \in Sources
      PROVE  proc'[q].start.ver[s] <= f.ver[s] \/ f.begun <= proc'[q].start.mtime[s]
  <2>1. CASE proc'[q].start = proc[q].start
    BY <2>1 DEF Sound, Covers
  <2>2. CASE proc'[q].start = Present
    BY <1>3, <2>2 DEF Present
  <2>3. CASE proc'[q].start = Blank
    BY <1>1, <2>3 DEF Blank, Zero, Versions
  <2>. QED BY <2>1, <2>2, <2>3 DEF Later
<1>. QED BY <1>2, <1>4, <1>5 DEF Sound, Covers, Present

\* Nobody starts with sources that are yet to come.
LEMMA StartedKept ==
  ASSUME TypeOK, Sane, Later, NEW q \in Procs, Started(q)
  PROVE  Started(q)'
<1>1. proc[q].start \in [ver : Versions, mtime : Versions]
  BY CallTypes DEF Call
<1>2. ASSUME NEW s \in Sources
      PROVE  /\ proc'[q].start.ver[s] <= ver'[s]
             /\ proc'[q].start.mtime[s] <= mtime'[s]
  <2>1. ver[s] \in Nat /\ mtime[s] \in Nat /\ now \in Nat
    BY DEF TypeOK, Versions
  <2>2. /\ ver[s] <= ver'[s] /\ ver'[s] \in Nat
        /\ mtime[s] <= mtime'[s] /\ mtime'[s] \in Nat
    BY <2>1 DEF Later, Sane, Versions
  <2>3. CASE proc'[q].start = proc[q].start
    BY <1>1, <2>1, <2>2, <2>3 DEF Started, Versions
  <2>4. CASE proc'[q].start = Present
    BY <2>2, <2>4 DEF Present
  <2>5. CASE proc'[q].start = Blank
    BY <2>2, <2>5 DEF Blank, Zero
  <2>. QED BY <2>3, <2>4, <2>5 DEF Later
<1>. QED BY <1>2 DEF Started

\* What a process that does not move knows stays true.
LEMMA ApartKept ==
  ASSUME TypeOK, Sane, Later, NEW q \in Procs, Local(q), Apart(q),
         Usable => Usable',
         ~proc'[q].fresh \/ (cache' = cache /\ mtime' = mtime)
  PROVE  Local(q)'
<1>1. /\ proc'[q].pc = proc[q].pc /\ proc'[q].seen = proc[q].seen
      /\ proc'[q].todo = proc[q].todo /\ proc'[q].draft = proc[q].draft
      /\ proc'[q].begun = proc[q].begun /\ proc'[q].start = proc[q].start
      /\ proc'[q].judged = proc[q].judged /\ proc'[q].blind = proc[q].blind
      /\ proc'[q].fresh => proc[q].fresh
  BY CallTypes DEF Apart, Call
<1>2. Started(q)'
  BY StartedKept DEF Local
<1>3. Checked(q)' /\ There(q)' /\ Tidy(q)' /\ Opened(q)'
  BY <1>1 DEF Local, Checked, Judged, Older, There, Tidy, Opened, Apart
<1>4. Found(q)'
  BY <1>1 DEF Local, Found
<1>5. Drafted(q)'
  <2>. SUFFICES ASSUME proc[q].pc \in {"read", "write"} PROVE Drafted(q)'
    BY <1>1 DEF Drafted
  <2>1. Drafted(q)
    BY DEF Local
  <2>2. proc[q].begun \in Nat /\ proc[q].draft \in Versions /\ now \in Nat
    BY CallTypes DEF Call, TypeOK
  <2>3. proc[q].begun <= now'
    BY <2>1, <2>2 DEF Drafted, Later
  <2>4. ASSUME NEW s \in Sources \ proc[q].todo
        PROVE  /\ ver'[s] <= proc[q].draft[s] \/ proc[q].begun <= mtime'[s]
               /\ \A r \in Procs : \/ proc'[r].start.ver[s] <= proc[q].draft[s]
                                   \/ proc[q].begun <= proc'[r].start.mtime[s]
    <3>1. ver[s] <= proc[q].draft[s] \/ proc[q].begun <= mtime[s]
      BY <2>1 DEF Drafted
    <3>2. ver'[s] <= proc[q].draft[s] \/ proc[q].begun <= mtime'[s]
      BY <2>3, <3>1 DEF Later
    <3>3. ASSUME NEW r \in Procs
          PROVE  \/ proc'[r].start.ver[s] <= proc[q].draft[s]
                 \/ proc[q].begun <= proc'[r].start.mtime[s]
      <4>1. CASE proc'[r].start = proc[r].start
        BY <2>1, <4>1 DEF Drafted
      <4>2. CASE proc'[r].start = Present
        BY <3>1, <4>2 DEF Present
      <4>3. CASE proc'[r].start = Blank
        BY <2>2, <4>3 DEF Blank, Zero, Versions
      <4>. QED BY <4>1, <4>2, <4>3 DEF Later
    <3>. QED BY <3>2, <3>3
  <2>. QED BY <1>1, <2>1, <2>3, <2>4 DEF Drafted, Older
<1>6. Wrote(q)'
  <2>. SUFFICES ASSUME proc[q].pc = "written" PROVE Wrote(q)'
    BY <1>1 DEF Wrote
  <2>1. PICK f \in File : tmp[q] = {f} /\ Sound(f) /\ Older(proc[q].start, Sources, f.mtime)
    BY DEF Local, Wrote
  <2>2. Sound(f)'
    BY <2>1, SoundKept
  <2>. QED BY <1>1, <2>1, <2>2 DEF Wrote, Older, Apart
<1>. QED BY <1>2, <1>3, <1>4, <1>5, <1>6 DEF Local

-----------------------------------------------------------------------------

\* A step of p leaves the sources, moves its own call, and knows its own file.
LEMMA Rest ==
  ASSUME Inv, NEW p \in Procs, Mine(p)
  PROVE  /\ TypeOK /\ Sane /\ Bounded(p) /\ Later /\ Started(p)'
         /\ proc[p] \in Call
         /\ proc[p].pc # "loaded" => loaded[p] = {}
         /\ Checked(p) /\ There(p) /\ Drafted(p) /\ Wrote(p) /\ Tidy(p) /\ Found(p)
BY StepBounded, StepLater, StartedKept, CallTypes DEF Inv, Local, Opened

\* No process has a different start but the one that steps.
LEMMA StartsStay ==
  ASSUME Inv, NEW p \in Procs, Mine(p), proc'[p].start = proc[p].start
  PROVE  \A q \in Procs : proc'[q].start = proc[q].start
<1>1. ASSUME NEW q \in Procs \ {p} PROVE proc'[q].start = proc[q].start
  <2>1. proc[q] \in Call
    BY Rest, CallTypes
  <2>2. proc'[q] \in {proc[q], [proc[q] EXCEPT !.fresh = FALSE]}
    BY Rest DEF Bounded, Apart
  <2>. QED BY <2>1, <2>2 DEF Call
<1>. QED BY <1>1

\* Where nothing is claimed but what temporary files there are: calls that are over, and
\* calls that are on their way to the converter or just past the rename.
LEMMA Nowhere ==
  ASSUME Inv, NEW p \in Procs, Mine(p),
         proc'[p].pc \in {"convert", "failed", "killed", "crashed", "vmagic"}, ~proc'[p].fresh,
         proc'[p].pc \in {"convert", "failed", "killed"} => tmp'[p] = {},
         proc'[p].pc \in {"convert", "failed", "vmagic"} => ~part'[p],
         proc[p].pc # "loaded", loaded' = loaded
  PROVE  Local(p)'
BY Rest DEF Local, Checked, There, Drafted, Wrote, Tidy, Found, Opened

\* The way to a file that is there.
LEMMA LookupKept ==
  ASSUME Inv, NEW p \in Procs,
         Start(p) \/ Look(p) \/ Magic(p) \/ Compare(p)
  PROVE  Local(p)'
<1>1. Mine(p)
  BY DEF Mine, Step
<1>2. /\ TypeOK /\ Sane /\ Started(p)' /\ proc[p] \in Call
      /\ proc[p].pc # "loaded" => loaded[p] = {}
      /\ Checked(p) /\ There(p) /\ Tidy(p) /\ Found(p)
  BY <1>1, Rest
<1>3. /\ proc' \in [Procs -> Call]
      /\ now' = now /\ ver' = ver /\ mtime' = mtime /\ cache' = cache /\ tmp' = tmp
      /\ part' = part /\ loaded' = loaded
  BY <1>1, Rest DEF Bounded, Start, Look, Magic, Compare, sources, files
<1>4. CASE Start(p)
  <2>. DEFINE was == \E f \in cache : f.whole /\ \A s \in Sources : mtime[s] < f.mtime
  <2>1. /\ proc[p].pc = "idle"
        /\ proc'[p] = [NotStarted EXCEPT
                         !.pc = "look", !.start = [ver |-> ver, mtime |-> mtime], !.fresh = was]
    BY <1>2, <1>4 DEF Start, Moves, TypeOK
  <2>2. proc'[p].pc = "look" /\ proc'[p].fresh = was
    BY <2>1, CallTypes DEF Call, NotStarted
  <2>. QED BY <1>2, <1>3, <2>1, <2>2
           DEF Local, Checked, There, Drafted, Wrote, Tidy, Found, Opened
<1>5. CASE Look(p)
  <2>0. proc[p].pc = "look"
    BY <1>5 DEF Look
  <2>1. CASE cache = {} /\ Drops(p, "convert", proc[p].fresh)
    <3>2. proc'[p].pc = "convert" /\ proc'[p].fresh = proc[p].fresh
      BY <1>2, <2>1, DropsSo DEF Call
    <3>3. ~proc[p].fresh
      BY <1>2, <2>1 DEF Found
    <3>. QED BY <1>1, <1>2, <1>3, <2>0, <3>2, <3>3, Nowhere DEF Tidy
  <2>2. CASE \E f \in cache : Moves(p, [proc[p] EXCEPT !.pc = "magic", !.seen = f.mtime])
    <3>1. PICK f \in cache : proc'[p] = [proc[p] EXCEPT !.pc = "magic", !.seen = f.mtime]
      BY <1>2, <2>2 DEF Moves, TypeOK
    <3>2. proc'[p].pc = "magic" /\ proc'[p].fresh = proc[p].fresh /\ proc'[p].seen = f.mtime
      BY <1>2, <3>1 DEF Call
    <3>3. Found(p)'
      BY <1>2, <1>3, <2>0, <3>2 DEF Found, Sane
    <3>. QED BY <1>2, <1>3, <2>0, <3>2, <3>3
             DEF Local, Checked, There, Drafted, Wrote, Tidy, Opened
  <2>. QED BY <1>5, <2>1, <2>2 DEF Look
<1>6. CASE Magic(p)
  <2>0. proc[p].pc = "magic"
    BY <1>6 DEF Magic
  <2>1. CASE Usable
    <3>1. proc'[p] = [proc[p] EXCEPT !.pc = "compare", !.todo = Sources]
      BY <1>2, <1>6, <2>1 DEF Magic, Moves, TypeOK
    <3>2. /\ proc'[p].pc = "compare" /\ proc'[p].fresh = proc[p].fresh
          /\ proc'[p].seen = proc[p].seen /\ proc'[p].todo = Sources
      BY <1>2, <3>1 DEF Call
    <3>3. There(p)' /\ Checked(p)'
      BY <1>3, <2>1, <3>2 DEF There, Usable, Checked, Judged, Older
    <3>4. Found(p)'
      BY <1>2, <1>3, <2>0, <3>2 DEF Found
    <3>. QED BY <1>2, <1>3, <2>0, <3>2, <3>3, <3>4 DEF Local, Drafted, Wrote, Tidy, Opened
  <2>2. CASE ~Usable
    <3>2. proc'[p].pc = "convert" /\ proc'[p].fresh = proc[p].fresh
      BY <1>2, <1>6, <2>2, DropsSo DEF Call, Magic
    <3>3. ~proc[p].fresh
      BY <1>2, <2>2 DEF Found, Usable
    <3>. QED BY <1>1, <1>2, <1>3, <2>0, <3>2, <3>3, Nowhere DEF Tidy
  <2>. QED BY <2>1, <2>2
<1>7. CASE Compare(p)
  <2>0. proc[p].pc = "compare"
    BY <1>7 DEF Compare
  <2>1. PICK s \in proc[p].todo :
          \/ Stale(s, proc[p].seen) /\ Drops(p, "convert", proc[p].fresh)
          \/ ~Stale(s, proc[p].seen) /\ Moves(p, Passed(p, s, proc[p].blind))
          \/ s = Script /\ Moves(p, Passed(p, s, TRUE))
          \/ Drops(p, "convert", FALSE)
    BY <1>7, DueTodo DEF Compare
  <2>2. s \in Sources /\ proc[p].seen \in Nat /\ mtime[s] \in Nat
    BY <1>2 DEF Call, TypeOK, Versions
  <2>3. CASE \/ Stale(s, proc[p].seen) /\ Drops(p, "convert", proc[p].fresh)
             \/ Drops(p, "convert", FALSE)
    <3>1. Stale(s, proc[p].seen) => ~proc[p].fresh
      BY <1>2, <2>0, <2>2 DEF Found, Sane, Stale, TypeOK, File
    <3>2. proc'[p].pc = "convert" /\ ~proc'[p].fresh
      BY <1>2, <2>3, <3>1, DropsSo DEF Call
    <3>. QED BY <1>1, <1>2, <1>3, <2>0, <3>2, Nowhere DEF Tidy
  <2>4. CASE \E blind \in BOOLEAN :
               /\ Moves(p, Passed(p, s, blind))
               /\ \/ ~Stale(s, proc[p].seen) /\ blind = proc[p].blind
                  \/ s = Script /\ blind
    <3>1. PICK blind \in BOOLEAN : /\ proc'[p] = Passed(p, s, blind)
                                   /\ \/ ~Stale(s, proc[p].seen) /\ blind = proc[p].blind
                                      \/ s = Script /\ blind
      BY <1>2, <2>4 DEF Moves, TypeOK
    <3>2. proc[p].start.mtime[s] <= proc[p].seen \/ (s = Script /\ blind)
      <4>1. proc[p].start.mtime[s] <= mtime[s] /\ proc[p].start.mtime[s] \in Nat
        BY <1>2, <2>2 DEF Inv, Local, Started, Call, Versions
      <4>2. ~Stale(s, proc[p].seen) => proc[p].start.mtime[s] <= proc[p].seen
        BY <2>2, <4>1 DEF Stale
      <4>. QED BY <3>1, <4>2
    <3>3. Older(proc[p].start, Judged(p, Sources \ proc[p].todo), proc[p].seen)
      BY <1>2, <2>0 DEF Checked
    <3>4. CASE proc[p].todo = {s}
      <4>1. proc'[p] = [Returns(p, proc[p].seen) EXCEPT !.blind = blind]
        BY <3>1, <3>4 DEF Passed
      <4>2. /\ proc'[p].pc = "load" /\ proc'[p].start = proc[p].start
            /\ proc'[p].judged = proc[p].seen /\ ~proc'[p].fresh /\ proc'[p].blind = blind
        BY <1>2, <2>2, <4>1, Ways DEF Call
      <4>3. Checked(p)'
        BY <3>1, <3>2, <3>3, <3>4, <4>2 DEF Checked, Judged, Older
      <4>. QED BY <1>2, <1>3, <2>0, <4>2, <4>3
               DEF Local, There, Usable, Drafted, Wrote, Tidy, Found, Opened
    <3>5. CASE proc[p].todo # {s}
      <4>1. proc'[p] = [[proc[p] EXCEPT !.todo = @ \ {s}] EXCEPT !.blind = blind]
        BY <3>1, <3>5 DEF Passed
      <4>2. /\ proc'[p].pc = "compare" /\ proc'[p].start = proc[p].start
            /\ proc'[p].seen = proc[p].seen /\ proc'[p].fresh = proc[p].fresh
            /\ proc'[p].todo = proc[p].todo \ {s} /\ proc'[p].blind = blind
        BY <1>2, <2>0, <4>1 DEF Call
      <4>3. Checked(p)'
        BY <3>1, <3>2, <3>3, <4>2 DEF Checked, Judged, Older
      <4>4. Found(p)'
        BY <1>2, <1>3, <2>0, <4>2 DEF Found
      <4>. QED BY <1>2, <1>3, <2>0, <4>2, <4>3, <4>4
               DEF Local, There, Usable, Drafted, Wrote, Tidy, Opened
    <3>. QED BY <3>4, <3>5
  <2>5. proc[p].blind \in BOOLEAN
    BY <1>2 DEF Call
  <2>. QED BY <2>1, <2>3, <2>4, <2>5
<1>. QED BY <1>4, <1>5, <1>6, <1>7

\* What the converter reads is as new as the source, and it writes all of it.
LEMMA ConverterKept ==
  ASSUME Inv, NEW p \in Procs,
         \/ Convert(p) \/ Read(p) \/ Create(p) \/ Write(p)
         \/ ConverterFails(p) \/ ConverterKilled(p) \/ RenameFails(p)
  PROVE  Local(p)'
<1>1. Mine(p)
  BY DEF Mine, Step
<1>2. /\ TypeOK /\ Sane /\ Started(p)' /\ proc[p] \in Call /\ Later
      /\ proc[p].pc # "loaded" => loaded[p] = {}
      /\ Drafted(p) /\ Wrote(p) /\ Tidy(p) /\ Found(p)
  BY <1>1, Rest
<1>3. loaded' = loaded
  BY DEF Convert, Read, Create, Write, ConverterFails, ConverterKilled, RenameFails
<1>0. \A q \in Procs : Started(q) /\ proc[q].start \in [ver : Versions, mtime : Versions]
  BY CallTypes DEF Inv, Local, Call
<1>4. CASE Convert(p)
  <2>0. proc[p].pc = "convert" /\ UNCHANGED <<sources, files>> /\ tmp[p] = {} /\ ~part[p]
    BY <1>2, <1>4 DEF Convert, Tidy
  <2>1. CASE Moves(p, [proc[p] EXCEPT !.pc = "read", !.todo = Sources, !.begun = now])
    <3>1. proc'[p] = [proc[p] EXCEPT !.pc = "read", !.todo = Sources, !.begun = now]
      BY <1>2, <2>1 DEF Moves, TypeOK
    <3>2. /\ proc'[p].pc = "read" /\ proc'[p].todo = Sources /\ proc'[p].begun = now
          /\ proc'[p].start = proc[p].start /\ proc'[p].fresh = proc[p].fresh
      BY <1>2, <3>1 DEF Call
    <3>3. \A s \in Sources : proc[p].start.mtime[s] <= now
      BY <1>0, <1>2 DEF Started, Sane, TypeOK, Versions
    <3>4. Drafted(p)'
      BY <1>2, <2>0, <3>2, <3>3 DEF Drafted, Older, sources, TypeOK
    <3>5. ~proc[p].fresh
      BY <1>2, <2>0 DEF Found
    <3>. QED BY <1>2, <1>3, <2>0, <3>2, <3>4, <3>5
             DEF Local, Checked, There, Wrote, Tidy, Found, Opened, files
  <2>2. CASE Moves(p, Ended("failed"))
    <3>1. proc'[p].pc = "failed" /\ ~proc'[p].fresh
      BY <1>2, <2>2, EndsSo
    <3>. QED BY <1>1, <1>3, <2>0, <3>1, Nowhere DEF files
  <2>. QED BY <1>4, <2>1, <2>2 DEF Convert
<1>5. CASE Read(p)
  <2>0. proc[p].pc = "read" /\ UNCHANGED <<sources, files>> /\ tmp[p] = {} /\ ~part[p]
        /\ ~proc[p].fresh
    BY <1>2, <1>5 DEF Read, Tidy, Found
  <2>1. PICK s \in proc[p].todo :
          proc'[p] = [proc[p] EXCEPT !.draft[s] = ver[s], !.todo = @ \ {s}]
    BY <1>2, <1>5, DueTodo DEF Read, Moves, TypeOK
  <2>2. /\ proc'[p].pc = "read" /\ proc'[p].todo = proc[p].todo \ {s}
        /\ proc'[p].begun = proc[p].begun /\ proc'[p].start = proc[p].start
        /\ proc'[p].fresh = proc[p].fresh
        /\ proc'[p].draft = [proc[p].draft EXCEPT ![s] = ver[s]]
    BY <1>2, <2>0, <2>1 DEF Call
  <2>3. \A q \in Procs : proc'[q].start = proc[q].start
    BY <1>1, <2>2, StartsStay
  <2>4. ASSUME NEW z \in Sources \ proc'[p].todo
        PROVE  /\ ver[z] <= proc'[p].draft[z] \/ proc[p].begun <= mtime[z]
               /\ \A q \in Procs : \/ proc[q].start.ver[z] <= proc'[p].draft[z]
                                   \/ proc[p].begun <= proc[q].start.mtime[z]
    <3>1. CASE z = s
      <4>1. proc'[p].draft[z] = ver[z] /\ ver[z] \in Nat
        BY <1>2, <2>2, <3>1 DEF Call, Versions, TypeOK
      <4>. QED BY <1>0, <4>1 DEF Started
    <3>2. CASE z # s
      <4>1. proc'[p].draft[z] = proc[p].draft[z] /\ z \in Sources \ proc[p].todo
        BY <1>2, <2>2, <3>2 DEF Call, Versions
      <4>. QED BY <1>2, <2>0, <4>1 DEF Drafted
    <3>. QED BY <3>1, <3>2
  <2>5. Drafted(p)'
    BY <1>2, <2>0, <2>2, <2>3, <2>4 DEF Drafted, Older, sources
  <2>. QED BY <1>2, <1>3, <2>0, <2>2, <2>5
           DEF Local, Checked, There, Wrote, Tidy, Found, Opened, files
<1>9. CASE Create(p)
  <2>0. /\ proc[p].pc = "read" /\ proc[p].todo = {} /\ tmp[p] = {} /\ ~proc[p].fresh
        /\ UNCHANGED <<sources, cache, tmp>>
    BY <1>2, <1>9 DEF Create, Tidy, Found
  <2>1. proc'[p] = [proc[p] EXCEPT !.pc = "write"]
    BY <1>2, <1>9 DEF Create, GoTo, Moves, TypeOK
  <2>2. /\ proc'[p].pc = "write" /\ proc'[p].todo = {}
        /\ proc'[p].begun = proc[p].begun /\ proc'[p].start = proc[p].start
        /\ proc'[p].fresh = proc[p].fresh /\ proc'[p].draft = proc[p].draft
    BY <1>2, <2>0, <2>1 DEF Call
  <2>3. \A q \in Procs : proc'[q].start = proc[q].start
    BY <1>1, <2>2, StartsStay
  <2>4. Drafted(p)'
    BY <1>2, <2>0, <2>2, <2>3 DEF Drafted, Older, sources
  <2>. QED BY <1>2, <1>3, <2>0, <2>2, <2>4
           DEF Local, Checked, There, Wrote, Tidy, Found, Opened
<1>6. CASE Write(p)
  <2>0. /\ proc[p].pc = "write" /\ proc[p].todo = {} /\ ~proc[p].fresh
        /\ UNCHANGED <<ver, mtime, cache>> /\ ~part'[p]
    BY <1>2, <1>6 DEF Write, Found, Drafted, TypeOK
  <2>1. now' \in Nat /\ now <= now'
    BY <1>2 DEF Later
  <2>4. proc'[p].pc = "written" /\ proc'[p].start = proc[p].start /\ proc'[p].fresh = proc[p].fresh
    BY <1>2, <1>6, DropsSo DEF Call, Write
  <2>5. PICK f \in File :
          /\ tmp'[p] = {f}
          /\ f.ver = proc[p].draft /\ f.mtime = now' /\ f.begun = proc[p].begun /\ f.whole
    <3>. DEFINE file == [ver |-> proc[p].draft, mtime |-> now', begun |-> proc[p].begun, whole |-> TRUE]
    <3>1. file \in File
      BY <1>2, <2>1 DEF File, Call
    <3>2. tmp'[p] = {file}
      BY <1>2, <1>6 DEF Write, TypeOK
    <3>. QED BY <3>1, <3>2
  <2>6. /\ f.begun <= now /\ Older(proc[p].start, Sources, f.begun)
        /\ \A s \in Sources : /\ ver[s] <= f.ver[s] \/ f.begun <= mtime[s]
                              /\ \A q \in Procs : \/ proc[q].start.ver[s] <= f.ver[s]
                                                  \/ f.begun <= proc[q].start.mtime[s]
    BY <1>2, <2>0, <2>5 DEF Drafted
  <2>7. \A q \in Procs : proc'[q].start = proc[q].start
    BY <1>1, <2>4, StartsStay
  <2>8. f.begun \in Nat /\ now \in Nat
    BY <1>2, <2>5 DEF File, TypeOK
  <2>9. Sound(f)'
    BY <2>0, <2>1, <2>5, <2>6, <2>7, <2>8 DEF Sound, Covers, Present
  <2>10. Older(proc[p].start, Sources, f.mtime)
    BY <1>0, <2>1, <2>5, <2>6, <2>8 DEF Older, Versions
  <2>11. Wrote(p)'
    BY <2>4, <2>5, <2>9, <2>10 DEF Wrote, Older
  <2>. QED BY <1>2, <1>3, <2>0, <2>4, <2>11
           DEF Local, Checked, There, Drafted, Tidy, Found, Opened
<1>7. CASE ConverterFails(p)
  <2>1. proc[p].pc # "loaded" /\ tmp'[p] = {} /\ ~part'[p] /\ Moves(p, Ended("failed"))
    BY <1>2, <1>7 DEF ConverterFails, TypeOK
  <2>2. proc'[p].pc = "failed" /\ ~proc'[p].fresh
    BY <1>2, <2>1, EndsSo
  <2>. QED BY <1>1, <1>3, <2>1, <2>2, Nowhere
<1>10. CASE ConverterKilled(p)
  <2>1. proc[p].pc # "loaded" /\ tmp'[p] = {} /\ Moves(p, Ended("killed"))
    BY <1>2, <1>10 DEF ConverterKilled, TypeOK
  <2>2. proc'[p].pc = "killed" /\ ~proc'[p].fresh
    BY <1>2, <2>1, EndsSo
  <2>. QED BY <1>1, <1>3, <2>1, <2>2, Nowhere
<1>8. CASE RenameFails(p)
  <2>1. /\ proc[p].pc = "written" /\ proc'[p] = [proc[p] EXCEPT !.pc = "vmagic"]
        /\ ~part'[p]
    BY <1>2, <1>8 DEF RenameFails, GoTo, Moves, TypeOK, Tidy, files
  <2>2. proc'[p].pc = "vmagic" /\ ~proc'[p].fresh
    BY <1>2, <2>1 DEF Call, Found
  <2>. QED BY <1>1, <1>3, <2>1, <2>2, Nowhere
<1>. QED BY <1>4, <1>5, <1>6, <1>7, <1>8, <1>9, <1>10

\* A file that is put into place was made after the process started.
LEMMA RenameKept ==
  ASSUME Inv, NEW p \in Procs, Rename(p)
  PROVE  /\ Local(p)' /\ Usable'
         /\ \A f \in cache' : Sound(f) /\ cache' = {f}
<1>1. Mine(p)
  BY DEF Mine, Step
<1>2. /\ TypeOK /\ Started(p)' /\ proc[p] \in Call
      /\ proc[p].pc # "loaded" => loaded[p] = {}
      /\ Wrote(p) /\ Tidy(p)
  BY <1>1, Rest
<1>3. /\ proc[p].pc = "written" /\ cache' = tmp[p] /\ tmp'[p] = {} /\ ~part'[p]
      /\ loaded' = loaded
  BY <1>2 DEF Rename, TypeOK, Tidy
<1>4. PICK f \in File : tmp[p] = {f} /\ Sound(f) /\ Older(proc[p].start, Sources, f.mtime)
  BY <1>2, <1>3 DEF Wrote
<1>5. proc' = Outdated([proc EXCEPT ![p] = Returns(p, f.mtime)])
  BY <1>4 DEF Rename
<1>6. proc'[p] = [Returns(p, f.mtime) EXCEPT !.fresh = FALSE]
  BY <1>2, <1>5 DEF Outdated, TypeOK
<1>7. f.mtime \in Nat /\ Returns(p, f.mtime) \in Call
  BY <1>2, <1>4, Ways DEF File
<1>8. /\ proc'[p].pc = "load" /\ proc'[p].start = proc[p].start
      /\ proc'[p].judged = f.mtime /\ ~proc'[p].fresh
  BY <1>2, <1>6, <1>7, Ways DEF Call
<1>9. Usable' /\ \A g \in cache' : Sound(g) /\ cache' = {g}
  BY <1>3, <1>4 DEF Usable, Sound
<1>10. Checked(p)' /\ There(p)'
  BY <1>4, <1>8, <1>9 DEF Checked, Judged, There, Older
<1>. QED BY <1>2, <1>3, <1>8, <1>9, <1>10 DEF Local, Drafted, Wrote, Tidy, Found, Opened

\* The check after a failed rename.
LEMMA VerifyKept ==
  ASSUME Inv, NEW p \in Procs, VerifyMagic(p) \/ VerifyLook(p) \/ VerifyCompare(p)
  PROVE  Local(p)'
<1>1. Mine(p)
  BY DEF Mine, Step
<1>2. /\ TypeOK /\ Sane /\ Started(p)' /\ proc[p] \in Call
      /\ proc[p].pc # "loaded" => loaded[p] = {}
      /\ Checked(p) /\ There(p) /\ Found(p) /\ Tidy(p)
  BY <1>1, Rest
<1>3. /\ now' = now /\ ver' = ver /\ mtime' = mtime /\ cache' = cache
      /\ part' = part /\ loaded' = loaded
  BY DEF VerifyMagic, VerifyLook, VerifyCompare, sources, files
<1>4. CASE VerifyMagic(p)
  <2>0. proc[p].pc = "vmagic" /\ ~proc[p].fresh /\ ~part[p]
    BY <1>2, <1>4 DEF VerifyMagic, Found, Tidy
  <2>1. CASE Usable
    <3>1. proc'[p] = [proc[p] EXCEPT !.pc = "vlook"]
      BY <1>2, <1>4, <2>1 DEF VerifyMagic, GoTo, Moves, TypeOK
    <3>2. proc'[p].pc = "vlook" /\ ~proc'[p].fresh
      BY <1>2, <2>0, <3>1 DEF Call
    <3>. QED BY <1>2, <1>3, <2>0, <2>1, <3>2
             DEF Local, Checked, There, Usable, Drafted, Wrote, Tidy, Found, Opened
  <2>2. CASE ~Usable
    <3>1. Moves(p, Ended("failed")) /\ tmp' = [tmp EXCEPT ![p] = {}]
      BY <1>4, <2>2 DEF VerifyMagic
    <3>2. tmp'[p] = {}
      BY <1>2, <3>1 DEF TypeOK
    <3>3. proc'[p].pc = "failed" /\ ~proc'[p].fresh
      BY <1>2, <3>1, EndsSo
    <3>. QED BY <1>1, <1>3, <2>0, <3>2, <3>3, Nowhere
  <2>. QED BY <2>1, <2>2
<1>5. CASE VerifyLook(p)
  <2>0. proc[p].pc = "vlook" /\ ~proc[p].fresh /\ ~part[p]
    BY <1>2, <1>5 DEF VerifyLook, Found, Tidy
  <2>1. PICK f \in cache :
          proc'[p] = [proc[p] EXCEPT !.pc = "vcompare", !.seen = f.mtime, !.todo = Sources]
    BY <1>2, <1>5 DEF VerifyLook, Moves, TypeOK
  <2>2. proc'[p].pc = "vcompare" /\ ~proc'[p].fresh /\ proc'[p].todo = Sources
    BY <1>2, <2>0, <2>1 DEF Call
  <2>3. Checked(p)'
    BY <2>2 DEF Checked, Older
  <2>. QED BY <1>2, <1>3, <2>0, <2>2, <2>3
           DEF Local, There, Usable, Drafted, Wrote, Tidy, Found, Opened
<1>6. CASE VerifyCompare(p)
  <2>0. proc[p].pc = "vcompare" /\ ~proc[p].fresh /\ ~part[p]
    BY <1>2, <1>6 DEF VerifyCompare, Found, Tidy
  <2>1. PICK s \in proc[p].todo :
          \/ /\ proc[p].todo # {s} /\ ~Stale(s, proc[p].seen)
             /\ Moves(p, [proc[p] EXCEPT !.todo = @ \ {s}])
          \/ /\ proc[p].todo = {s} /\ ~Stale(s, proc[p].seen)
             /\ Moves(p, Returns(p, proc[p].seen))
             /\ tmp' = [tmp EXCEPT ![p] = {}]
          \/ /\ Moves(p, Ended("failed"))
             /\ tmp' = [tmp EXCEPT ![p] = {}]
    BY <1>6, DueTodo DEF VerifyCompare
  <2>2. s \in Sources /\ proc[p].seen \in Nat /\ mtime[s] \in Nat
    BY <1>2 DEF Call, TypeOK, Versions
  <2>3. CASE Moves(p, Ended("failed")) /\ tmp' = [tmp EXCEPT ![p] = {}]
    <3>2. tmp'[p] = {}
      BY <1>2, <2>3 DEF TypeOK
    <3>3. proc'[p].pc = "failed" /\ ~proc'[p].fresh
      BY <1>2, <2>3, EndsSo
    <3>. QED BY <1>1, <1>3, <2>0, <3>2, <3>3, Nowhere
  <2>4. ASSUME ~Stale(s, proc[p].seen) PROVE proc[p].start.mtime[s] <= proc[p].seen
    <3>1. proc[p].start.mtime[s] <= mtime[s] /\ proc[p].start.mtime[s] \in Nat
      BY <1>2, <2>2 DEF Inv, Local, Started, Call, Versions
    <3>. QED BY <2>2, <2>4, <3>1 DEF Stale
  <2>5. CASE /\ ~Stale(s, proc[p].seen) /\ proc[p].todo = {s}
             /\ Moves(p, Returns(p, proc[p].seen)) /\ tmp' = [tmp EXCEPT ![p] = {}]
    <3>1. proc'[p] = Returns(p, proc[p].seen) /\ tmp'[p] = {}
      BY <1>2, <2>5 DEF Moves, TypeOK
    <3>2. /\ proc'[p].pc = "load" /\ proc'[p].start = proc[p].start
          /\ proc'[p].judged = proc[p].seen /\ ~proc'[p].fresh
      BY <1>2, <2>2, <3>1, Ways
    <3>3. Checked(p)'
      BY <1>2, <2>0, <2>4, <2>5, <3>2 DEF Checked, Judged, Older
    <3>. QED BY <1>2, <1>3, <2>0, <3>1, <3>2, <3>3
             DEF Local, There, Usable, Drafted, Wrote, Tidy, Found, Opened
  <2>6. CASE ~Stale(s, proc[p].seen) /\ Moves(p, [proc[p] EXCEPT !.todo = @ \ {s}])
    <3>1. proc'[p] = [proc[p] EXCEPT !.todo = @ \ {s}]
      BY <1>2, <2>6 DEF Moves, TypeOK
    <3>2. /\ proc'[p].pc = "vcompare" /\ proc'[p].start = proc[p].start
          /\ proc'[p].seen = proc[p].seen /\ ~proc'[p].fresh
          /\ proc'[p].todo = proc[p].todo \ {s}
      BY <1>2, <2>0, <3>1 DEF Call
    <3>3. Checked(p)'
      BY <1>2, <2>0, <2>4, <2>6, <3>2 DEF Checked, Older
    <3>. QED BY <1>2, <1>3, <2>0, <3>2, <3>3
             DEF Local, There, Usable, Drafted, Wrote, Tidy, Found, Opened
  <2>. QED BY <2>1, <2>3, <2>5, <2>6
<1>. QED BY <1>4, <1>5, <1>6

\* What is loaded is whole, and has what PickedUp says if it is the file that was judged.
LEMMA LoadKept ==
  ASSUME Inv, NEW p \in Procs, Load(p)
  PROVE  Local(p)'
<1>1. Mine(p)
  BY DEF Mine, Step
<1>2. /\ TypeOK /\ Sane /\ Started(p)' /\ proc[p] \in Call
      /\ Checked(p) /\ There(p) /\ Tidy(p) /\ Found(p)
  BY <1>1, Rest
<1>3. /\ proc[p].pc = "load" /\ loaded'[p] = cache /\ tmp' = tmp /\ tmp[p] = {}
      /\ part' = part /\ ~part[p]
      /\ proc'[p] = [proc[p] EXCEPT !.pc = "loaded"]
  BY <1>2 DEF Load, GoTo, Moves, TypeOK, Tidy, files
<1>4. /\ proc'[p].pc = "loaded" /\ proc'[p].start = proc[p].start
      /\ proc'[p].judged = proc[p].judged /\ ~proc'[p].fresh
      /\ proc'[p].blind = proc[p].blind
  BY <1>2, <1>3 DEF Call, Found
<1>5. ASSUME NEW f \in cache
      PROVE  /\ f.whole
             /\ f.mtime = proc[p].judged =>
                  \A s \in Sources :
                    \/ f.ver[s] >= proc[p].start.ver[s]
                    \/ f.begun <= proc[p].start.mtime[s] /\ proc[p].start.mtime[s] <= f.mtime
                    \/ s = Script /\ proc[p].blind
  <2>1. f.whole /\ Sound(f)
    BY <1>2, <1>3 DEF There, Usable, Sane
  <2>2. \A s \in Sources : /\ \/ proc[p].start.mtime[s] <= proc[p].judged
                              \/ s = Script /\ proc[p].blind
                           /\ \/ proc[p].start.ver[s] <= f.ver[s]
                              \/ f.begun <= proc[p].start.mtime[s]
    BY <1>2, <1>3, <2>1 DEF Checked, Judged, Older, Sound, Covers
  <2>3. f \in File
    BY <1>2 DEF TypeOK
  <2>. QED BY <1>2, <2>1, <2>2, <2>3 DEF File, Call, Versions
<1>6. Opened(p)'
  BY <1>3, <1>4, <1>5 DEF Opened
<1>. QED BY <1>2, <1>3, <1>4, <1>6 DEF Local, Checked, There, Drafted, Wrote, Tidy, Found

\* A process that is killed knows nothing.
LEMMA CrashKept ==
  ASSUME Inv, NEW p \in Procs, Crash(p)
  PROVE  Local(p)'
<1>1. Mine(p)
  BY DEF Mine
<1>2. TypeOK
  BY DEF Inv
<1>3. proc'[p].pc = "crashed" /\ ~proc'[p].fresh
  BY <1>2, EndsSo DEF Crash
<1>. QED BY <1>1, <1>3, Nowhere DEF Crash

\* Every step of a process keeps what it knows.
LEMMA MineKept ==
  ASSUME Inv, NEW p \in Procs, Mine(p)
  PROVE  Local(p)'
BY LookupKept, ConverterKept, RenameKept, VerifyKept, LoadKept, CrashKept DEF Mine, Step

-----------------------------------------------------------------------------

\* At first there is a broken file at most, and nobody has started.
LEMMA InvInit == Init => Inv
<1>. SUFFICES ASSUME Init PROVE Inv
  OBVIOUS
<1>1. Zero \in Versions /\ NotStarted \in Call
  BY DEF Zero, Versions, NotStarted, Call, Places
<1>2. Junk \in File /\ ~Junk.whole
  BY <1>1 DEF Junk, File
<1>3. TypeOK
  BY <1>1, <1>2 DEF Init, TypeOK
<1>4. Sane
  BY <1>2 DEF Init, Sane, Zero
<1>5. ASSUME NEW p \in Procs PROVE Local(p)
  <2>1. /\ proc[p].pc = "idle" /\ ~proc[p].fresh
        /\ proc[p].start = [ver |-> Zero, mtime |-> Zero]
        /\ tmp[p] = {} /\ ~part[p] /\ loaded[p] = {}
    BY DEF Init, NotStarted
  <2>2. Started(p)
    BY <2>1 DEF Init, Started, Zero
  <2>. QED BY <2>1, <2>2
           DEF Local, Checked, There, Drafted, Wrote, Tidy, Found, Opened
<1>. QED BY <1>3, <1>4, <1>5 DEF Inv

\* A step of one process, or an edit: the file is at most replaced by a conversion.
LEMMA InvNext == Inv /\ [Next]_vars => Inv'
<1>. SUFFICES ASSUME Inv, [Next]_vars PROVE Inv'
  OBVIOUS
<1>0. TypeOK /\ Sane /\ \A q \in Procs : Local(q)
  BY DEF Inv
<1>1. ASSUME NEW p \in Procs, Mine(p) PROVE Inv'
  <2>1. Bounded(p) /\ Later /\ TypeOK'
    BY <1>0, <1>1, StepBounded, StepLater DEF Bounded, TypeOK
  <2>2. cache' = cache \/ Rename(p)
    BY <1>1 DEF Mine, Step, Start, Look, Magic, Compare, Convert, Read, Create, Write, ConverterFails,
                ConverterKilled, RenameFails, VerifyMagic, VerifyLook, VerifyCompare, Load, Crash, files
  <2>3. /\ Usable => Usable'
        /\ \A f, g \in cache' : f = g
        /\ \A f \in cache' : f.whole => Sound(f)
    <3>1. CASE cache' = cache
      BY <1>0, <3>1 DEF Sane, Usable
    <3>2. CASE Rename(p)
      BY <3>2, RenameKept
    <3>. QED BY <2>2, <3>1, <3>2
  <2>4. Sane'
    <3>1. \A f \in cache' : f.whole => Sound(f)'
      BY <1>0, <2>1, <2>3, SoundKept DEF TypeOK
    <3>2. \A s \in Sources : mtime'[s] <= now'
      BY <1>0, <2>1 DEF Bounded, Sane, TypeOK, Versions
    <3>. QED BY <2>3, <3>1, <3>2 DEF Sane
  <2>5. ASSUME NEW q \in Procs \ {p} PROVE Local(q)'
    BY <1>0, <2>1, <2>3, ApartKept DEF Bounded
  <2>. QED BY <1>1, <2>1, <2>4, <2>5, MineKept DEF Inv
<1>2. ASSUME NEW z \in Sources, Edit(z) PROVE Inv'
  <2>1. /\ TypeOK' /\ Later /\ cache' = cache
        /\ \A q \in Procs : Apart(q) /\ ~proc'[q].fresh
    BY <1>0, <1>2, EditLater
  <2>2. Sane'
    <3>1. \A f \in cache' : f.whole => Sound(f)'
      BY <1>0, <2>1, SoundKept DEF Sane, TypeOK
    <3>2. \A s \in Sources : mtime'[s] <= now'
      BY <1>0, <2>1 DEF Later, Sane, TypeOK, Versions
    <3>. QED BY <1>0, <2>1, <3>1, <3>2 DEF Sane
  <2>3. \A q \in Procs : Local(q)'
    <3>1. Usable => Usable'
      BY <2>1 DEF Usable
    <3>. QED BY <1>0, <2>1, <3>1, ApartKept
  <2>. QED BY <2>1, <2>2, <2>3 DEF Inv
<1>3. CASE UNCHANGED vars
  BY <1>0, <1>3 DEF vars, sources, files, Inv, TypeOK, Sane, Sound, Covers, Present, Local, Started,
     Checked, Judged, Older, There, Usable, Drafted, Wrote, Tidy, Found, Opened
<1>. QED BY <1>1, <1>2, <1>3 DEF Next, Mine

\* Whatever processes, edits and kills interleave, the invariant holds.
THEOREM Invariance == Spec => []Inv
BY InvInit, InvNext, PTL DEF Spec

\* What a process loads, if it is the file it judged, has every edit made before the process
\* started but those between the start of the file's conversion and the end of the tick of
\* its last byte, and those of a script whose time could not be read.
THEOREM EditsPickedUp == Spec => []PickedUp
<1>1. Inv => PickedUp
  BY DEF Inv, Local, Opened, PickedUp, Loaded
<1>. QED BY <1>1, Invariance, PTL

\* No process converts while the file newer than every source that was there at its start is
\* still there and still newer, unless a time could not be read.
THEOREM OnlyStaleConverted == Spec => []ConvertsOnlyIfStale
<1>1. Inv => ConvertsOnlyIfStale
  BY DEF Inv, Local, Found, ConvertsOnlyIfStale
<1>. QED BY <1>1, Invariance, PTL

\* A process that was not killed leaves no tmp_path, and no file of its converter either
\* unless that was killed.
THEOREM NothingLeft == Spec => []NoLitter
<1>1. Inv => NoLitter
  BY DEF Inv, Local, Tidy, NoLitter
<1>. QED BY <1>1, Invariance, PTL
=============================================================================
