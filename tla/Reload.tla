------------------------------ MODULE Reload ------------------------------
(***************************************************************************)
(* ReadBoundedFile (read.go) and FileIdentity (identity.go): a reader that *)
(* caches a file, polls it with a stat and loads it again when it changed, *)
(* while others publish it by rename and rewrite it in place.              *)
(*                                                                         *)
(* A byte is the generation that wrote it.  Inode times come from a coarse *)
(* clock; an inode's number is used again once no name and no descriptor   *)
(* holds it.                                                               *)
(***************************************************************************)
EXTENDS Integers, Sequences

CONSTANTS
    Inodes,     \* inode numbers
    Widest,     \* the largest integer, for math.MaxInt64
    Limits,     \* the values of maxBytes a reader may give
    MaxGen,     \* bound on writes
    MaxTick,    \* bound on clock ticks
    None        \* no inode

Gens == 0 .. MaxGen
Ticks == 0 .. MaxTick
Sizes == 0 .. Widest
Steps == {"poll", "open", "info", "size", "read"}

VARIABLES
    current,    \* the inode the name leads to
    gen, len,   \* by inode: who wrote its content, and its length
    mtime,      \* by inode: its modification time
    now,        \* the coarse clock
    last,       \* the last generation written
    maxBytes,   \* the reader's limit
    cancelled,  \* the reader's context is done
    step,       \* where the reader stands
    held,       \* the inode it has open
    info,       \* what its stat of the open file said
    buf,        \* the bytes read so far
    answer,     \* what its last load returned, "none" while one runs
    cache,      \* the bytes it holds, and their FileIdentity
    peak,       \* history: the longest the open file was since the open
    spoiled     \* history: of "load" and "cache", those whose inode took other content
                \* without its time moving off the recorded one

files == <<current, gen, len, mtime, now, last>>
call == <<step, held, info, buf, answer, peak>>
vars == <<files, maxBytes, cancelled, call, cache, spoiled>>

NoInfo == [ino |-> None, mtime |-> 0]
NoCache == [bytes |-> << >>, id |-> NoInfo]
Stat(i) == [ino |-> i, mtime |-> mtime[i]]

Init ==
    /\ current \in Inodes
    /\ gen = [i \in Inodes |-> 0]
    /\ len \in [Inodes -> {0, 1}] /\ \A i \in Inodes \ {current} : len[i] = 0
    /\ mtime = [i \in Inodes |-> 0]
    /\ now = 0 /\ last = 0
    /\ maxBytes \in Limits /\ cancelled = FALSE
    /\ step = "poll" /\ held = None /\ info = NoInfo /\ buf = << >>
    /\ answer = "none" /\ cache = NoCache
    /\ peak = 0 /\ spoiled = {}

-----------------------------------------------------------------------------
(* Integers and identities *)

(* int64 addition wraps around. *)
Wrapped(n) == IF n > Widest THEN n - 2 * (Widest + 1) ELSE n

(* Mutant: the wrapped sum is taken. *)
SaturateAddWraps(a, b) == Wrapped(a + b)

(* saturateAdd: a wrapped sum is below a and stands for the largest value.  *)
SaturateAdd(a, b) ==
    IF Wrapped(a + b) < a THEN Widest ELSE Wrapped(a + b)

(* Mutant: equal times are enough. *)
MatchesTime(id, other) == id # NoInfo /\ id.mtime = other.mtime

(* FileIdentity.Matches *)
Matches(id, other) == id # NoInfo /\ id.mtime = other.mtime /\ id.ino = other.ino

-----------------------------------------------------------------------------
(* The reader *)

Return(what) ==
    /\ step' = "poll"
    /\ answer' = what
    /\ held' = None /\ info' = NoInfo /\ buf' = << >>

(* A stat of the name; anything but the recorded identity is loaded.        *)
Poll ==
    /\ step = "poll" /\ current # None
    /\ ~Matches(cache.id, Stat(current))
    /\ step' = "open" /\ answer' = "none"
    /\ UNCHANGED <<files, maxBytes, cancelled, held, info, buf, peak, cache, spoiled>>

(* The entry check of the context, then the open.                           *)
Open ==
    /\ step = "open"
    /\ \/ /\ ~cancelled /\ current # None
          /\ held' = current /\ peak' = len[current]
          /\ step' = "info"
          /\ UNCHANGED <<info, buf, answer>>
       \/ cancelled /\ Return("cancelled") /\ UNCHANGED peak
       \/ ~cancelled /\ current = None /\ Return("failed") /\ UNCHANGED peak
    /\ UNCHANGED <<files, maxBytes, cancelled, cache, spoiled>>

(* The open file's FileInfo, for Identify later.                            *)
Info ==
    /\ step = "info"
    /\ info' = Stat(held)
    /\ spoiled' = spoiled \ {"load"}
    /\ step' = "size"
    /\ UNCHANGED <<files, maxBytes, cancelled, held, buf, answer, peak, cache>>

(* Mutant: a file that just fits is refused. *)
SizeStrict ==
    /\ step = "size"
    /\ \/ cancelled /\ Return("cancelled")
       \/ ~cancelled /\ len[held] >= maxBytes /\ Return("tooLarge")
       \/ /\ ~cancelled /\ len[held] < maxBytes
          /\ step' = "read"
          /\ UNCHANGED <<held, info, buf, answer>>
    /\ UNCHANGED <<files, maxBytes, cancelled, peak, cache, spoiled>>

(* ReadBoundedFile up to the read: a file that is too long is refused       *)
(* unread.                                                                  *)
Size ==
    /\ step = "size"
    /\ \/ cancelled /\ Return("cancelled")
       \/ ~cancelled /\ len[held] > maxBytes /\ Return("tooLarge")
       \/ /\ ~cancelled /\ len[held] <= maxBytes
          /\ step' = "read"
          /\ UNCHANGED <<held, info, buf, answer>>
    /\ UNCHANGED <<files, maxBytes, cancelled, peak, cache, spoiled>>

Limit == SaturateAdd(maxBytes, 1)

(* io.EOF, of the file or of the LimitReader. *)
AtEnd == Len(buf) >= len[held] \/ Len(buf) >= Limit

(* One read of io.ReadAll: any part of what is left.                        *)
Read ==
    /\ step = "read"
    /\ \E n \in 1 .. (len[held] - Len(buf)) :
          /\ Len(buf) + n <= Limit
          /\ buf' = buf \o [k \in 1 .. n |-> gen[held]]
    /\ UNCHANGED <<files, maxBytes, cancelled, step, held, info, answer, peak, cache, spoiled>>

(* The end, of the file or of the limit: a file that grew is refused, and   *)
(* what was read is cached under the identity.                              *)
ReadEnd ==
    /\ step = "read" /\ AtEnd
    /\ \/ Len(buf) > maxBytes /\ Return("tooLarge") /\ UNCHANGED <<cache, spoiled>>
       \/ /\ Len(buf) <= maxBytes /\ Return("loaded")
          /\ cache' = [bytes |-> buf, id |-> info]
          /\ spoiled' = IF "load" \in spoiled THEN {"cache"} ELSE {}
    /\ UNCHANGED <<files, maxBytes, cancelled, peak>>

(* The open, a stat of the open file or the read fails, the read at any     *)
(* byte; what had been read is dropped.                                     *)
Fail ==
    /\ step # "poll" /\ Return("failed")
    /\ UNCHANGED <<files, maxBytes, cancelled, peak, cache, spoiled>>

-----------------------------------------------------------------------------
(* The writers *)

(* Whose recorded identity now matches inode i although its content is new. *)
Spoils(i, t) ==
    {who \in {"load", "cache"} :
        LET id == IF who = "load" THEN info ELSE cache.id
        IN  id # NoInfo /\ id.ino = i /\ id.mtime = t}

(* A rename over the name, by this package (its time is now) or by one that *)
(* carries an old time forward.                                             *)
Publish(i, n, t) ==
    /\ i \notin {current, held} /\ t <= now
    /\ last < MaxGen /\ last' = last + 1
    /\ current' = i
    /\ gen' = [gen EXCEPT ![i] = last'] /\ len' = [len EXCEPT ![i] = n]
    /\ mtime' = [mtime EXCEPT ![i] = t]
    /\ spoiled' = spoiled \cup Spoils(i, t)
    /\ UNCHANGED <<now, maxBytes, cancelled, call, cache>>

(* A writer that truncates, overwrites or extends the file itself.          *)
Rewrite(n) ==
    /\ current # None /\ last < MaxGen /\ last' = last + 1
    /\ gen' = [gen EXCEPT ![current] = last'] /\ len' = [len EXCEPT ![current] = n]
    /\ mtime' = [mtime EXCEPT ![current] = now]
    /\ peak' = IF current = held /\ n > peak THEN n ELSE peak
    /\ spoiled' = spoiled \cup Spoils(current, now)
    /\ UNCHANGED <<current, now, maxBytes, cancelled, step, held, info, buf, answer, cache>>

Remove ==
    /\ current # None /\ last < MaxGen /\ last' = last + 1
    /\ current' = None
    /\ UNCHANGED <<gen, len, mtime, now, maxBytes, cancelled, call, cache, spoiled>>

Tick ==
    /\ now < MaxTick /\ now' = now + 1
    /\ UNCHANGED <<current, gen, len, mtime, last, maxBytes, cancelled, call, cache, spoiled>>

Cancel ==
    /\ ~cancelled /\ cancelled' = TRUE
    /\ UNCHANGED <<files, maxBytes, call, cache, spoiled>>

-----------------------------------------------------------------------------
Reader == Poll \/ Open \/ Info \/ Size \/ Read \/ ReadEnd

Next ==
    \/ Reader
    \/ Fail
    \/ \E i \in Inodes, n \in Sizes, t \in Ticks : Publish(i, n, t)
    \/ \E n \in Sizes : Rewrite(n)
    \/ Remove \/ Tick \/ Cancel

Spec == Init /\ [][Next]_vars

(* The reader keeps polling and reading; writers owe nothing.               *)
FairSpec == Spec /\ WF_vars(Reader)

-----------------------------------------------------------------------------
(* Properties *)

(* Every variable has its type; nothing longer than the limit is cached.    *)
TypeOK ==
    /\ current \in Inodes \cup {None}
    /\ gen \in [Inodes -> Gens] /\ len \in [Inodes -> Sizes]
    /\ mtime \in [Inodes -> Ticks]
    /\ now \in Ticks /\ last \in Gens
    /\ maxBytes \in Limits /\ cancelled \in BOOLEAN
    /\ step \in Steps /\ held \in Inodes \cup {None}
    /\ info \in [ino : Inodes \cup {None}, mtime : Ticks]
    /\ buf \in Seq(Gens) /\ cache.bytes \in Seq(Gens)
    /\ cache.id \in [ino : Inodes \cup {None}, mtime : Ticks]
    /\ answer \in {"none", "loaded", "tooLarge", "cancelled", "failed"}
    /\ peak \in Sizes /\ spoiled \subseteq {"load", "cache"}
    /\ Len(cache.bytes) <= maxBytes \/ cache = NoCache

(* A poll that reports no change is right: what is cached is the whole of   *)
(* what is at the path, neither a part nor mixed from two writes nor an     *)
(* older generation - however publications, times carried back and rewrites *)
(* fell into the load.  Excepted is an inode that took other content        *)
(* without its time moving off the recorded one: a rewrite in the same      *)
(* tick, or its number given to a later file of the same time.              *)
FreshIsCurrent ==
    current # None /\ Matches(cache.id, Stat(current)) /\ "cache" \notin spoiled =>
        cache.bytes = [k \in 1 .. len[current] |-> gen[current]]

(* A call that returns data has read up to the end of the file: the limit   *)
(* refuses what is too long and never cuts it short, at the edge of the     *)
(* integers as elsewhere.  And what it refuses was longer than the limit at *)
(* some moment while it was open, however it grew and shrank.               *)
LimitIsExact ==
    [][answer' # answer \/ (step = "read" /\ step' = "poll") =>
         /\ answer' = "loaded" => Len(buf) >= len[held]
         /\ answer' = "tooLarge" => peak > maxBytes]_vars

(* Once the writers rest, a reader that keeps polling comes to hold the     *)
(* file's identity, unless the file is gone, too long for it, its context   *)
(* done or its loads fail again and again: one that failed leaves nothing   *)
(* behind that would keep the next from succeeding.                         *)
CatchesUp ==
    <>[][answer' = "failed" => answer = "failed"]_vars =>
    <>[](current = None \/ cancelled \/ len[current] > maxBytes \/ Matches(cache.id, Stat(current)))

=============================================================================
