----------------------------- MODULE RootAccess -----------------------------
(***************************************************************************)
(* The operations that name a file below a directory and must not be led   *)
(* astray on the way: OpenRegularInRoot, OpenRegular and                   *)
(* OpenRegularInRootNoFollow (openregular.go), OpenParentInRoot and        *)
(* RemoveFileInRoot (removeroot.go): one call, of any of them, while       *)
(* others move, replace and remove whatever the names lead to.             *)
(*                                                                         *)
(* What a descriptor is open on never changes, so an open and the fstat of *)
(* what it returned are one step; an Lstat of a name and the open of that  *)
(* name are two.                                                           *)
(***************************************************************************)
EXTENDS Naturals, Sequences

CONSTANTS
    Root,      \* the directory the caller holds open
    Dirs,      \* directories that may be found below it
    Files,     \* regular files
    Others,    \* FIFOs and devices
    Links,     \* symlinks, each to the name Alias in Root
    Alias,
    Slots,     \* the names there are: pairs of a directory and a name
    Paths,     \* the paths a caller may name: nonempty sequences of names
    None       \* nothing

Objects == Dirs \cup Files \cup Others \cup Links
Kinds == {"openInRoot", "openPath", "openNoFollow", "remove"}

ASSUME KindsDisjoint ==
    /\ Dirs \cap (Files \cup Others \cup Links) = {} /\ Files \cap (Others \cup Links) = {}
    /\ Others \cap Links = {}
ASSUME NoneAssumption == None \notin Objects \cup {Root} /\ Root \notin Objects
ASSUME SlotsAssumption == \A s \in Slots : s = <<s[1], s[2]>> /\ s[1] \in Dirs \cup {Root}
ASSUME PathsAssumption == Paths \subseteq Seq({s[2] : s \in Slots}) \ {<<>>}

PCs == {"begin", "returned", "inspect", "open", "pin", "enter", "wait", "look", "unlink"}
Outcomes == {"none", "opened", "removed", "missing", "symlink", "notDir", "notRegular", "raced", "failed"}

VARIABLES
    entry,     \* what is under each name
    pc,        \* where the call stands
    kind,      \* which function was called
    path,      \* the path it was given
    left,      \* what pinDirInRoot still has before it, and the base name
    at,        \* the directory the descent holds open
    looked,    \* what its last Lstat found
    got,       \* the file handed to the caller
    outcome,   \* how the last call ended
    found,     \* history: what was itself under the name, where a link is refused
    crossed,   \* history: the descent went through something it had not inspected
    gone,      \* history: what the call unlinked
    risked,    \* history: what came under a name between its Lstat and its unlink
    disturbed  \* history: whether others changed anything during the call

call == <<kind, path>>
ctl == <<left, at, looked, got, outcome>>
ghost == <<found, crossed, gone, risked>>
vars == <<entry, pc, call, ctl, ghost, disturbed>>

-----------------------------------------------------------------------------
(* Names *)

Lookup(d, n) == IF <<d, n>> \in Slots THEN entry[<<d, n>>] ELSE None

(* What an open of o leads to: a symlink is followed, two are not. *)
Follow(o) ==
    IF o \notin Links THEN o
    ELSE IF Lookup(Root, Alias) \in Links THEN None ELSE Lookup(Root, Alias)

(* The directory the first k names of p lead to, symlinks followed. *)
DirAt(p, k) ==
    LET d[i \in 0..k] == IF i = 0 THEN Root
                         ELSE IF d[i - 1] \in Dirs \cup {Root} THEN Follow(Lookup(d[i - 1], p[i]))
                         ELSE None
    IN d[k]

(* What is itself under the path, its last name not followed. *)
Named(p) == LET d == DirAt(p, Len(p) - 1) IN IF d \in Dirs \cup {Root} THEN Lookup(d, p[Len(p)]) ELSE None

(* The same by real directories only. *)
PinnedAt(p) ==
    LET d[i \in 0..(Len(p) - 1)] == IF i = 0 THEN Root
                                    ELSE IF d[i - 1] \in Dirs \cup {Root} THEN Lookup(d[i - 1], p[i])
                                    ELSE d[i - 1]
    IN d[Len(p) - 1]

(* A directory is in one place, and not below itself; nothing is in two.    *)
WellFormed(e) ==
    /\ \A s, t \in Slots : e[s] = e[t] /\ e[s] # None => s = t
    /\ \A s, t \in Slots : ~(e[s] \in Dirs /\ e[s] = t[1] /\ e[t] = s[1])
    /\ \A s \in Slots : e[s] # s[1]

Init ==
    /\ entry \in {e \in [Slots -> Objects \cup {None}] : WellFormed(e)}
    /\ pc = "begin" /\ kind = "remove" /\ path = <<>>
    /\ left = <<>> /\ at = None /\ looked = None /\ got = None /\ outcome = "none"
    /\ found = None /\ crossed = FALSE /\ gone = None /\ risked = {}
    /\ disturbed = FALSE

-----------------------------------------------------------------------------
(* Helpers *)

GoTo(label) == pc' = label /\ UNCHANGED outcome

(* The call returns and closes the directory it holds. *)
Return(how) ==
    /\ pc' = "returned"
    /\ outcome' = how

Begin(k, p) ==
    /\ pc = "begin"
    /\ kind' = k /\ path' = p
    /\ left' = p /\ at' = Root
    /\ pc' = CASE k = "openNoFollow" -> "inspect"
               [] k = "remove" -> IF Len(p) = 1 THEN "look" ELSE "pin"
               [] OTHER -> "open"
    /\ UNCHANGED <<entry, looked, got, outcome, ghost, disturbed>>

-----------------------------------------------------------------------------
(* The openers *)

(* OpenRegularInRootNoFollow: Lstat, through the root. *)
Inspect ==
    /\ pc = "inspect"
    /\ \/ Named(path) = None /\ Return("missing") /\ UNCHANGED <<looked, found>>
       \/ Named(path) \in Links /\ Return("symlink") /\ UNCHANGED <<looked, found>>
       \/ /\ Named(path) \in Objects \ Links
          /\ looked' = Named(path) /\ found' = Named(path)
          /\ GoTo("open")
       \/ Return("failed") /\ UNCHANGED <<looked, found>>
    /\ UNCHANGED <<entry, call, left, at, got, crossed, gone, risked, disturbed>>

(* What the open leads to: O_NOFOLLOW, of OpenRegular, leads to the symlink *)
(* itself, and fails there.                                                 *)
Opened == IF kind = "openPath" THEN Named(path) ELSE Follow(Named(path))

(* Mutant: the open waits for a FIFO's other end. *)
OpenBlocks ==
    /\ pc = "open" /\ Opened \notin Others
    /\ Return(IF Opened \in Files THEN "opened" ELSE "failed")
    /\ UNCHANGED <<entry, call, left, at, looked, got, ghost, disturbed>>

(* Mutant: what was opened is not compared with what was inspected. *)
OpenUnconfirmed ==
    /\ pc = "open" /\ Opened \in Files
    /\ Return("opened") /\ got' = Opened
    /\ found' = IF kind = "openPath" THEN Named(path) ELSE found
    /\ UNCHANGED <<entry, call, left, at, looked, crossed, gone, risked, disturbed>>

(* The open, which does not wait for a FIFO's other end, and the fstat of   *)
(* what it returned; NoFollow asks for identity before kind.                *)
Open ==
    /\ pc = "open"
    /\ \/ Opened = None /\ Return("missing") /\ UNCHANGED <<got, found>>
       \/ Opened \in Links /\ Return("symlink") /\ UNCHANGED <<got, found>>
       \/ /\ Opened \in Objects \ Links
          /\ found' = IF kind = "openPath" THEN Named(path) ELSE found
          /\ \/ kind = "openNoFollow" /\ Opened # looked /\ Return("raced") /\ UNCHANGED got
             \/ /\ kind = "openNoFollow" => Opened = looked
                /\ \/ Opened \notin Files /\ Return("notRegular") /\ UNCHANGED got
                   \/ Opened \in Files /\ Return("opened") /\ got' = Opened
       \/ Return("failed") /\ UNCHANGED <<got, found>>
    /\ UNCHANGED <<entry, call, left, at, looked, crossed, gone, risked, disturbed>>

-----------------------------------------------------------------------------
(* OpenParentInRoot and RemoveFileInRoot *)

(* pinChildInRoot, its Lstat: a component must itself be a directory. *)
Pin ==
    /\ pc = "pin"
    /\ LET o == Lookup(at, Head(left)) IN
        \/ o = None /\ Return("missing") /\ UNCHANGED looked
        \/ o \in Objects \ Dirs /\ Return("notDir") /\ UNCHANGED looked
        \/ o \in Dirs /\ looked' = o /\ GoTo("enter")
        \/ Return("failed") /\ UNCHANGED looked
    /\ UNCHANGED <<entry, call, left, at, got, ghost, disturbed>>

(* Mutant: what was opened is not compared with what was inspected. *)
EnterUnconfirmed ==
    /\ pc = "enter"
    /\ LET o == Follow(Lookup(at, Head(left))) IN
        /\ o \in Dirs
        /\ at' = o
        /\ left' = Tail(left)
        /\ crossed' = (crossed \/ o # looked)
        /\ GoTo(IF Len(left) = 2 THEN "look" ELSE "pin")
    /\ UNCHANGED <<entry, call, looked, got, found, gone, risked, disturbed>>

(* pinChildInRoot: OpenRoot follows a symlink that has come under the name, *)
(* and waits for the other end of a FIFO that has; its "." must be what was *)
(* inspected.  The directory above is closed.                               *)
Enter ==
    /\ pc = "enter"
    /\ LET o == Follow(Lookup(at, Head(left))) IN
        \/ o = None /\ Return("missing") /\ UNCHANGED <<at, left, crossed>>
        \/ o \in Objects \ Dirs /\ Return("notDir") /\ UNCHANGED <<at, left, crossed>>
        \/ o \in Others /\ GoTo("wait") /\ UNCHANGED <<at, left, crossed>>
        \/ o \in Dirs /\ o # looked /\ Return("raced") /\ UNCHANGED <<at, left, crossed>>
        \/ /\ o \in Dirs /\ o = looked
           /\ at' = o
           /\ left' = Tail(left)
           /\ crossed' = (crossed \/ o # looked)
           /\ GoTo(IF Len(left) = 2 THEN "look" ELSE "pin")
        \/ Return("failed") /\ UNCHANGED <<at, left, crossed>>
    /\ UNCHANGED <<entry, call, looked, got, found, gone, risked, disturbed>>

(* Mutant: Stat in the place of Lstat. *)
LookFollows ==
    /\ pc = "look"
    /\ Follow(Lookup(at, Head(left))) \in Files
    /\ looked' = Lookup(at, Head(left)) /\ GoTo("unlink")
    /\ UNCHANGED <<entry, call, left, at, got, ghost, disturbed>>

(* RemoveFileInRoot: only a regular file, itself under the base name. *)
Look ==
    /\ pc = "look"
    /\ LET o == Lookup(at, Head(left)) IN
        \/ o = None /\ Return("missing") /\ UNCHANGED looked
        \/ o \in Objects \ Files /\ Return("notRegular") /\ UNCHANGED looked
        \/ o \in Files /\ looked' = o /\ GoTo("unlink")
        \/ Return("failed") /\ UNCHANGED looked
    /\ UNCHANGED <<entry, call, left, at, got, ghost, disturbed>>

(* Remove, through the pinned parent: whatever is under the base name by    *)
(* now; a directory goes only if it is empty.                               *)
Unlink ==
    /\ pc = "unlink"
    /\ LET o == Lookup(at, Head(left)) IN
        \/ o = None /\ Return("missing") /\ UNCHANGED <<entry, gone>>
        \/ /\ o \in Objects
           /\ o \in Dirs => \A s \in Slots : s[1] = o => entry[s] = None
           /\ entry' = [entry EXCEPT ![<<at, Head(left)>>] = None]
           /\ gone' = o
           /\ Return("removed")
        \/ Return("failed") /\ UNCHANGED <<entry, gone>>
    /\ UNCHANGED <<call, left, at, looked, got, found, crossed, risked, disturbed>>

-----------------------------------------------------------------------------
(* The environment *)

(* What is under name s is removed, or replaced by o, which is moved there  *)
(* from wherever it was or is new.  The call may begin on any tree: what is *)
(* changed before it need not be told.                                      *)
Change(s, o) ==
    /\ pc \notin {"begin", "returned"}
    /\ entry[s] # o /\ o # s[1]
    /\ o \in Dirs => \A t \in Slots : t[1] = o => entry[t] # s[1]
    /\ entry' = [t \in Slots |-> IF t = s THEN o ELSE IF entry[t] = o THEN None ELSE entry[t]]
    /\ disturbed' = TRUE
    /\ risked' = IF pc = "unlink" /\ s = <<at, Head(left)>> /\ o # None THEN risked \cup {o} ELSE risked
    /\ UNCHANGED <<pc, call, ctl, found, crossed, gone>>

(* Somebody opens the other end of the FIFO that OpenRoot waits for; what   *)
(* it has opened then is not a directory.                                   *)
OtherEndOpens ==
    /\ pc = "wait"
    /\ Return("notDir")
    /\ UNCHANGED <<entry, call, left, at, looked, got, ghost, disturbed>>

-----------------------------------------------------------------------------
Step == Inspect \/ Open \/ Pin \/ Enter \/ Look \/ Unlink

Next ==
    \/ \E k \in Kinds, p \in Paths : Begin(k, p)
    \/ Step
    \/ OtherEndOpens
    \/ \E s \in Slots, o \in Objects \cup {None} : Change(s, o)

Spec == Init /\ [][Next]_vars

(* A call goes on, and its system calls return; that the other end of a     *)
(* FIFO is ever opened is not assumed.                                      *)
FairSpec == Spec /\ WF_vars(Step)

-----------------------------------------------------------------------------
(* Properties *)

(* Every variable has its type, and a call holds a directory throughout. *)
TypeOK ==
    /\ entry \in [Slots -> Objects \cup {None}]
    /\ pc \in PCs /\ kind \in Kinds /\ path \in Paths \cup {<<>>}
    /\ at \in Dirs \cup {Root, None} /\ looked \in Objects \cup {None} /\ got \in Files \cup {None}
    /\ outcome \in Outcomes /\ found \in Objects \cup {None} /\ gone \in Objects \cup {None}
    /\ crossed \in BOOLEAN /\ disturbed \in BOOLEAN /\ risked \subseteq Objects
    /\ pc # "begin" => at # None /\ path \in Paths
    /\ pc \in {"pin", "enter"} => Len(left) > 1
    /\ pc \in {"look", "unlink"} => Len(left) = 1

(* OpenRegular and OpenRegularInRootNoFollow hand out the very file that    *)
(* was under the name when it was inspected, never one behind a symlink,    *)
(* however the name is repointed before the open.                           *)
NoLinkOpened ==
    got # None /\ found # None => got = found

(* The descent goes through nothing but the directories it inspected, and   *)
(* what RemoveFileInRoot unlinks is the regular file it found at the end of *)
(* it: all that escapes is what comes under the base name of the pinned     *)
(* directory between its Lstat and its unlink.                              *)
RemovesWhatItFound ==
    /\ ~crossed
    /\ gone # None => gone \in risked \/ (gone = looked /\ gone \in Files)

(* What each function promises of a tree that is left alone. *)
Promised(k, p) ==
    LET o == Named(p)
        d == PinnedAt(p)
    IN CASE k = "openInRoot" ->
              IF Follow(o) = None THEN "missing" ELSE IF Follow(o) \in Files THEN "opened" ELSE "notRegular"
         [] k \in {"openPath", "openNoFollow"} ->
              IF o = None THEN "missing" ELSE IF o \in Links THEN "symlink"
              ELSE IF o \in Files THEN "opened" ELSE "notRegular"
         [] OTHER ->
              IF d = None THEN "missing" ELSE IF d \notin Dirs \cup {Root} THEN "notDir"
              ELSE IF Lookup(d, p[Len(p)]) = None THEN "missing"
              ELSE IF Lookup(d, p[Len(p)]) \in Files THEN "removed" ELSE "notRegular"

(* A call that meets neither another writer nor an error of the file system *)
(* answers what is promised of the tree it met: above all, it never takes a *)
(* tree that nobody touched for one that was changed under it.              *)
AnswersAsPromised ==
    [][~disturbed /\ outcome' \notin {"none", "failed"}
          => outcome' = Promised(kind, path)]_vars

(* A call returns, whatever is found, or comes, under the name.  The one    *)
(* call that may be kept waiting is a removal, in a tree that others        *)
(* changed: OpenRoot has no O_NONBLOCK, and a FIFO may have come under a    *)
(* component after its Lstat.                                               *)
CallReturns ==
    pc # "begin" ~> pc = "returned" \/ (pc = "wait" /\ kind = "remove" /\ disturbed)

=============================================================================
