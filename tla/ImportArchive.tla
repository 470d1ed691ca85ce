---------------------------- MODULE ImportArchive ----------------------------
(***************************************************************************)
(* How tx9 import decides whether to restore a .tx9 file: it reads the     *)
(* metadata, takes the box lock, extracts the payload, decrypts it, and    *)
(* hands it to ValidateDataTar, whose passes over the archive's members    *)
(* and whose walk along their links are modelled step by step.             *)
(*                                                                         *)
(* A text is the sequence of segments between its slashes, with a flag for *)
(* the control characters in it; a member's key is the path it stands for, *)
(* a sequence of names, the root being << >>.                              *)
(***************************************************************************)
EXTENDS Integers, Sequences, FiniteSets, SequencesExt

CONSTANTS
    Names,         \* what stands between two slashes of a text
    Archives,      \* the member lists payloads can have: sequences of headers
    FormatVersion, \* the container version this tx9 writes
    MaxMembers,    \* 1,000,000 in the code
    MaxLinkHops,   \* 40
    StepsBase,     \* 32: iterations of one walk ...
    StepsPerMember, \* 8: ... and how many more for each member
    Required       \* sequence of the directories an archive must have

\* A tar header: a link's target is a text like its name.
Paths   == Seq(Names)
Texts   == [clean : BOOLEAN, segments : Paths]
Headers == [name : Texts, type : {"dir", "file", "symlink", "hardlink", "special"},
            target : Texts]

ASSUME ImportAssumption ==
    /\ FormatVersion \in Nat \ {0}
    /\ {MaxMembers, MaxLinkHops, StepsBase, StepsPerMember} \subseteq Nat
    /\ {"", ".", ".."} \subseteq Names
    /\ Archives \subseteq Seq(Headers)
    /\ Required \in Seq(Paths)

VARIABLES
    pc,        \* where the import is
    verdict,   \* how it ended
    container, \* the .tx9 file
    meta,      \* the metadata the import goes by
    content,   \* what the extracted file, later the decrypted one, holds
    headers,   \* the payload's members in order
    at,        \* the member a pass is at
    byName,    \* the index: key -> member
    parents,   \* keys of parents resolved before
    walk       \* the walk of resolve that is under way

index == <<headers, byName>>
vars  == <<pc, verdict, container, meta, content, headers, at, byName, parents, walk>>

-----------------------------------------------------------------------------
(* The container: a tar of metadata.json and one data member.              *)

MemberNames == {"metadata.json", "data.tar.gz", "data.tar.gz.gpg"}
Outer       == [name : MemberNames, regular : BOOLEAN]

\* "gzip" is a compressed tar, "gpg" one encrypted with the user's
\* passphrase, "other" anything else, another passphrase included.
Contents == {"gzip", "gpg", "other"}

Container == [members : BoundedSeq(Outer, 3), version : 0 .. FormatVersion + 1,
              encrypted : BOOLEAN, content : Contents]

DataMemberName(encrypted) == IF encrypted THEN "data.tar.gz.gpg" ELSE "data.tar.gz"

\* What backup writes, for a payload that is c.
WriteTx9(encrypted, c) ==
    [members |-> <<[name |-> "metadata.json", regular |-> TRUE],
                   [name |-> DataMemberName(encrypted), regular |-> TRUE]>>,
     version |-> FormatVersion, encrypted |-> encrypted, content |-> c]

\* Backups that can be there, those made with another passphrase included.
Backups == {WriteTx9(FALSE, "gzip"), WriteTx9(TRUE, "gpg"), WriteTx9(TRUE, "other")}

\* readMetadataMember: the first member, and a version this tx9 knows.  One
\* that is too large or no JSON counts as not regular.
MetadataReadable(c) ==
    /\ c.members # << >>
    /\ c.members[1] = [name |-> "metadata.json", regular |-> TRUE]
    /\ c.version \in 1 .. FormatVersion

\* Mutant: the trailer is not read.
DataReadableNoTrailer(c) ==
    /\ MetadataReadable(c)
    /\ Len(c.members) >= 2
    /\ c.members[2] = [name |-> DataMemberName(c.encrypted), regular |-> TRUE]

\* ExtractData's checks of the second member and of the end.
DataReadable(c) ==
    /\ MetadataReadable(c)
    /\ Len(c.members) = 2
    /\ c.members[2] = [name |-> DataMemberName(c.encrypted), regular |-> TRUE]

-----------------------------------------------------------------------------
(* Texts, keys and members.                                                *)

Absolute(text) == Len(text.segments) > 1 /\ text.segments[1] = ""

\* posixPartsRaw drops the empty segments; the callers drop ".".
Parts(text) ==
    LET upTo[n \in 0 .. Len(text.segments)] ==
          CASE n = 0 -> << >>
            [] n > 0 /\ text.segments[n] \in {"", "."} -> upTo[n - 1]
            [] OTHER -> Append(upTo[n - 1], text.segments[n])
    IN upTo[Len(text.segments)]

Key(h)     == Parts(h.name)
IsLink(m)  == m.type \in {"symlink", "hardlink"}
Known(key) == key \in DOMAIN byName
LinkAt(key) == Known(key) /\ IsLink(byName[key])
DirAt(key)  == Known(key) /\ byName[key].type = "dir"

\* No path is this one: a walk that left the archive's root.
Outside == <<"..">>

\* validateLinkTarget: the stack of names while walking the target's text.
Push(stack, part) ==
    CASE stack = Outside -> stack
      [] stack # Outside /\ part # ".." -> Append(stack, part)
      [] stack = << >> /\ part = ".."   -> Outside
      [] OTHER -> Front(stack)

Stack(base, parts) == FoldLeft(Push, base, parts)

TargetAllowed(h) ==
    /\ h.target.clean
    /\ ~Absolute(h.target)
    /\ Parts(h.target) # << >>
    /\ Stack(IF h.type = "symlink" THEN Front(Key(h)) ELSE << >>, Parts(h.target))
         # Outside

MemberAllowed(h) ==
    /\ h.name.clean
    /\ ".." \notin ToSet(Parts(h.name))
    /\ ~Absolute(h.name)
    /\ ~Known(Key(h))
    /\ h.type # "special"
    /\ Key(h) = << >> => h.type = "dir"
    /\ IsLink(h) => TargetAllowed(h)

-----------------------------------------------------------------------------
NoWalk == [key |-> << >>, pending |-> << >>, resolved |-> << >>,
           seen |-> {}, steps |-> 0, hops |-> 0]

Verdicts == {"none", "accepted", "failed", "container", "content", "members",
             "malformed", "cycle", "hops", "steps"}
Steps    == {"metadata", "closed", "locked", "decrypt", "read", "index", "nesting", "required",
             "parent", "parentWalk", "link", "linkWalk", "end"}

MaxSteps == StepsPerMember * Len(headers) + StepsBase

TypeOK ==
    /\ pc \in Steps
    /\ verdict \in Verdicts
    /\ container.members \in Seq(Outer) /\ container.content \in Contents
    /\ meta \in [encrypted : BOOLEAN]
    /\ content \in Contents
    /\ at \in 1 .. MaxMembers + 1
    /\ \A key \in DOMAIN byName : key \in Paths /\ byName[key] \in ToSet(headers)
    /\ parents \subseteq DOMAIN byName
    /\ walk.key \in Paths /\ walk.pending \in Paths /\ walk.resolved \in Paths
    /\ walk.hops \in 0 .. MaxLinkHops
    /\ walk.steps \in 0 .. MaxSteps
    /\ pc = "end" <=> verdict # "none"

Init ==
    /\ pc = "metadata" /\ verdict = "none"
    /\ container \in Container
    /\ meta = [encrypted |-> FALSE]
    /\ content = "other"
    /\ headers = << >> /\ at = 1
    /\ byName = << >>
    /\ parents = {}
    /\ walk = NoWalk

Goto(step) == pc' = step /\ UNCHANGED verdict
End(why)   == pc' = "end" /\ verdict' = why

-----------------------------------------------------------------------------
(* The file.  A read or a temporary file may fail at each of these steps.  *)

ReadMetadata ==
    /\ pc = "metadata"
    /\ \/ MetadataReadable(container) /\ Goto("closed")
       \/ ~MetadataReadable(container) /\ End("container")
       \/ End("failed")
    /\ meta' = [encrypted |-> container.encrypted]
    /\ UNCHANGED <<container, content, index, at, parents, walk>>

\* The file is closed until the lock is held: by then it is the same or any other.
\* A box of that name, or objects under it, end the import here.
AwaitLock ==
    /\ pc = "closed"
    /\ \/ container' \in Container /\ Goto("locked")
       \/ End("failed") /\ UNCHANGED container
    /\ UNCHANGED <<meta, content, index, at, parents, walk>>

\* ExtractData reads the metadata again, and import ignores what it returns.
ExtractData ==
    /\ pc = "locked"
    /\ \/ DataReadable(container) /\ Goto(IF meta.encrypted THEN "decrypt" ELSE "read")
       \/ ~DataReadable(container) /\ End("container")
       \/ End("failed")
    /\ content' = container.content
    /\ UNCHANGED <<container, meta, index, at, parents, walk>>

Decrypt ==
    /\ pc = "decrypt"
    /\ \/ content = "gpg" /\ content' = "gzip" /\ Goto("read")
       \/ content # "gpg" /\ End("content") /\ UNCHANGED content
       \/ End("failed") /\ UNCHANGED content
    /\ UNCHANGED <<container, meta, index, at, parents, walk>>

\* The member list is read to its end, and the stream to its checksum.
ReadMembers ==
    /\ pc = "read"
    /\ \/ /\ content = "gzip"
          /\ headers' \in Archives
          /\ IF Len(headers') > MaxMembers THEN End("members")
             ELSE IF headers' = << >> THEN End("malformed") ELSE Goto("index")
       \/ content # "gzip" /\ End("content") /\ UNCHANGED headers
       \/ End("failed") /\ UNCHANGED headers
    /\ UNCHANGED <<container, meta, content, at, byName, parents, walk>>

-----------------------------------------------------------------------------
(* The passes over the members.                                            *)

\* First pass: every member for itself, and the index.
IndexMember ==
    /\ pc = "index"
    /\ at <= Len(headers)
    /\ LET h == headers[at] IN
         IF MemberAllowed(h)
         THEN /\ byName' = [k \in DOMAIN byName \cup {Key(h)} |->
                              IF k = Key(h) THEN h ELSE byName[k]]
              /\ Goto("index")
         ELSE UNCHANGED byName /\ End("malformed")
    /\ at' = at + 1
    /\ UNCHANGED <<container, meta, content, headers, parents, walk>>

Indexed ==
    /\ pc = "index"
    /\ at > Len(headers)
    /\ Goto("nesting")
    /\ at' = 1
    /\ UNCHANGED <<container, meta, content, index, parents, walk>>

Beneath(key) == {SubSeq(key, 1, n) : n \in 1 .. Len(key) - 1}

\* Second pass: no member has a link above it.
CheckNesting ==
    /\ pc = "nesting"
    /\ IF \E key \in DOMAIN byName : \E above \in Beneath(key) : LinkAt(above)
       THEN End("malformed")
       ELSE Goto("required")
    /\ UNCHANGED <<container, meta, content, index, at, parents, walk>>

CheckRequired ==
    /\ pc = "required"
    /\ IF \A key \in ToSet(Required) : DirAt(key) THEN Goto("parent") ELSE End("malformed")
    /\ UNCHANGED <<container, meta, content, index, at, parents, walk>>

\* The head of the third pass's loop; the parent is walked to if it is new.
CheckMember ==
    /\ pc = "parent"
    /\ at <= Len(headers)
    /\ LET key == Key(headers[at]) IN
         CASE key = << >> ->
                /\ Goto("parent") /\ at' = at + 1
                /\ UNCHANGED walk
           [] Len(key) > 1 /\ Front(key) \notin parents ->
                /\ Goto("parentWalk")
                /\ walk' = [NoWalk EXCEPT !.key = Front(key), !.pending = Front(key)]
                /\ UNCHANGED at
           [] OTHER -> Goto("link") /\ UNCHANGED <<at, walk>>
    /\ UNCHANGED <<container, meta, content, index, parents>>

Accept ==
    /\ pc = "parent"
    /\ at > Len(headers)
    /\ End("accepted")
    /\ UNCHANGED <<container, meta, content, index, at, parents, walk>>

\* Links are walked to their end, too.
CheckLink ==
    /\ pc = "link"
    /\ LET key == Key(headers[at]) IN
         IF LinkAt(key)
         THEN /\ walk' = [NoWalk EXCEPT !.key = key, !.pending = key]
              /\ Goto("linkWalk")
              /\ UNCHANGED at
         ELSE Goto("parent") /\ at' = at + 1 /\ UNCHANGED walk
    /\ UNCHANGED <<container, meta, content, index, parents>>

-----------------------------------------------------------------------------
(* resolve.                                                                *)

Walking == pc \in {"parentWalk", "linkWalk"}
State   == <<walk.resolved, walk.pending>>

\* Mutant: every target is read from the link's own directory.
BaseOwn(w, link) == w.resolved

\* A hard link's target is read from the archive's root.
Base(w, link) == IF link.type = "symlink" THEN w.resolved ELSE << >>

HopsLeft(w) == w.hops + 1 <= MaxLinkHops

\* One component of what is pending: the registers after it, or the verdict.
Step(w) ==
    LET part == Head(w.pending)
        rest == Tail(w.pending)
        here == Append(w.resolved, part)
        On(pending, resolved, hops) ==
            [why |-> "none", to |-> [w EXCEPT !.pending = pending, !.resolved = resolved,
                                              !.hops = hops]]
        Refuse(why) == [why |-> why]
    IN CASE part = ".." ->
              IF w.resolved # << >> THEN On(rest, Front(w.resolved), w.hops)
                                    ELSE Refuse("malformed")
         [] part # ".." /\ LinkAt(here) ->
              IF HopsLeft(w)
              THEN On(Base(w, byName[here]) \o Parts(byName[here].target) \o rest,
                      << >>, w.hops + 1)
              ELSE Refuse("hops")
         [] OTHER ->
              IF rest = << >> \/ DirAt(here) THEN On(rest, here, w.hops)
                                            ELSE Refuse("malformed")

\* Mutant: the bound is on the length of the path instead of the iterations, and
\* nothing remembers the states seen.
ResolveStepByLength ==
    /\ Walking
    /\ walk.pending # << >>
    /\ LET s == Step([walk EXCEPT !.hops = 0])
       IN IF s.why = "none" /\ Len(s.to.pending) <= MaxSteps
          THEN walk' = s.to /\ UNCHANGED <<pc, verdict>>
          ELSE End(IF s.why = "none" THEN "steps" ELSE s.why) /\ UNCHANGED walk
    /\ UNCHANGED <<container, meta, content, index, at, parents>>

\* The loop's body: the bound on the iterations and the cycle check come first.
ResolveStep ==
    /\ Walking
    /\ walk.pending # << >>
    /\ CASE walk.steps + 1 > MaxSteps ->
              End("steps") /\ UNCHANGED walk
         [] walk.steps + 1 <= MaxSteps /\ State \in walk.seen ->
              End("cycle") /\ UNCHANGED walk
         [] OTHER ->
              LET w == [walk EXCEPT !.steps = @ + 1, !.seen = @ \cup {State}]
                  s == Step(w)
              IN IF s.why = "none" THEN walk' = s.to /\ UNCHANGED <<pc, verdict>>
                                   ELSE End(s.why) /\ UNCHANGED walk
    /\ UNCHANGED <<container, meta, content, index, at, parents>>

\* The walk ends at a member that exists; then the caller's check of its type.
ParentResolved ==
    /\ pc = "parentWalk"
    /\ walk.pending = << >>
    /\ IF DirAt(walk.resolved)
       THEN parents' = parents \cup {walk.key} /\ Goto("link")
       ELSE UNCHANGED parents /\ End("malformed")
    /\ walk' = NoWalk
    /\ UNCHANGED <<container, meta, content, index, at>>

LinkResolved ==
    /\ pc = "linkWalk"
    /\ walk.pending = << >>
    /\ IF /\ Known(walk.resolved)
          /\ byName[walk.key].type = "hardlink" => byName[walk.resolved].type = "file"
       THEN Goto("parent") /\ at' = at + 1
       ELSE End("malformed") /\ UNCHANGED at
    /\ walk' = NoWalk
    /\ UNCHANGED <<container, meta, content, index, parents>>

-----------------------------------------------------------------------------
Validate ==
    \/ IndexMember \/ Indexed \/ CheckNesting \/ CheckRequired
    \/ CheckMember \/ CheckLink \/ ResolveStep \/ ParentResolved \/ LinkResolved \/ Accept

Next == ReadMetadata \/ AwaitLock \/ ExtractData \/ Decrypt \/ ReadMembers \/ Validate

\* ValidateDataTar is a loop over what is in memory: nothing can hold it up.
Spec == Init /\ [][Next]_vars /\ WF_vars(Validate)

-----------------------------------------------------------------------------
(* What an importable archive is, told by the tree it describes.           *)

\* The file a name stands for in a tree of members hs: links are followed as
\* the kernel does, each target walked to its end before the rest of the
\* path, at most MaxLinkHops of them.
Member(hs, key)  == {h \in ToSet(hs) : Key(h) = key}
HasDir(hs, key)  == \E h \in Member(hs, key) : h.type = "dir"
HasLink(hs, key) == \E h \in Member(hs, key) : IsLink(h)
TheLink(hs, key) == CHOOSE h \in Member(hs, key) : IsLink(h)

\* A walk: where it is, the path it has before it, the hops it has left.
Walks == Paths \X Paths \X Nat

\* The walk along a link met in the directory from.
Along(l, from, hops) == <<IF l.type = "symlink" THEN from ELSE << >>, Parts(l.target), hops>>

\* Where a walk leads, and with how many hops left, if walkTo tells it of others.
FollowStep(hs, walkTo, x) ==
    LET from == x[1]
        part == Head(x[2])
        rest == Tail(x[2])
        here == Append(from, part)
        end  == walkTo[Along(TheLink(hs, here), from, x[3] - 1)]
        lost == [key |-> Outside, hops |-> x[3]]
        onward(k, hops) == IF rest = << >> \/ k = << >> \/ HasDir(hs, k)
                           THEN walkTo[<<k, rest, hops>>] ELSE lost
    IN CASE from = Outside -> lost
         [] from # Outside /\ x[2] = << >> -> [key |-> from, hops |-> x[3]]
         [] from # Outside /\ x[2] # << >> /\ part = ".." ->
              IF from = << >> THEN lost ELSE walkTo[<<Front(from), rest, x[3]>>]
         [] from # Outside /\ x[2] # << >> /\ part # ".." /\ HasLink(hs, here) ->
              IF x[3] = 0 THEN lost ELSE onward(end.key, end.hops)
         [] OTHER -> onward(here, x[3])

Follow(hs) == LET walkTo[x \in Walks] == FollowStep(hs, walkTo, x) IN walkTo

Reached(hs, key) == Member(hs, Follow(hs)[<<<< >>, key, MaxLinkHops>>].key)

\* A target never climbs above where it starts from, reading only its text.
Ups(t, n)   == Cardinality({i \in 1 .. n : t[i] = ".."})
StaysInside(depth, t) == \A n \in 0 .. Len(t) : 2 * Ups(t, n) <= depth + n

WellFormed(hs) ==
    /\ hs # << >>
    /\ \A i, j \in DOMAIN hs : Key(hs[i]) = Key(hs[j]) => i = j
    /\ \A key \in ToSet(Required) : HasDir(hs, key)
    /\ \A h \in ToSet(hs) :
          /\ h.name.clean /\ ~Absolute(h.name) /\ ".." \notin ToSet(Key(h))
          /\ h.type # "special"
          /\ Key(h) = << >> => h.type = "dir"
          /\ Len(Key(h)) > 1 => HasDir(hs, Front(Key(h)))
          /\ IsLink(h) =>
               /\ h.target.clean /\ ~Absolute(h.target) /\ Parts(h.target) # << >>
               /\ StaysInside(IF h.type = "symlink" THEN Len(Key(h)) - 1 ELSE 0,
                              Parts(h.target))
               /\ Reached(hs, Key(h)) # {}
               /\ h.type = "hardlink" => \A f \in Reached(hs, Key(h)) : f.type = "file"

-----------------------------------------------------------------------------
(* Properties.                                                             *)

\* Import restores a file only if it is a container of this format whose payload
\* is what the metadata read first calls for, encrypted with the user's passphrase
\* or not at all, and holds a tree whose every name and link has its place inside
\* it (readMetadataMember, ExtractData, Decrypt, ValidateDataTar).  What the file's
\* own metadata says of its encryption may differ if it has replaced the one that
\* was read first: import looks at the payload, which decides.
AcceptsOnlyBackups ==
    verdict = "accepted" =>
        /\ \E v \in 1 .. FormatVersion, says \in BOOLEAN :
              container = [WriteTx9(says, IF meta.encrypted THEN "gpg" ELSE "gzip")
                             EXCEPT !.version = v]
        /\ WellFormed(headers)

\* A backup is never turned down for what it is: each refusal has its reason
\* in the file.  A walk stopped by the bound on its iterations is exempt.
RefusesWithReason ==
    /\ verdict \in {"malformed", "cycle", "hops"} => ~WellFormed(headers)
    /\ verdict = "members" => Len(headers) > MaxMembers
    /\ verdict = "container" => container \notin Backups
    /\ verdict = "content" =>
          container.content # (IF meta.encrypted THEN "gpg" ELSE "gzip")

\* A validation that begins ends, whatever the links of the archive lead to
\* (resolve's bounds and cycle check).
ValidationEnds == pc = "index" ~> pc = "end"

=============================================================================
