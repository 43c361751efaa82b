------------------------------- MODULE Resources -------------------------------
(***************************************************************************)
(* The resource manager of util/resources/resmng.d with its groups         *)
(* (resgroup.d), the archives they search (filesys.d, made through         *)
(* archivemng.d) and the configuration it loads groups from (conf.d).      *)
(*                                                                         *)
(* A file name is a stem and an extension, extensions and group names are  *)
(* sequences of letters: they matter because the manager's cache is keyed  *)
(* by the file name and the group name written one after the other.        *)
(* Archives are numbered in the order they are opened, groups in the order *)
(* they are registered, resources in the order they are created.           *)
(***************************************************************************)
EXTENDS Integers, Sequences, SequencesExt, FiniteSets, Functions

CONSTANTS
    Dirs,            \* paths of directories
    Files,           \* file names, [stem, ext]
    GroupNames,
    Factories,       \* the factories there are, [type, exts]
    Registered,      \* the archive types added to ArchiveMng: "FileSystem"
    Configs,         \* contents of the configuration file, that parse
    DefaultConfig,   \* what generateDefaultConfig writes
    bad,             \* a configuration file that is missing or does not parse
    closed,          \* dirname of an archive that is not open: ""
    noFile,          \* lastName before the first hasFile: null
    MaxArchives,     \* bound: archives opened
    MaxResources     \* bound: resources created

ASSUME ResourcesAssumption ==
    /\ closed \notin Dirs /\ noFile \notin Files
    /\ DefaultConfig \in Configs /\ bad \notin Configs
    /\ \A content \in Configs :
         content \in Seq([name : GroupNames, entries : Seq([path : Dirs, type : STRING])])

VARIABLES
    disk,         \* disk[d]: the files under directory d
    kind,         \* what is at path d: "none", "dir" or "file"
    config,       \* the configuration file
    archives,     \* archives[a]: [dirname, lent]; lent: its opener still holds it
    mGroups,      \* [name, archives, lastName, lastArch]
    mResFactories,
    mResources,   \* mResources[key] = 0: key is not in the map
    made,         \* the resources created: [name, group, factory, dirname]
    crashed,      \* a RangeError ended the program
    blamed,       \* history: groups whose hasFile answer may have become wrong
    answers       \* history: what getResource returned to which request

disks == <<disk, kind, config>>
caches == <<mResources, made, answers>>
vars == <<disks, archives, mGroups, mResFactories, caches, crashed, blamed>>

ResourceTypes == {fact.type : fact \in Factories}
Group == [name : GroupNames, archives : Seq(Nat), lastName : Files \cup {noFile}, lastArch : Nat]

Key(f, group) == <<f.stem, f.ext \o group>>       \* filename~resGroup
Keys == {Key(f, g) : f \in Files, g \in GroupNames}

TypeOK ==
    /\ disk \in [Dirs -> SUBSET Files]
    /\ kind \in [Dirs -> {"none", "dir", "file"}]
    /\ \A d \in Dirs : disk[d] # {} => kind[d] = "dir"
    /\ config \in Configs \cup {bad}
    /\ archives \in Seq([dirname : Dirs \cup {closed}, lent : BOOLEAN])
    /\ mGroups \in Seq(Group)
    /\ mResFactories \in Seq(Factories)
    /\ mResources \in [Keys -> 0 .. Len(made)]
    /\ made \in Seq([name : Files, group : GroupNames, factory : ResourceTypes, dirname : Dirs])

Init ==
    /\ kind \in [Dirs -> {"none", "dir", "file"}]
    /\ disk = [d \in Dirs |-> {}]
    /\ config \in Configs \cup {bad}
    /\ archives = <<>> /\ mGroups = <<>> /\ mResFactories = <<>>
    /\ mResources = [k \in Keys |-> 0] /\ made = <<>>
    /\ crashed = FALSE /\ blamed = {} /\ answers = {}

-----------------------------------------------------------------------------
(* The disk, which other programs change too *)

Changed(d) == {g \in DOMAIN mGroups : \E a \in Range(mGroups[g].archives) : archives[a].dirname = d}

CreateFile(d, f) ==
    /\ kind[d] = "dir" /\ f \notin disk[d]
    /\ disk' = [disk EXCEPT ![d] = @ \cup {f}]
    /\ blamed' = blamed \cup Changed(d)
    /\ UNCHANGED <<kind, config, archives, mGroups, mResFactories, caches, crashed>>

DeleteFile(d, f) ==
    /\ f \in disk[d]
    /\ disk' = [disk EXCEPT ![d] = @ \ {f}]
    /\ blamed' = blamed \cup Changed(d)
    /\ UNCHANGED <<kind, config, archives, mGroups, mResFactories, caches, crashed>>

-----------------------------------------------------------------------------
(* Archives *)

Archive(d, lent) == [dirname |-> d, lent |-> lent]

\* FileSys.open succeeds: a missing directory is made, if it can be.
Opens(k, d, unwritable) == k[d] = "dir" \/ (k[d] = "none" /\ d \notin unwritable)

\* hasFile of one archive
Holds(a, f) == archives[a].dirname # closed /\ f \in disk[archives[a].dirname]

\* open or close of an archive by whoever passed it to addEntry and kept it.
Reopen(a, d) ==
    /\ archives[a].lent /\ archives[a].dirname # d
    /\ d # closed => kind[d] = "dir"
    /\ archives' = [archives EXCEPT ![a].dirname = d]
    /\ blamed' = blamed \cup {g \in DOMAIN mGroups : a \in Range(mGroups[g].archives)}
    /\ UNCHANGED <<disks, mGroups, mResFactories, caches, crashed>>

-----------------------------------------------------------------------------
(* Groups *)

EmptyGroup(name) == [name |-> name, archives |-> <<>>, lastName |-> noFile, lastArch |-> 0]

\* addEntry(Archive), with an archive the caller has opened.
AddEntry(g, d) ==
    /\ kind[d] = "dir" /\ Len(archives) < MaxArchives
    /\ archives' = Append(archives, Archive(d, TRUE))
    /\ mGroups' = [mGroups EXCEPT ![g].archives = Append(@, Len(archives'))]
    /\ UNCHANGED <<disks, mResFactories, caches, crashed, blamed>>

\* loadFromStruct: addEntry(path, type) for each entry, in order; s.ok is FALSE
\* after the exception of an archive that could not be opened.
LoadEntry(s, entry, unwritable) ==
    IF ~s.ok \/ entry.type \notin Registered THEN s
    ELSE IF ~Opens(s.kind, entry.path, unwritable) THEN [s EXCEPT !.ok = FALSE]
    ELSE [s EXCEPT !.kind[entry.path] = "dir",
                   !.archives = Append(@, Archive(entry.path, FALSE)),
                   !.group.archives = Append(@, Len(s.archives) + 1)]

LoadFromStruct(s, st, unwritable) ==
    LET after[i \in 0 .. Len(st.entries)] ==
            IF i = 0 THEN [s EXCEPT !.group = EmptyGroup(st.name)]
            ELSE LoadEntry(after[i - 1], st.entries[i], unwritable)
    IN  after[Len(st.entries)]

\* Mutant: the group is registered before its archives are opened.
RegistersFirst(s, st, unwritable) ==
    LET loaded == LoadFromStruct(s, st, unwritable)
    IN  [loaded EXCEPT !.groups = Append(@, loaded.group)]

LoadGroup(s, st, unwritable) ==
    LET loaded == LoadFromStruct(s, st, unwritable)
    IN  IF loaded.ok THEN [loaded EXCEPT !.groups = Append(@, loaded.group)] ELSE loaded

LoadGroups(content, unwritable) ==
    LET after[i \in 0 .. Len(content)] ==
            IF i = 0 THEN [ok |-> TRUE, kind |-> kind, archives |-> archives,
                           groups |-> mGroups, group |-> EmptyGroup(<<>>)]
            ELSE IF after[i - 1].ok THEN LoadGroup(after[i - 1], content[i], unwritable)
            ELSE after[i - 1]
    IN  after[Len(content)]

\* loadGroupsFromFile: a configuration that cannot be read is replaced by the
\* default one; if that cannot be written either, the call fails.
LoadGroupsFromFile(unwritable) ==
    \E content \in IF config = bad THEN {DefaultConfig, bad} ELSE {config} :
        /\ config' = content
        /\ content # bad
        /\ LET s == LoadGroups(content, unwritable) IN
             /\ Len(s.archives) <= MaxArchives
             /\ kind' = s.kind /\ archives' = s.archives /\ mGroups' = s.groups
        /\ UNCHANGED <<disk, mResFactories, caches, crashed, blamed>>

FirstHolding(g, f) ==
    LET holding == {i \in DOMAIN mGroups[g].archives : Holds(mGroups[g].archives[i], f)}
    IN  IF holding = {} THEN 0
        ELSE mGroups[g].archives[CHOOSE i \in holding : \A j \in holding : i <= j]

\* Mutant: the loop does not return at the first archive that holds the file.
RemembersLast(g, f) ==
    LET holding == {a \in Range(mGroups[g].archives) : Holds(a, f)}
    IN  /\ holding # {}
        /\ mGroups' = [mGroups EXCEPT ![g].lastName = f,
                                      ![g].lastArch = CHOOSE a \in holding : \A b \in holding : b <= a]
        /\ blamed' = blamed \ {g}
        /\ UNCHANGED <<disks, archives, mResFactories, caches, crashed>>

\* ResourceGroup.hasFile remembers its answer for openFile.
HasFile(g, f) ==
    /\ FirstHolding(g, f) # 0
    /\ mGroups' = [mGroups EXCEPT ![g].lastName = f, ![g].lastArch = FirstHolding(g, f)]
    /\ blamed' = blamed \ {g}
    /\ UNCHANGED <<disks, archives, mResFactories, caches, crashed>>

\* ResourceGroup.openFile: the archive the file is opened in, 0 for an exception.
OpenFile(g, f) ==
    IF mGroups[g].lastName = f
    THEN IF Holds(mGroups[g].lastArch, f) THEN mGroups[g].lastArch ELSE 0
    ELSE FirstHolding(g, f)

\* getByName of the manager: 0 for null.
GetByName(name) ==
    LET named == {g \in DOMAIN mGroups : mGroups[g].name = name}
    IN  IF named = {} THEN 0 ELSE CHOOSE g \in named : \A h \in named : g <= h

-----------------------------------------------------------------------------
(* Factories and resources *)

\* getByExt: 0 for null.
GetByExt(ext) ==
    LET able == {i \in DOMAIN mResFactories : ext \in mResFactories[i].exts}
    IN  IF able = {} THEN 0 ELSE CHOOSE i \in able : \A j \in able : i <= j

\* Mutant: a conflict is looked for by type instead of extension.
ComparesType(fact) ==
    /\ \A i \in DOMAIN mResFactories : mResFactories[i].type # fact.type
    /\ mResFactories' = Append(mResFactories, fact)
    /\ UNCHANGED <<disks, archives, mGroups, caches, crashed, blamed>>

RegistryFactory(fact) ==
    /\ \A ext \in fact.exts : GetByExt(ext) = 0
    /\ mResFactories' = Append(mResFactories, fact)
    /\ UNCHANGED <<disks, archives, mGroups, caches, crashed, blamed>>

\* The loop of unregistryFactory runs over the array as it was and cuts the
\* array as it is; an index beyond its end is a RangeError.
UnregistryFactory(type) ==
    LET after[i \in 0 .. Len(mResFactories)] ==
            IF i = 0 THEN [ok |-> TRUE, seq |-> mResFactories]
            ELSE IF mResFactories[i].type # type \/ ~after[i - 1].ok THEN after[i - 1]
            ELSE IF i > Len(after[i - 1].seq) THEN [ok |-> FALSE, seq |-> <<>>]
            ELSE [ok |-> TRUE, seq |-> RemoveAt(after[i - 1].seq, i)]
        result == after[Len(mResFactories)]
    IN  /\ \E i \in DOMAIN mResFactories : mResFactories[i].type = type
        /\ IF result.ok THEN mResFactories' = result.seq /\ UNCHANGED crashed
           ELSE crashed' = TRUE /\ UNCHANGED mResFactories
        /\ UNCHANGED <<disks, archives, mGroups, caches, blamed>>

Answered(f, group, r) == answers' = answers \cup {[name |-> f, group |-> group, resource |-> r]}

\* getResource finds the resource in the cache.
GetLoaded(f, group) ==
    /\ mResources[Key(f, group)] # 0
    /\ Answered(f, group, mResources[Key(f, group)])
    /\ UNCHANGED <<disks, archives, mGroups, mResFactories, mResources, made, crashed, blamed>>

\* Mutant: what was created is not put in the cache.
NotCached(f, group) ==
    /\ mResources[Key(f, group)] = 0
    /\ Len(made) < MaxResources
    /\ GetByExt(f.ext) # 0 /\ GetByName(group) # 0
    /\ OpenFile(GetByName(group), f) # 0
    /\ made' = Append(made, [name |-> f, group |-> group,
                             factory |-> mResFactories[GetByExt(f.ext)].type,
                             dirname |-> archives[OpenFile(GetByName(group), f)].dirname])
    /\ Answered(f, group, Len(made'))
    /\ UNCHANGED <<disks, archives, mGroups, mResFactories, mResources, crashed, blamed>>

\* getResource creates it.  Without a factory, a group or the file, and if the
\* factory throws, nothing changes.
GetNew(f, group) ==
    /\ mResources[Key(f, group)] = 0
    /\ Len(made) < MaxResources
    /\ GetByExt(f.ext) # 0 /\ GetByName(group) # 0
    /\ OpenFile(GetByName(group), f) # 0
    /\ made' = Append(made, [name |-> f, group |-> group,
                             factory |-> mResFactories[GetByExt(f.ext)].type,
                             dirname |-> archives[OpenFile(GetByName(group), f)].dirname])
    /\ mResources' = [mResources EXCEPT ![Key(f, group)] = Len(made')]
    /\ Answered(f, group, Len(made'))
    /\ UNCHANGED <<disks, archives, mGroups, mResFactories, crashed, blamed>>

GetResource(f, group) == GetLoaded(f, group) \/ GetNew(f, group)

-----------------------------------------------------------------------------
Outside ==
    \/ \E d \in Dirs, f \in Files : CreateFile(d, f) \/ DeleteFile(d, f)
    \/ \E a \in DOMAIN archives, d \in Dirs \cup {closed} : Reopen(a, d)

Program ==
    \/ \E unwritable \in SUBSET Dirs : LoadGroupsFromFile(unwritable)
    \/ \E g \in DOMAIN mGroups, d \in Dirs : AddEntry(g, d)
    \/ \E g \in DOMAIN mGroups, f \in Files : HasFile(g, f)
    \/ \E fact \in Factories : RegistryFactory(fact)
    \/ \E type \in ResourceTypes : UnregistryFactory(type)
    \/ \E f \in Files, group \in GroupNames : GetResource(f, group)

Next == ~crashed /\ (Outside \/ Program)

Spec == Init /\ [][Next]_vars

-----------------------------------------------------------------------------
(* Properties *)

\* Whatever order factories come and go in, no extension has two.
OneFactory ==
    \A i, j \in DOMAIN mResFactories :
        mResFactories[i].exts \cap mResFactories[j].exts # {} => i = j

Collide(x, y) ==
    Key(x.name, x.group) = Key(y.name, y.group) /\ <<x.name, x.group>> # <<y.name, y.group>>

\* A request is answered with the resource made of its file in its group, every time
\* with the same one, and no other request is: unless one came whose file and group
\* names run into the same string, which then gets the same resource, too.
AnswersTheRequest ==
    \A x \in answers :
        \/ \E y \in answers : Collide(x, y)
        \/ /\ made[x.resource].name = x.name /\ made[x.resource].group = x.group
           /\ \A y \in answers :
                 y.resource = x.resource <=> <<y.name, y.group>> = <<x.name, x.group>>

\* openFile opens the file in the first archive of the group that holds it, as
\* long as neither the files nor the archives have changed since hasFile answered.
OpensFirst ==
    \A g \in DOMAIN mGroups \ blamed, f \in Files : OpenFile(g, f) = FirstHolding(g, f)

\* The place among a group's archives of the one for entry i of st.
Place(st, i) == Cardinality({j \in 1 .. i : st.entries[j].type \in Registered})

\* When loading stops at an archive that cannot be opened, the groups that are
\* registered are whole: each has its archives, in the order of the configuration.
GroupsWhole ==
    \A g \in DOMAIN mGroups :
        \E content \in Configs : \E st \in Range(content) :
            /\ st.name = mGroups[g].name
            /\ \A i \in DOMAIN st.entries :
                 st.entries[i].type \in Registered =>
                    /\ Place(st, i) \in DOMAIN mGroups[g].archives
                    /\ archives[mGroups[g].archives[Place(st, i)]] = Archive(st.entries[i].path, FALSE)
=============================================================================
