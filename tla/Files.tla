------------------------------- MODULE Files -------------------------------
(***************************************************************************)
(* internal/containerfiles and the files of sidecar.go: how files get from *)
(* one container into another.  A path is the sequence of its segments, a  *)
(* container's file system a function from paths to entries.               *)
(***************************************************************************)
EXTENDS SequencesExt

CONSTANT Refused \* an error instead of a result

File(name, body) == [name |-> name, body |-> body]

\* path.Clean of a rooted name: nothing is above the root.
Clean(name) ==
  LET cleaned[n \in 0 .. Len(name)] ==
        IF n = 0 THEN <<>>
        ELSE IF name[n] = "." THEN cleaned[n - 1]
        ELSE IF name[n] # ".." THEN Append(cleaned[n - 1], name[n])
        ELSE IF cleaned[n - 1] = <<>> THEN <<>> ELSE Front(cleaned[n - 1])
  IN cleaned[Len(name)]

\* FilesIn: the files, under their base names, in a directory.
FilesIn(dir, files) ==
  IF \E i \in DOMAIN files : files[i].name = <<>> \/ Last(files[i].name) = "." THEN Refused
  ELSE [i \in DOMAIN files |-> File(Append(dir, Last(files[i].name)), files[i].body)]

\* Faulty: whatever is listed is archived.
ArchiveAsListed(files) == [i \in DOMAIN files |-> File(Clean(files[i].name), files[i].body)]

\* The entries of the archive, one for every file: a path that comes twice
\* would overwrite what it named first.
Archive(files) ==
  LET names == [i \in DOMAIN files |-> Clean(files[i].name)]
  IN IF \/ \E i \in DOMAIN files : names[i] = <<>>
        \/ \E i, j \in DOMAIN files : i # j /\ names[i] = names[j]
     THEN Refused
     ELSE [i \in DOMAIN files |-> File(names[i], files[i].body)]

\* Docker extracts an archive at the root, one entry after the other.
Extract(entries) ==
  [path \in {entries[i].name : i \in DOMAIN entries} |->
     LET last == CHOOSE i \in DOMAIN entries :
                   /\ entries[i].name = path
                   /\ \A j \in DOMAIN entries : entries[j].name = path => j <= i
     IN entries[last].body]

-----------------------------------------------------------------------------
\* Docker's archive of what is at source in a container, in some order: the
\* entries named relative to the parent of source, regular files and others.
Copied(tree, source) ==
  LET paths == SetToSeq({path \in DOMAIN tree : IsPrefix(source, path)})
  IN [i \in DOMAIN paths |->
        [name |-> SubSeq(paths[i], Len(source), Len(paths[i])),
         type |-> tree[paths[i]].type, body |-> tree[paths[i]].body]]

\* The regular files of an archive, each at the place of its entry, under
\* their names in the container.
ReadArchive(entries, parent) ==
  [i \in {i \in DOMAIN entries : entries[i].type = "regular"} |->
     File(parent \o entries[i].name, entries[i].body)]

Read(tree, source) ==
  IF ~\E path \in DOMAIN tree : IsPrefix(source, path) THEN Refused
  ELSE ReadArchive(Copied(tree, source), Front(Clean(source)))

\* ReadFile: one regular file, the first of its name, or an error.
ReadFile(tree, source) ==
  LET files == Read(tree, source)
      named == {i \in DOMAIN files : files[i].name = Clean(source)}
  IN IF files = Refused \/ named = {} THEN Refused ELSE files[Min(named)].body
=============================================================================
