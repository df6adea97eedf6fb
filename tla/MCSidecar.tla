------------------------------ MODULE MCSidecar ------------------------------
(* A sync node and a validator sidecar: what their source may hold, and the keys  *)
(* a caller may hand over.                                                        *)
EXTENDS Sidecar

Entry(type, body) == [type |-> type, body |-> body]

MCKinds ==
  {[parts |-> 2, joins |-> TRUE, restarts |-> TRUE, imports |-> FALSE],
   [parts |-> 1, joins |-> FALSE, restarts |-> FALSE, imports |-> TRUE]}

\* The configuration, none, an empty one, a link in its place, or a directory
\* of files.
MCSources ==
  {[path \in {ConfigPath, <<"config", "a">>} |->
      Entry("regular", IF path = ConfigPath THEN "configuration" ELSE "other")],
   [path \in {ConfigPath} |-> Entry("regular", "empty")],
   [path \in {ConfigPath} |-> Entry("link", "configuration")],
   [path \in {ConfigPath \o <<"a">>} |-> Entry("regular", "other")],
   [path \in {<<"genesis">>} |-> Entry("regular", "other")]}

\* Two keys of one base name in two directories, and a name that is none.
Key(name, body) == File(name, body)
MCKeystores ==
  {<<>>, <<Key(<<"out", "1">>, "k1")>>,
   <<Key(<<"out", "1">>, "k1"), Key(<<"out", "2">>, "k2")>>,
   <<Key(<<"a", "1">>, "k1"), Key(<<"b", "1">>, "k2")>>,
   <<Key(<<"out", "..">>, "k1")>>, <<Key(<<>>, "k1")>>}

\* A read finds the regular file at a path and nothing else; the paths given to
\* it and to an archive are cleaned alike.
ASSUME MCFilesAreFound ==
  /\ \A found \in MCSources :
       ReadFile(found, ConfigPath) =
         IF ConfigPath \in DOMAIN found /\ found[ConfigPath].type = "regular"
         THEN found[ConfigPath].body ELSE Refused
  /\ Clean(<<"config", "..", "network", ".", "config.yaml">>) = <<"network", "config.yaml">>
  /\ Clean(<<"..", "keys", "..">>) = <<>>
=============================================================================
