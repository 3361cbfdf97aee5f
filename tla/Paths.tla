-------------------------------- MODULE Paths --------------------------------
(***************************************************************************)
(* Names in requests and what they do to the data directory.  Each         *)
(* connection has a current directory, which other connections may remove  *)
(* under it.  All requests are served by one thread, each is one step.     *)
(***************************************************************************)
EXTENDS Integers, Sequences, FiniteSets, SequencesExt

CONSTANTS
    Connection,  (* connections                                             *)
    Name,        (* names of files and directories other than "." and ".."  *)
    Request,     (* names sent by clients: the parts between the slashes,   *)
                 (* "a/../b" is <<a, "..", b>>, "/a/" is <<"", a, "">>      *)
    MaxPath,     (* the deepest path the file system takes                  *)
    FAIL         (* get_path returned false                                 *)

Part == Name \cup {"", ".", ".."}

ASSUME PathsAssumption ==
    /\ Name \cap {"", ".", ".."} = {}
    /\ Request \subseteq Seq(Part) \ {<<>>}
    /\ MaxPath \in Nat
    /\ FAIL \notin Seq(Part)

VARIABLES
    path,        (* connection_core::path of each connection                *)
    dirs,        (* directories, as paths from the root, <<>>, on           *)
    files,       (* regular files                                           *)
    last         (* history: the last request, what its name was resolved   *)
                 (* to and whether the answer was STATUS_SUCCEED            *)

vars == <<path, dirs, files, last>>

(* last records what has happened, no guard reads it. *)
State == <<path, dirs, files>>

-----------------------------------------------------------------------------
(* get_path. *)

(* Mutant: ".." of the root is the root. *)
EnterStay(_path, part) ==
    IF _path = FAIL \/ part = "" THEN FAIL
    ELSE CASE part = "."   -> _path
           [] part = ".."  -> IF _path = <<>> THEN _path ELSE Front(_path)
           [] OTHER        -> Append(_path, part)

(* One part of the name: what the loop does to _path. *)
Enter(_path, part) ==
    IF _path = FAIL \/ part = "" THEN FAIL
    ELSE CASE part = "."   -> _path
           [] part = ".."  -> IF _path = <<>> THEN FAIL ELSE Front(_path)
           [] OTHER        -> Append(_path, part)

Absolute(req) == Head(req) = ""
(* Without a leading and a trailing slash. *)
Parts(req) == LET body == IF Last(req) = "" THEN Front(req) ELSE req
              IN  IF Absolute(req) /\ body # <<>> THEN Tail(body) ELSE body

Start(req, from) == IF Absolute(req) THEN <<>> ELSE from

(* All parts, one after the other. *)
Walked(parts, start) ==
    LET walked[n \in 0 .. Len(parts)] ==
            IF n = 0 THEN start ELSE Enter(walked[n - 1], parts[n])
    IN  walked[Len(parts)]

GetPath(req, from) ==
    IF Parts(req) = <<>> THEN FAIL ELSE Walked(Parts(req), Start(req, from))

-----------------------------------------------------------------------------
(* The requests. *)

Did(op, c, to, ok) == last' = [op |-> op, by |-> c, to |-> to, ok |-> ok]

(* Mutant: access without a slash at the end. *)
ChangeDirectoryAny(c, req) ==
    LET to == GetPath(req, path[c])
        ok == to \in dirs \cup files
    IN  /\ path' = IF ok THEN [path EXCEPT ![c] = to] ELSE path
        /\ Did("cd", c, to, ok)
        /\ UNCHANGED <<dirs, files>>

ChangeDirectory(c, req) ==
    LET to == GetPath(req, path[c])
        ok == to \in dirs
    IN  /\ path' = IF ok THEN [path EXCEPT ![c] = to] ELSE path
        /\ Did("cd", c, to, ok)
        /\ UNCHANGED <<dirs, files>>

(* Mutant: nobody asks whether a file is in the way. *)
WayThrough(to) == {i \in 1 .. Len(to) : <<>> \in dirs /\ i <= MaxPath}

(* Mutant: the loop begins with the root. *)
WayFromRoot(to) == {i \in 1 .. Len(to) :
                       \A j \in 1 .. i : SubSeq(to, 1, j) \notin files /\ j <= MaxPath}

(* The directories on the way to a path that are there or can be made; the *)
(* loop ends at the first that cannot.                                     *)
Way(to) == {i \in 1 .. Len(to) :
               /\ <<>> \in dirs
               /\ \A j \in 1 .. i : SubSeq(to, 1, j) \notin files /\ j <= MaxPath}

CreateDirectory(c, req) ==
    LET to == GetPath(req, path[c])
        ok == to \notin {FAIL, <<>>} /\ to \notin dirs /\ Len(to) \in Way(to)
    IN  /\ dirs' = IF to = FAIL THEN dirs
                   ELSE dirs \cup {SubSeq(to, 1, i) : i \in Way(to)}
        /\ Did("mkdir", c, to, ok)
        /\ UNCHANGED <<path, files>>

(* remove_dir takes away all that is below; whether it could is not looked *)
(* at.  The root is removed like any other directory.                      *)
RemoveDirectory(c, req) ==
    LET to == GetPath(req, path[c])
        ok == to \in dirs
    IN  /\ dirs' = IF ok THEN {p \in dirs : ~IsPrefix(to, p)} ELSE dirs
        /\ files' = IF ok THEN {p \in files : ~IsPrefix(to, p)} ELSE files
        /\ Did("rmdir", c, to, ok)
        /\ UNCHANGED path

(* Mutant: remove_dir for rm. *)
RemoveFileAll(c, req) ==
    LET to == GetPath(req, path[c])
        ok == to \in dirs \cup files
    IN  /\ dirs' = IF ok THEN {p \in dirs : ~IsPrefix(to, p)} ELSE dirs
        /\ files' = IF ok THEN {p \in files : ~IsPrefix(to, p)} ELSE files
        /\ Did("rm", c, to, ok)
        /\ UNCHANGED path

(* remove takes a file or an empty directory, which may be the root, whose *)
(* name ends with a slash.  Its result is not looked at.                   *)
RemoveFile(c, req) ==
    LET to == GetPath(req, path[c])
        ok == to \in dirs \cup (files \ {<<>>})
        empty == \A p \in dirs \cup files : IsPrefix(to, p) => p = to
    IN  /\ dirs' = IF ok /\ empty THEN dirs \ {to} ELSE dirs
        /\ files' = IF ok THEN files \ {to} ELSE files
        /\ Did("rm", c, to, ok)
        /\ UNCHANGED path

(* setWorkingStatus for an upload: fopen "wb" makes the file, in a         *)
(* directory that is there.  That of the root is; when the root has been   *)
(* removed, a file may take its place.                                     *)
Upload(c, req) ==
    LET to == GetPath(req, path[c])
        ok == /\ to # FAIL /\ to \notin dirs
              /\ to # <<>> => Front(to) \in dirs /\ Len(to) <= MaxPath
    IN  /\ files' = IF ok THEN files \cup {to} ELSE files
        /\ Did("upload", c, to, ok)
        /\ UNCHANGED <<path, dirs>>

(* fopen "rb", which opens directories too. *)
Download(c, req) ==
    LET to == GetPath(req, path[c])
    IN  /\ Did("download", c, to, to \in dirs \cup files)
        /\ UNCHANGED <<path, dirs, files>>

Ls(c) ==
    /\ Did("ls", c, path[c], GetPath(<<".", "">>, path[c]) \in dirs)
    /\ UNCHANGED <<path, dirs, files>>

Init ==
    /\ path = [c \in Connection |-> <<>>]
    /\ dirs = {<<>>}
    /\ files = {}
    /\ last = [op |-> "none", by |-> FAIL, to |-> FAIL, ok |-> FALSE]

Next == \E c \in Connection :
           \/ \E req \in Request :
                 \/ ChangeDirectory(c, req) \/ CreateDirectory(c, req)
                 \/ RemoveDirectory(c, req) \/ RemoveFile(c, req)
                 \/ Upload(c, req) \/ Download(c, req)
           \/ Ls(c)

Spec == Init /\ [][Next]_vars

-----------------------------------------------------------------------------
(* Properties. *)

(* Files and directories make a tree, and a current directory is made of   *)
(* plain names: it is never above the root.                                *)
TypeOK ==
    /\ path \in [Connection -> Seq(Name)]
    /\ dirs \cup files \subseteq Seq(Name)
    /\ dirs \cap files = {}
    /\ \A p \in (dirs \cup files) \ {<<>>} : Front(p) \in dirs
    /\ \A p \in dirs \cup files : Len(p) <= MaxPath

(* What a name should lead to, without following it part by part: a name   *)
(* stays unless as many ".." as names come after it up to some point, and  *)
(* at no point may there have been more ".." than names.                   *)
At(all, s, i, j) == {k \in i .. j : all[k] \in s}
Depth(all, i, j) == Cardinality(At(all, Name, i, j)) - Cardinality(At(all, {".."}, i, j))
Kept(all, n) == {i \in At(all, Name, 1, n) : \A j \in i .. n : Depth(all, i, j) > 0}
Nth(places, n) == CHOOSE i \in places : Cardinality(places \cap (1 .. i)) = n
InOrder(all, places) == [n \in 1 .. Cardinality(places) |-> all[Nth(places, n)]]
Resolved(req, from) ==
    LET all == Start(req, from) \o Parts(req)
        kept == Kept(all, Len(all))
    IN  IF Parts(req) = <<>> \/ Contains(Parts(req), "")
             \/ \E j \in 1 .. Len(all) : Depth(all, 1, j) < 0
        THEN FAIL ELSE InOrder(all, kept)

(* get_path gives what the name means, wherever the client is. *)
GetPathResolves ==
    \A c \in Connection, req \in Request :
        GetPath(req, path[c]) = Resolved(req, path[c])

(* A request that fails changes nothing, except that mkdir may have made   *)
(* some of the directories; one that succeeds touches what its name leads  *)
(* to, what rmdir finds below it and what mkdir needs above it, and nobody *)
(* else's current directory.                                               *)
OnlyNamedStep ==
    LET gone == (dirs \ dirs') \cup (files \ files')
        made == (dirs' \ dirs) \cup (files' \ files)
    IN  /\ gone # {} => last'.ok /\ last'.op \in {"rmdir", "rm"}
        /\ made # {} => last'.op = "mkdir" \/ (last'.ok /\ last'.op = "upload")
        /\ \A p \in gone : p = last'.to \/ (last'.op = "rmdir" /\ IsPrefix(last'.to, p))
        /\ \A p \in made : p = last'.to \/ (last'.op = "mkdir" /\ IsPrefix(p, last'.to))
        /\ \A c \in Connection : path'[c] # path[c] => last'.op = "cd" /\ last'.by = c
OnlyNamed == [][OnlyNamedStep]_vars

(* STATUS_SUCCEED means that it is done.  For rm only if the name was a    *)
(* file or an empty directory: a directory that is not empty stays, and    *)
(* the answer is success all the same (connection_core.cpp:169).           *)
SucceedMeansStep ==
    LET to == last'.to IN last'.ok =>
        CASE last'.op = "cd"     -> path'[last'.by] = to /\ to \in dirs
          [] last'.op = "mkdir"  -> to \in dirs' \ dirs
          [] last'.op = "rmdir"  -> \A p \in dirs' \cup files' : ~IsPrefix(to, p)
          [] last'.op = "rm"     -> to \notin files' /\
                                    (to \in dirs' => \E p \in dirs' \cup files' :
                                                        p # to /\ IsPrefix(to, p))
          [] last'.op = "upload" -> to \in files'
          [] OTHER               -> to \in dirs \cup files
SucceedMeans == [][SucceedMeansStep]_vars

(* The root can be removed, by a request whose name leads to it.  After    *)
(* that no request makes a directory again: until the server is restarted  *)
(* nobody can store anything but a file in the place of the root.          *)
RootGoneStep ==
    /\ <<>> \in dirs \ dirs' => last'.to = <<>> /\ last'.op \in {"rmdir", "rm"}
    /\ <<>> \notin dirs => dirs' = {} /\ files' \subseteq {<<>>}
RootGone == [][RootGoneStep]_vars

=============================================================================
