------------------------------- MODULE Options -------------------------------
(***************************************************************************)
(* How the server's arguments lead to its data directory and its port.     *)
(*                                                                         *)
(* The directory is in a buffer of characters that each option overwrites. *)
(* -c writes a terminated string, -d only the characters it was given, and *)
(* neither asks whether they fit.                                          *)
(***************************************************************************)
EXTENDS Integers, Sequences, SequencesExt

CONSTANTS
    Char,      (* characters                                                *)
    NUL,       (* the terminator                                            *)
    DIR_SIZE,  (* size of main's buffer dir                                 *)
    DefaultDir, DefaultPort,
    Dir,       (* directories options name                                  *)
    Port,      (* ports options name                                        *)
    BAD,       (* a port that is not a number, or is missing                *)
    Config,    (* configuration files that can be opened: [dir, port]       *)
    Existing,  (* directories that are on the disk                          *)
    MaxArgs    (* bound: number of options                                  *)

ASSUME OptionsAssumption ==
    /\ NUL \notin Char /\ BAD \notin Port
    /\ DIR_SIZE \in Nat
    /\ Dir \cup Existing \cup {DefaultDir} \subseteq Seq(Char)
    /\ Len(DefaultDir) < DIR_SIZE
    /\ Config \subseteq [dir : Dir, port : Port \cup {BAD}]
    /\ MaxArgs \in Nat

VARIABLES
    status,    (* "options" while they are read; "server", "test" when the  *)
               (* server runs; "failed", "usage", "nodir" when it does not; *)
               (* "overrun" when a name was written behind the buffer, over *)
               (* main's other variables: what follows may be anything      *)
    dir,       (* the buffer                                                *)
    port,
    test_mode,
    args,      (* bound: options read                                       *)
    named      (* history: the directory named last, "by" what, and the     *)
               (* length of the name that was in the buffer                 *)

optionsVars == <<status, dir, port, test_mode, args, named>>

-----------------------------------------------------------------------------
(* The buffer. *)

Copy(characters) == [i \in 1 .. DIR_SIZE |-> IF i <= Len(characters) THEN characters[i] ELSE dir[i]]
Terminated(characters) == Append(characters, NUL)

(* The string in it: up to the first terminator.  Without one it goes on   *)
(* behind the buffer.                                                      *)
Ends(buffer) == {i \in DOMAIN buffer : buffer[i] = NUL}
StringIn(buffer) ==
    LET ends == Ends(buffer)
    IN  IF ends = {} THEN buffer
        ELSE SubSeq(buffer, 1, (CHOOSE i \in ends : \A j \in ends : i <= j) - 1)

Named(by, d) == named' = [by |-> by, dir |-> d, over |-> Len(StringIn(dir))]

-----------------------------------------------------------------------------
(* main. *)

More == /\ status = "options" /\ args < MaxArgs
        /\ args' = args + 1

(* What is written to the buffer, if it fits.                              *)
Write(characters, by, d) ==
    /\ Len(characters) <= DIR_SIZE
    /\ dir' = Copy(characters)
    /\ Named(by, d)

Overrun(characters) ==
    /\ More
    /\ Len(characters) > DIR_SIZE
    /\ status' = "overrun"
    /\ UNCHANGED <<dir, port, test_mode, named>>

(* Mutant: the buffer is not terminated. *)
LoadConfigBare(c) ==
    \/ /\ More
       /\ Write(c.dir, "-c", c.dir)
       /\ IF c.port = BAD THEN status' = "failed" /\ UNCHANGED port
                          ELSE port' = c.port /\ UNCHANGED status
       /\ UNCHANGED test_mode
    \/ Overrun(c.dir)

(* -c: load_config. *)
LoadConfig(c) ==
    \/ /\ More
       /\ Write(Terminated(c.dir), "-c", c.dir)
       /\ IF c.port = BAD THEN status' = "failed" /\ UNCHANGED port
                          ELSE port' = c.port /\ UNCHANGED status
       /\ UNCHANGED test_mode
    \/ Overrun(Terminated(c.dir))

(* -d *)
SetDir(d) ==
    \/ /\ More
       /\ Write(d, "-d", d)
       /\ UNCHANGED <<status, port, test_mode>>
    \/ Overrun(d)

SetPort(p) ==
    /\ More
    /\ IF p = BAD THEN status' = "failed" /\ UNCHANGED port
                  ELSE port' = p /\ UNCHANGED status
    /\ UNCHANGED <<dir, test_mode, named>>

TestMode ==
    /\ More
    /\ test_mode' = TRUE
    /\ UNCHANGED <<status, dir, port, named>>

(* -h, an option that is not known, a configuration file that is not there.*)
GiveUp ==
    /\ More
    /\ status' \in {"usage", "failed"}
    /\ UNCHANGED <<dir, port, test_mode, named>>

(* All options are read: opendir, and server_start or server_test.  A      *)
(* string without an end may name any directory.                           *)
Run ==
    /\ status = "options"
    /\ \E there \in BOOLEAN :
          /\ Ends(dir) # {} => (there <=> StringIn(dir) \in Existing)
          /\ status' = IF ~there THEN "nodir"
                       ELSE IF test_mode THEN "test" ELSE "server"
    /\ UNCHANGED <<dir, port, test_mode, args, named>>

(* set_default_config; the rest of the buffer is not initialised.          *)
OptionsInit ==
    /\ status = "options"
    /\ \E rest \in [1 .. DIR_SIZE -> {NUL} \cup {c \in Char : \A d \in Dir : c \notin ToSet(d)}] :
          dir = [i \in 1 .. DIR_SIZE |->
                    IF i <= Len(DefaultDir) + 1 THEN Terminated(DefaultDir)[i] ELSE rest[i]]
    /\ port = DefaultPort /\ test_mode = FALSE /\ args = 0
    /\ named = [by |-> "default", dir |-> DefaultDir, over |-> 0]

OptionsNext == \/ \E c \in Config : LoadConfig(c)
               \/ \E d \in Dir : SetDir(d)
               \/ \E p \in Port \cup {BAD} : SetPort(p)
               \/ TestMode \/ GiveUp \/ Run

OptionsSpec == OptionsInit /\ [][OptionsNext]_optionsVars

-----------------------------------------------------------------------------
(* Properties. *)

OptionsTypeOK ==
    /\ status \in {"options", "server", "test", "failed", "usage", "nodir", "overrun"}
    /\ dir \in [1 .. DIR_SIZE -> Char \cup {NUL}]
    /\ port \in Port \cup {DefaultPort}
    /\ test_mode \in BOOLEAN
    /\ args \in 0 .. MaxArgs
    /\ named \in [by : {"default", "-c", "-d"}, dir : Dir \cup {DefaultDir}, over : 0 .. DIR_SIZE]

Runs == status \in {"server", "test"}

(* The usage text: -d points a directory to save data.  The server saves   *)
(* to the directory that was named last, or says that it is not there.     *)
SavesToNamed ==
    Runs \/ status = "nodir" => StringIn(dir) = named.dir

(* What can be relied on, as long as no name was longer than the buffer:   *)
(* that holds for the default, for a configuration file, and for -d when   *)
(* the name has the length of the one before; else the name is followed by *)
(* what was in the buffer behind it, and by more where that has no end.    *)
SavesToFitting ==
    Runs \/ status = "nodir" =>
        /\ IsPrefix(named.dir, StringIn(dir))
        /\ \/ named.by # "-d"
           \/ named.over = Len(named.dir) /\ Len(named.dir) < DIR_SIZE
           => Ends(dir) # {} /\ StringIn(dir) = named.dir

=============================================================================
