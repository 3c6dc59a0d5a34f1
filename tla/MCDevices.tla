------------------------------ MODULE MCDevices ------------------------------
(***************************************************************************)
(* Files and devices on small instances: open files and inode counts, the  *)
(* stdin device and the console.  They share no state: part says which of  *)
(* them is at work.                                                        *)
(***************************************************************************)
EXTENDS OpenFiles, Stdin, Console

VARIABLE part

all == <<part, open_files, vars, console>>

\* A root with a directory and a file.
Tree ==
  [d \in {"root", "dir"} |->
     IF d = "root" THEN [x \in {"..", "dir", "file"} |-> IF x = ".." THEN "root" ELSE x]
     ELSE [x \in {".."} |-> "root"]]
SomePaths ==
  {[from |-> "cur", name |-> x] : x \in {"..", "dir", "file"}}
    \cup {[from |-> "boot", name |-> ""]}
    \cup {[from |-> f, name |-> "dir"] : f \in {":", "disk0"}}
    \cup {[from |-> "stdin", name |-> x] : x \in {"", "file"}}
SomeFlags ==
  {[acc |-> "r", trunc |-> FALSE, creat |-> FALSE, excl |-> FALSE]}
    \cup {[acc |-> a, trunc |-> TRUE, creat |-> FALSE, excl |-> FALSE] : a \in {"r", "w"}}
    \cup {[acc |-> "r", trunc |-> FALSE, creat |-> TRUE, excl |-> e] : e \in BOOLEAN}
Keyboard == [d \in {"stdin"} |-> "r"]

ASSUME DevicesAssumption ==
  TreeAssumption /\ StdinAssumption /\ ConsoleAssumption

AllInit ==
  /\ part \in {"files", "stdin", "console"}
  /\ FilesInit /\ Init /\ ConsInit

AllNext ==
  \/ part = "files" /\ FilesNext /\ UNCHANGED <<part, vars, console>>
  \/ part = "stdin" /\ Next /\ UNCHANGED <<part, open_files, console>>
  \/ part = "console" /\ ConsNext /\ UNCHANGED <<part, open_files, vars>>

AllSpec == AllInit /\ [][AllNext]_all
=============================================================================
