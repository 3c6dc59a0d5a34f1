------------------------------- MODULE MCDisk -------------------------------
(***************************************************************************)
(* Disks on small instances: mounting them (VfsDev); a file of SFS as its  *)
(* users see it, the blocks of two files, and the image that mksfs makes.  *)
(* part says which of them is at work; the others rest, the variables of   *)
(* the one file and the image at 0.                                        *)
(***************************************************************************)
EXTENDS VfsDev, SfsFile

VARIABLES
  part,
  fs1, din1, ondisk1, dirty1, fd1, res1, end1, fault1,   \* SfsFile with one file
  home, ninos, t, stack, pc                              \* MkSfs

one == <<fs1, din1, ondisk1, dirty1, fd1, res1, end1, fault1>>
image == <<home, ninos, t, stack, pc>>
all == <<part, vars, sfs_vars, one, image>>

\* One file with two descriptors, beside the files that take turns.
One == INSTANCE SfsFile WITH
  Files <- {"pa"}, Descs <- {"d1", "d2"}, NBlock <- 3, BLKSIZE <- 2,
  NDIRECT <- 1, MaxSize <- 4, Values <- {1}, MaxLen <- 3,
  fs <- fs1, din <- din1, ondisk <- ondisk1, dirty <- dirty1, fd <- fd1, res <- res1, end <- end1, fault <- fault1

Dir(kids) == [type |-> "dir", kids |-> kids, len |-> 0]
File(len) == [type |-> "file", kids |-> {}, len |-> len]
Kid(n, real) == [name |-> n, real |-> real]

\* A file with two names that needs the index block, an empty file, a hidden
\* name and something that is no file; a link and directories in directories.
Linked ==
  [x \in {"root", "sub", "big", "empty", "sock"} |->
     CASE x = "root" -> Dir({Kid("a", "big"), Kid("d", "sub"), Kid("s", "sock"), Kid(".h", "empty")})
       [] x = "sub" -> Dir({Kid("b", "big"), Kid("c", "empty")})
       [] x = "big" -> File(9)
       [] x = "empty" -> File(0)
       [] x = "sock" -> [type |-> "other", kids |-> {}, len |-> 0]]
Nested ==
  [x \in {"root", "one", "two", "ln", "f"} |->
     CASE x = "root" -> Dir({Kid("d", "one"), Kid("e", "two"), Kid("l", "ln")})
       [] x = "one" -> Dir({Kid("f", "f")})
       [] x = "two" -> Dir({})
       [] x = "ln" -> [type |-> "link", kids |-> {}, len |-> 1]
       [] x = "f" -> File(3)]

Image == INSTANCE MkSfs WITH NDIRECT <- 2, NENTRY <- 3, BLKBITS <- 4, LN <- 10, FULL <- 2,
           Root <- "root", Homes <- {Linked, Nested}, Hidden <- {".h"}, Long <- {}, Sizes <- 3 .. 34

ASSUME DiskAssumption ==
  DevAssumption /\ SizeAssumption /\ One!SizeAssumption /\ Image!ImageAssumption

NoFile == fs1 = 0 /\ din1 = 0 /\ ondisk1 = 0 /\ dirty1 = 0 /\ fd1 = 0 /\ res1 = 0 /\ end1 = 0 /\ fault1 = 0
NoImage == home = 0 /\ ninos = 0 /\ t = 0 /\ stack = 0 /\ pc = 0

AllInit ==
  /\ Init
  /\ SfsInit
  /\ \/ part \in {"mounts", "blocks"} /\ NoFile /\ NoImage
     \/ part = "words" /\ One!SfsInit /\ NoImage
     \/ part = "image" /\ Image!Init /\ NoFile

\* The words with transfers that begin at a block: the size is right only then
\* (SizeHonest of SfsFile).
AllNext ==
  \/ part = "mounts" /\ Next /\ UNCHANGED <<part, sfs_vars, one, image>>
  \/ part = "blocks" /\ SfsNext /\ UNCHANGED <<part, vars, one, image>>
  \/ part = "words" /\ One!SfsAlignedNext /\ UNCHANGED <<part, vars, sfs_vars, image>>
  \/ part = "image" /\ Image!Next /\ UNCHANGED <<part, vars, sfs_vars, one>>

AllSpec == AllInit /\ [][AllNext]_all

\* sfs_io, sfs_truncfile, load and reclaim make a file a sequence of words to
\* all who have it open: SFS implements ByteFile.
ImplementsFile ==
  /\ part = "words" => One!F!Init
  /\ [][part = "words" => [One!F!Next]_(One!F!vars)]_all

\* mksfs leaves an image that the kernel mounts, with every file of the host.
ImageFaithful == part = "image" => Image!ImageFaithful
=============================================================================
