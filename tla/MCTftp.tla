------------------------------- MODULE MCTftp -------------------------------
(* Instances of Tftp: two or three uploads of two or three blocks, sizes on  *)
(* both sides of the ones checkfile knows images by.                       *)
EXTENDS Tftp, TLC

CONSTANTS s1, s2, s3, h1, h2, h3

Three      == {s1, s2, s3}
Two        == {s1, s2}
SharedHost == s1 :> h1 @@ s2 :> h1 @@ s3 :> h2
TwoHosts   == s1 :> h1 @@ s2 :> h2
ThreePorts == s1 :> 1025 @@ s2 :> 1026 @@ s3 :> 1027
TwoPorts   == s1 :> 1025 @@ s2 :> 1026

Contents == {"a", "b", "c"}
Whole(b) == [bytes |-> b, len |-> 512]
Part(b)  == [bytes |-> b, len |-> 100]

BootFile   == <<Whole("c")>>                                (*  512 bytes *)
KernelFile == <<Whole("a"), Part("b")>>                     (*  612 bytes *)
LinuxFile  == <<Whole("b"), Whole("c"), Part("a")>>         (* 1124 bytes *)
HugeFile   == <<Whole("b"), Whole("b"), Part("b")>>         (* 1124 bytes *)

KernelBootHuge == s1 :> KernelFile @@ s2 :> BootFile @@ s3 :> HugeFile
BootNames      == s1 :> "other" @@ s2 :> "tcboot.bin" @@ s3 :> "tclinux.bin"
LinuxKernel    == s1 :> LinuxFile @@ s2 :> KernelFile
LinuxNames     == s1 :> "tclinux.bin" @@ s2 :> "other"
GoodImages     == {BootFile, LinuxFile}
Stays     == {TRUE}
Leaves    == {FALSE}
Nobody    == {}
Bystander == {h3}
=============================================================================
