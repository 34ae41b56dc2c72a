----------------------------- MODULE MCTreeWalk -----------------------------
(***************************************************************************)
(* All trees of up to three entries below "top", beside a directory "out"  *)
(* with one file: files, nested directories, dangling links, links to      *)
(* files and directories inside and outside, links to a parent.            *)
(***************************************************************************)
EXTENDS TreeWalk, TLC

Inside    == {"a", "b", "c"}
MCOutside == {"out", "sub", "o"}
MCEntry   == {"top"} \cup Inside \cup MCOutside

File(d) == [dir |-> d, kind |-> "file", target |-> Nowhere]
Dir(d)  == [dir |-> d, kind |-> "dir", target |-> Nowhere]

\* What entry e below "top" may be.
Choice(dirs) ==
  {File(d) : d \in dirs} \cup {Dir(d) : d \in dirs}
    \cup [dir : dirs, kind : {"link"}, target : MCEntry \cup {Nowhere}]

Base == ("top" :> Dir(Nowhere)) @@ ("out" :> Dir(Nowhere)) @@ ("sub" :> Dir("out")) @@ ("o" :> File("sub"))

MCTree ==
  {t \in {Base @@ ("a" :> x) @@ ("b" :> y) @@ ("c" :> z) :
             x \in Choice({"top"}), y \in Choice({"top", "a"}), z \in Choice({"top", "b"})} :
     \A e \in Inside :
       /\ t[t[e].dir].kind = "dir"
       /\ t[e].target # Nowhere => t[t[e].target].kind # "link"}
=============================================================================
