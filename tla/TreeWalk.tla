------------------------------ MODULE TreeWalk ------------------------------
(***************************************************************************)
(* The two recursive walks of a directory: rm_r (core/rm-r.c), with which  *)
(* setup clears what an earlier run left, and list_files (core/tar.c),     *)
(* which collects what tar_create packs (a library function that no        *)
(* command of the program calls). The recursion is a stack of open         *)
(* directories; readdir returns the entries in any order. Both ask stat,   *)
(* which follows symbolic links, what an entry is.                         *)
(*                                                                         *)
(* An entry stands for its name in its directory. A link that leads to     *)
(* another link acts as one that leads to the end of the chain.            *)
(***************************************************************************)
EXTENDS Integers, Sequences, FiniteSets

CONSTANTS Entry,     \* the entries of the file system that matter
          Top,       \* the directory the walk is asked for
          Outside,   \* the entries that are not below Top
          Tree,      \* the trees to consider (see Node)
          MaxLinks,  \* the links the kernel follows in one path
          MaxNoise   \* how often others interfere with one call (bound)

Nowhere == "nowhere"  \* where a dangling link leads, and what has no directory

Kind == {"file", "dir", "link"}
Node == [dir : Entry \cup {Nowhere}, kind : Kind, target : Entry \cup {Nowhere}]

ASSUME EntryAssumption == Top \in Entry /\ Outside \subseteq Entry \ {Top} /\ Nowhere \notin Entry
ASSUME LinksAssumption == MaxLinks \in Nat /\ MaxNoise \in Nat

\* Top is a directory, what is below it is in directories below it or in Top,
\* none of them below itself, what is outside in directories outside.
ASSUME TreeAssumption ==
  \A t \in Tree :
    /\ t \in [Entry -> Node]
    /\ t[Top].kind = "dir" /\ t[Top].dir = Nowhere
    /\ \A e \in Entry \ (Outside \cup {Top}) :
         t[e].dir \in Entry \ Outside /\ t[t[e].dir].kind = "dir"
    /\ \A S \in SUBSET (Entry \ (Outside \cup {Top})) : S # {} => \E e \in S : t[e].dir \notin S
    /\ \A e \in Outside : t[e].dir \in Outside \cup {Nowhere}

VARIABLES tree,    \* tree[e]: the directory, kind and target of e (constant)
          there,   \* the entries that exist
          op,      \* "rm" or "list"
          stack,   \* the open directories, the innermost last
          listed,  \* the files list_files has collected
          ret,     \* how the last call ended
          noise    \* how often the call was disturbed so far (history)

vars == <<tree, there, op, stack, listed, ret, noise>>

\* An open directory: the directory itself, the entry it was opened by, and
\* the entries readdir has yet to return.
Frame == [dir : Entry, via : Entry, left : SUBSET Entry]

Running == stack # <<>>

TypeOK ==
  /\ tree   \in [Entry -> Node]
  /\ there  \subseteq Entry
  /\ op     \in {"rm", "list"}
  /\ stack  \in Seq(Frame)
  /\ listed \in Seq(Entry)
  /\ ret    \in {"none", "OK", "failed"}
  /\ noise  \in 0..IF Running THEN MaxNoise ELSE MaxNoise + 1

\* A file below Top may not be there yet.
Init ==
  /\ tree \in Tree
  /\ \E S \in SUBSET {e \in Entry \ Outside : tree[e].kind = "file"} : there = Entry \ S
  /\ op = "rm"
  /\ stack = <<>> /\ listed = <<>>
  /\ ret = "none"
  /\ noise = 0

Children(d) == {e \in there : tree[e].dir = d}

-----------------------------------------------------------------------------
Here    == stack[Len(stack)]
Through == Cardinality({k \in DOMAIN stack : tree[stack[k].via].kind = "link"})

\* What stat finds of entry e of the innermost directory: nothing when the
\* link dangles or the path has too many links.
Target(e) ==
  IF tree[e].kind # "link" THEN e
  ELSE IF tree[e].target \in there /\ Through < MaxLinks THEN tree[e].target
  ELSE Nowhere

IsDir(e) == Target(e) # Nowhere /\ tree[Target(e)].kind = "dir"

Open(d, via) == [dir |-> d, via |-> via, left |-> Children(d)]

\* The stack once readdir has returned e.
Past(e) == [stack EXCEPT ![Len(stack)].left = @ \ {e}]

Return(r) == stack' = <<>> /\ ret' = r

Call ==
  /\ ~Running
  /\ Top \in there
  /\ op' \in {"rm", "list"}
  /\ stack' = <<Open(Top, Top)>>
  /\ listed' = <<>>
  /\ ret' = "none"
  /\ noise' = 0
  /\ UNCHANGED <<tree, there>>

\* An entry that stat takes for a directory is entered.
Enter(e) ==
  /\ Running
  /\ e \in Here.left /\ e \in there
  /\ IsDir(e)
  /\ stack' = Append(Past(e), Open(Target(e), e))
  /\ UNCHANGED <<tree, there, op, listed, ret, noise>>

\* Mutant of Remove: the link's target is removed in place of the link.
Remove_Target(e) ==
  /\ Running /\ op = "rm"
  /\ e \in Here.left /\ e \in there
  /\ ~IsDir(e)
  /\ there' = there \ {IF Target(e) = Nowhere THEN e ELSE Target(e)}
  /\ stack' = Past(e)
  /\ UNCHANGED <<tree, op, listed, ret, noise>>

\* Mutant of Remove: an entry stat knows nothing of ends the walk.
Remove_StatFails(e) ==
  /\ Running /\ op = "rm"
  /\ e \in Here.left /\ e \in there
  /\ ~IsDir(e)
  /\ IF Target(e) = Nowhere THEN Return("failed") /\ UNCHANGED there
                            ELSE there' = there \ {e} /\ stack' = Past(e) /\ UNCHANGED ret
  /\ UNCHANGED <<tree, op, listed, noise>>

\* rm_r unlinks a file, a link to a file, and what stat knows nothing of.
Remove(e) ==
  /\ Running /\ op = "rm"
  /\ e \in Here.left /\ e \in there
  /\ ~IsDir(e)
  /\ there' = there \ {e}
  /\ stack' = Past(e)
  /\ UNCHANGED <<tree, op, listed, ret, noise>>

\* Mutant of List: an entry stat knows nothing of is left out of the list.
List_Skips(e) ==
  /\ Running /\ op = "list"
  /\ e \in Here.left /\ e \in there
  /\ ~IsDir(e)
  /\ stack' = Past(e)
  /\ listed' = IF Target(e) = Nowhere THEN listed ELSE Append(listed, e)
  /\ UNCHANGED <<tree, there, op, ret, noise>>

\* Mutant of List: what the entry resolves to is recorded unchecked.
List_Unchecked(e) ==
  /\ Running /\ op = "list"
  /\ e \in Here.left /\ e \in there
  /\ ~IsDir(e)
  /\ stack' = Past(e)
  /\ listed' = Append(listed, Target(e))
  /\ UNCHANGED <<tree, there, op, ret, noise>>

\* list_files collects a file or a link to one, and gives up on the rest.
List(e) ==
  /\ Running /\ op = "list"
  /\ e \in Here.left /\ e \in there
  /\ ~IsDir(e)
  /\ \/ /\ Target(e) = Nowhere
        /\ Return("failed")
        /\ UNCHANGED listed
     \/ /\ Target(e) # Nowhere
        /\ stack' = Past(e)
        /\ listed' = Append(listed, e)
        /\ UNCHANGED ret
  /\ UNCHANGED <<tree, there, op, noise>>

\* An entry removed since opendir: readdir skips it, or returns it still, and
\* then neither stat nor unlink find it.
Gone(e) ==
  /\ Running
  /\ e \in Here.left /\ e \notin there
  /\ \/ stack' = Past(e) /\ UNCHANGED ret
     \/ Return("failed")
  /\ UNCHANGED <<tree, there, op, listed, noise>>

Leave == IF Len(stack) = 1 THEN Return("OK")
         ELSE stack' = SubSeq(stack, 1, Len(stack) - 1) /\ UNCHANGED ret

\* Mutant of Close: the directory is removed by its real path.
Close_Resolved ==
  /\ Running
  /\ Here.left = {}
  /\ LET removable == Here.dir \in there /\ Children(Here.dir) = {}
     IN  \/ op = "list" /\ Leave /\ UNCHANGED there
         \/ op = "rm" /\ removable /\ Leave /\ there' = there \ {Here.dir}
         \/ op = "rm" /\ ~removable /\ Return("failed") /\ UNCHANGED there
  /\ UNCHANGED <<tree, op, listed, noise>>

\* Mutant of Close: a directory that cannot be removed is read again.
Close_Rewinds ==
  /\ Running
  /\ Here.left = {}
  /\ LET removable == Here.via \in there /\ Children(Here.via) = {}
     IN  \/ op = "list" /\ Leave /\ UNCHANGED there
         \/ op = "rm" /\ removable /\ Leave /\ there' = there \ {Here.via}
         \/ op = "rm" /\ ~removable /\ UNCHANGED <<there, ret>>
            /\ stack' = [stack EXCEPT ![Len(stack)] = Open(Here.dir, Here.via)]
  /\ UNCHANGED <<tree, op, listed, noise>>

\* Mutant of Close: rmdir also removes a directory that is not empty.
Close_Force ==
  /\ Running
  /\ Here.left = {}
  /\ IF op = "rm" /\ tree[Here.via].kind # "dir"
     THEN Return("failed") /\ UNCHANGED there
     ELSE /\ Leave
          /\ there' = IF op = "rm" THEN there \ {Here.via} ELSE there
  /\ UNCHANGED <<tree, op, listed, noise>>

\* readdir has returned everything: rm_r removes the directory by the name it
\* opened it by; rmdir refuses a link, and a directory that is not empty.
Close ==
  /\ Running
  /\ Here.left = {}
  /\ LET removable == /\ Here.via \in there
                      /\ tree[Here.via].kind = "dir"
                      /\ Children(Here.via) = {}
     IN  \/ op = "list" /\ Leave /\ UNCHANGED there
         \/ op = "rm" /\ removable /\ Leave /\ there' = there \ {Here.via}
         \/ op = "rm" /\ ~removable /\ Return("failed") /\ UNCHANGED there
  /\ UNCHANGED <<tree, op, listed, noise>>

\* opendir, readdir, unlink, rmdir or malloc fails, or the process is killed:
\* the recursion unwinds and what is done stays done.
Fail ==
  /\ Running
  /\ Return("failed")
  /\ noise' = noise + 1
  /\ UNCHANGED <<tree, there, op, listed>>

\* Another process, such as a build whose python3-setup was killed, creates a
\* file; a readdir in progress may return it or not.
Create(e) ==
  /\ noise < MaxNoise
  /\ e \in Entry \ (Outside \cup there)
  /\ tree[e].kind = "file" /\ tree[e].dir \in there
  /\ there' = there \cup {e}
  /\ \E K \in SUBSET {k \in DOMAIN stack : stack[k].dir = tree[e].dir} :
       stack' = [k \in DOMAIN stack |->
                   IF k \in K THEN [stack[k] EXCEPT !.left = @ \cup {e}] ELSE stack[k]]
  /\ noise' = noise + 1
  /\ UNCHANGED <<tree, op, listed, ret>>

\* It removes one.
Delete(e) ==
  /\ noise < MaxNoise
  /\ e \in there \ Outside /\ tree[e].kind = "file"
  /\ there' = there \ {e}
  /\ noise' = noise + 1
  /\ UNCHANGED <<tree, op, stack, listed, ret>>

Step == Close \/ \E e \in Entry : Enter(e) \/ Remove(e) \/ List(e) \/ Gone(e)

Next == Call \/ Step \/ Fail \/ \E e \in Entry : Create(e) \/ Delete(e)

Spec == Init /\ [][Next]_vars

\* The walk waits for nothing but the file system.
FairSpec == Spec /\ WF_vars(Step)

-----------------------------------------------------------------------------
(* Properties *)

\* The links to directories a walk of Top may meet.
DirLinks == {e \in Entry \ Outside : /\ tree[e].kind = "link"
                                    /\ tree[e].target # Nowhere
                                    /\ tree[tree[e].target].kind = "dir"}

\* What a path that goes on behind entry e is in: e, or where the link leads.
Leads(e) == IF tree[e].kind = "link" THEN tree[e].target ELSE e

\* Top is in D, and so is every directory that an entry of D is or leads to.
Closed(D) ==
  /\ Top \in D
  /\ \A e \in Entry :
       tree[e].dir \in D /\ Leads(e) # Nowhere /\ tree[Leads(e)].kind = "dir" => Leads(e) \in D

\* The directories that are reached from Top.
Reached == {d \in Entry : \A D \in SUBSET Entry : Closed(D) => d \in D}

\* Outside Top's tree rm_r empties the directories that links in the tree lead
\* to, with all that is below them or behind links in them (rm-r.c:59), and
\* removes nothing else: not what a link to a file leads to, not the linked
\* directory itself, nothing beside it.
OnlyReachedRemoved == \A e \in Outside \ there : tree[e].dir \in Reached

\* When rm_r reports success nothing is left below Top, whatever was created
\* there while it ran and whatever the links in it led to.
SuccessMeansGone ==
  [][Running /\ ~Running' /\ op = "rm" /\ ret' = "OK"
       => \A e \in Entry \ Outside : e \notin there']_vars

\* A tree without links to directories is removed in whatever order readdir
\* returns it, what earlier failed calls left of it too: a link that lost its
\* file, "bin/sed" after "bin/gsed" (rm-r.c:75-81), is no reason to fail.
CalmSucceeds ==
  [][Running /\ ~Running' /\ op = "rm" /\ noise' = 0 /\ DirLinks = {} => ret' = "OK"]_vars

\* When list_files reports success on a tree without links to directories, it
\* has found every file below Top once.
ListedOnce ==
  [][Running /\ ~Running' /\ op = "list" /\ noise' = 0 /\ ret' = "OK" /\ DirLinks = {}
       => /\ \A e \in there \ Outside :
               tree[e].kind # "dir" => \E k \in DOMAIN listed : listed[k] = e
          /\ \A j, k \in DOMAIN listed : listed[j] = listed[k] => j = k]_vars

\* Every walk ends, though links may lead back up the tree, unless others keep
\* creating files in its way.
WalkEnds == Running /\ noise = 0 ~> ~Running \/ noise > 0
=============================================================================
