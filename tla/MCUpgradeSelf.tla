---------------------------- MODULE MCUpgradeSelf ----------------------------
(***************************************************************************)
(* Instances of UpgradeSelf: two versions whose minor numbers are in the   *)
(* other order than the versions, a tag that is no version, and one that   *)
(* names no commit.                                                        *)
(***************************************************************************)
EXTENDS UpgradeSelf

MCVersion == {Zero, <<1, 1, 0>>, <<2, 0, 1>>}

\* As publish.yml names the releases: the version, '+' and the commit.
Published == [version : MCVersion, commit : {TRUE}]
Tags      == Published \cup {[version |-> <<2, 0, 1>>, commit |-> FALSE]}

\* The tarballs are also there under the version alone.
Mirrored == [version : MCVersion, commit : BOOLEAN]
=============================================================================
