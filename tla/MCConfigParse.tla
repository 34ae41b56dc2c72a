--------------------------- MODULE MCConfigParse ---------------------------
(***************************************************************************)
(* Instances of ConfigParse. MixedNames has two fields of one package, a   *)
(* key that is merged but not parsed (python3's) and one that is parsed    *)
(* but not merged (cmake's). ExampleNames are keys of the README.          *)
(***************************************************************************)
EXTENDS ConfigParse

MixedNames   == {"src-url-zlib", "src-sha-zlib", "src-url-python3", "src-url-cmake"}
ExampleNames == {"src-url-python3", "src-sha-python3", "src-url-perl"}
=============================================================================
