-------------------------- MODULE MCBookLifecycle --------------------------
(***************************************************************************)
(* A page whose style formats with three others, one of which formats with *)
(* a second: commands nest three deep, and the array has one entry less    *)
(* than there are styles.                                                  *)
(***************************************************************************)
EXTENDS BookLifecycle

MCFormats == {<<"page", "note">>, <<"page", "kwic">>, <<"page", "toc">>,
              <<"note", "kwic">>}

ASSUME NoStyleFormatsItself == Acyclic

=============================================================================
