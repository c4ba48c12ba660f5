----------------------------- MODULE MCWebPage ------------------------------
(***************************************************************************)
(* A page with everything that is animated, for WebPage.                   *)
(***************************************************************************)
EXTENDS WebPage

TwoAccordions == <<"install", "users_list">>
Elements ==
    {"flash_messages", "validator_report", "library_select_div",
     "install", "users_list"}
=============================================================================
