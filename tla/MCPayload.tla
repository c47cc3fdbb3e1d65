------------------------------- MODULE MCPayload -------------------------------
(***************************************************************************)
(* LINE's main window with an advertisement panel, a banner in it, and a   *)
(* banner that lies in no panel.                                           *)
(***************************************************************************)
EXTENDS Payload, TLC

CONSTANTS window, panel, banner, loose

MCWidgets == {window, panel, banner, loose}
MCOwners ==
  window :> <<window>> @@ panel :> <<panel, window>>
    @@ banner :> <<banner, panel, window>> @@ loose :> <<loose, window>>
================================================================================
