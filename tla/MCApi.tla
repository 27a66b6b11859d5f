------------------------------- MODULE MCApi -------------------------------
(* Two goroutines serve the requests of one of six menus. *)
EXTENDS Api

CONSTANTS r1, r2, u1

AllMenus ==
  {{"view", "change", "update", "drop"}, {"update", "follow", "exec", "release"}, {"apply", "undo", "kinds"},
   {"search", "refresh", "install"}, {"search", "add", "remove", "drop"}, {"logs"}}
TwoManifests == {<<"custom">>, <<"plain", "custom">>}

=============================================================================
