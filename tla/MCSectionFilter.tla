-------------------------- MODULE MCSectionFilter --------------------------
(* OSCam's filters: of each demux one for ECMs, of both parities or of the *)
(* next one, and one for EMMs.                                             *)
EXTENDS SectionFilter

CONSTANTS even, odd, emm

MCFilterIds == {<<1, "ecm">>, <<2, "ecm">>, <<1, "emm">>}
MCTunes(f) == IF f[2] = "ecm" THEN {{even, odd}, {even}, {odd}} ELSE {{emm}}

\* One demux, all that may happen to its sections.
OneDemux == [filters |-> {<<1, "ecm">>, <<1, "emm">>}, others |-> {}, pids |-> {},
             sections |-> 3]

\* Two demuxes with ECMs of this pid, one of them with ECMs of another pid too.
TwoDemuxes(pid, sections) ==
  [filters |-> {<<1, "ecm">>, <<2, "ecm">>}, others |-> {<<1, "ecm">>}, pids |-> {pid},
   sections |-> sections]

MCOtherPids == {1, 3}
MCSetups == {OneDemux} \cup {TwoDemuxes(1, 2), TwoDemuxes(3, 1)}
=============================================================================
