-------------------------- MODULE MCAuditExporter --------------------------
(* Instances of AuditExporter for TLC.                                     *)
EXTENDS AuditExporter

OneStream == <<"tenant">>
TwoStreams == <<"tenant", "platform">>
OneTenant == <<"a">>
TwoTenants == <<"a", "b">>
NothingUnreadable == {}
FirstUnreadable == {<<"a", 1>>}
=============================================================================
