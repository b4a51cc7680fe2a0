---------------------------- MODULE MCAnnouncements ----------------------------
(* Two payloads and one that cannot be sent, set three times; two sources  *)
(* and room for one bucket.                                                *)
EXTENDS Announcements
=============================================================================
