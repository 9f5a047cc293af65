---------------------------- MODULE MCVoiceSession ----------------------------
(* The model-checking instance of VoiceSession is given by its constants.     *)
EXTENDS VoiceSession
=============================================================================
