---------------------------- MODULE MCSoundFiles -----------------------------
(* SoundFiles for all formats.                                               *)
EXTENDS SoundFiles

AllFormats == {"snd", "voc", "wave", "aiff", "8svx"}

\* SSND chunks are closed 8 bytes too short; VOC and 8SVX files are read from
\* 3 and 8 bytes behind the beginning of the sound.
SizedFormats == AllFormats \ {"aiff"}
PlacedFormats == {"snd", "wave", "aiff"}

\* An unfinished AIFF or 8SVX file is read on into its sound.
CrashFormats == {"snd", "voc", "wave"}
=============================================================================
