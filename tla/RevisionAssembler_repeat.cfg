SPECIFICATION AssemblerSpec
CONSTANTS
  crossfade_samples = 3
  MaxWaveforms = 3
  MaxLength = 4
INVARIANT NoPlayedRepeated
\* The renderer makes MaxWaveforms waveforms: once all are played the assembler is at rest.
CHECK_DEADLOCK FALSE
