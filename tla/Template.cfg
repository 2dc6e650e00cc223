SPECIFICATION TemplateSpec
CONSTANTS
  Templates <- ShortTemplates
  Noise <- SomeNoise
  Scratches <- SomeScratches
  Pad = Pad
  NULL = NULL
INVARIANTS TemplateInv HeldIsEnrolled
